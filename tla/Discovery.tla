----------------------------- MODULE Discovery -----------------------------
(***************************************************************************)
(* How devices find a master: the threads that answer every datagram       *)
(* (iotc_broadcast.c, iotc_multicast.c) and the program that asks          *)
(* (iotc_slave/multicast).  A datagram may be lost; those that arrive are  *)
(* received in their order.                                                *)
(*                                                                         *)
(* The two threads differ where recvfrom fails: the one for broadcasts      *)
(* begins its loop again, the one for multicasts goes on and answers the   *)
(* address it has from before.  main starts the first one only (the call   *)
(* for the other is commented out, main.c:110).  A set-up that fails is    *)
(* the same from outside in both: IotcBroadcastInit creates no thread, and *)
(* every call of the thread of IotcMulticastInit fails.                    *)
(* No program of the repository asks by broadcast: Group stands for the    *)
(* group and for the broadcast address, and may reach masters of each kind.*)
(***************************************************************************)
EXTENDS Naturals, FiniteSets, SequencesExt

CONSTANTS Servers,    \* masters
          Multicast,  \* those with the thread for multicasts; the others have the one for broadcasts
          Clients,    \* devices that look for one
          Group,      \* the address a client asks first
          NoClient,   \* the address a server binds to, which is its own socket
          MaxFailures \* bound: calls of recvfrom that fail

ASSUME GroupAssumption == /\ Group \notin Servers /\ NoClient \notin Clients
                          /\ IsFiniteSet(Servers) /\ Multicast \subseteq Servers
                          /\ MaxFailures \in Nat

VARIABLES
    joined,       \* the servers that datagrams to Group reach: none where the two
                  \* definitions of MULTICAST_ADDRESS differ, as they do at present
    eThreadState, \* of each server
    thread,       \* where its thread is; "none" if the set-up failed
    server_addr,  \* the source of the datagram it received last
    requests,     \* whose datagrams are on their way to, or in, each server's socket
    cpc,          \* where each client is
    client_addr,  \* whom it asks
    answers,      \* the servers whose datagrams are on their way to, or in, each client's socket
    undone,       \* history: clients a datagram of which was lost or never sent
    late,         \* history: answers of each server since it was stopped in its loop
    failures      \* history: for each address, the calls of recvfrom that failed and left it in
                  \* place to be answered, or asked, once more

serverVars == <<eThreadState, thread, server_addr, late>>
clientVars == <<cpc, client_addr>>
vars == <<joined, serverVars, requests, clientVars, answers, undone, failures>>

Init ==
    /\ joined \in SUBSET Servers
    /\ eThreadState = [s \in Servers |-> "STOPPED"]
    /\ thread \in [Servers -> {"none", "start"}]
    /\ server_addr = [s \in Servers |-> NoClient]
    /\ requests = [s \in Servers |-> << >>]
    /\ cpc = [c \in Clients |-> "send"]
    /\ client_addr = [c \in Clients |-> Group]
    /\ answers = [c \in Clients |-> << >>]
    /\ undone = {}
    /\ late = [s \in Servers |-> 0]
    /\ failures = [a \in Clients \cup {NoClient} |-> 0]

MoveThread(s, place) == thread' = [thread EXCEPT ![s] = place]

AllFailures == FoldFunction(+, 0, failures)

\* A call of recvfrom fails, and the address that it should overwrite is still a.
FailsWith(a) ==
    /\ AllFailures < MaxFailures
    /\ failures' = [failures EXCEPT ![a] = @ + 1]
-----------------------------------------------------------------------------
(* A server.                                                               *)

\* The thread stores E_THREAD_RUNNING, over a stop that came before.
Start(s) ==
    /\ thread[s] = "start"
    /\ eThreadState' = [eThreadState EXCEPT ![s] = "RUNNING"]
    /\ MoveThread(s, "test")
    /\ UNCHANGED <<joined, server_addr, late, requests, clientVars, answers, undone, failures>>

\* Mistake to be caught: the thread does not look at its state.
LoopForever(s) == TRUE

GoesOn(s) == eThreadState[s] = "RUNNING"

Test(s) ==
    /\ thread[s] = "test"
    /\ MoveThread(s, IF GoesOn(s) THEN "recv" ELSE "exited")
    /\ UNCHANGED <<joined, eThreadState, server_addr, late, requests, clientVars, answers, undone, failures>>

\* Mistake to be caught: the source is not asked for.
Unsourced(s, c) == UNCHANGED server_addr

\* recvfrom stores whom the datagram is from.
StoreSource(s, c) == server_addr' = [server_addr EXCEPT ![s] = c]

\* recvfrom, which waits for a datagram for ever.
Receive(s) ==
    /\ thread[s] = "recv"
    /\ requests[s] # << >>
    /\ requests' = [requests EXCEPT ![s] = Tail(@)]
    /\ StoreSource(s, Head(requests[s]))
    /\ MoveThread(s, "reply")
    /\ UNCHANGED <<joined, eThreadState, late, clientVars, answers, undone, failures>>

\* The thread for broadcasts begins its loop again.
ReceiveFails(s) ==
    /\ thread[s] = "recv" /\ s \notin Multicast
    /\ FailsWith(NoClient)
    /\ MoveThread(s, "test")
    /\ UNCHANGED <<joined, eThreadState, server_addr, late, requests, clientVars, answers, undone>>

\* The thread for multicasts prints the failure and answers whom it answered before.
AnswersAgain(s) ==
    /\ thread[s] = "recv" /\ s \in Multicast
    /\ FailsWith(server_addr[s])
    /\ MoveThread(s, "reply")
    /\ UNCHANGED <<joined, eThreadState, server_addr, late, requests, clientVars, answers, undone>>

\* sendto, whose failure is printed.  A datagram to the address that the thread was
\* bound to comes back to its own socket.
Reply(s) ==
    /\ thread[s] = "reply"
    /\ \/ /\ server_addr[s] \in Clients
          /\ answers' = [answers EXCEPT ![server_addr[s]] = Append(@, s)]
          /\ UNCHANGED <<requests, undone>>
       \/ /\ server_addr[s] = NoClient
          /\ requests' = [requests EXCEPT ![s] = Append(@, NoClient)]
          /\ UNCHANGED <<answers, undone>>
       \/ /\ undone' = undone \cup ({server_addr[s]} \cap Clients)
          /\ UNCHANGED <<requests, answers>>
    /\ MoveThread(s, "test")
    /\ late' = [late EXCEPT ![s] = IF eThreadState[s] = "STOPPED" THEN @ + 1 ELSE @]
    /\ UNCHANGED <<joined, eThreadState, server_addr, clientVars, failures>>

\* IotcBroadcastFinished stores the state and does not wait.
Finished(s) ==
    /\ eThreadState[s] = "RUNNING"
    /\ eThreadState' = [eThreadState EXCEPT ![s] = "STOPPED"]
    /\ UNCHANGED <<joined, thread, server_addr, late, requests, clientVars, answers, undone, failures>>

\* The daemon ends, and its threads with it.
End(s) ==
    /\ thread[s] \notin {"none", "exited"}
    /\ MoveThread(s, "exited")
    /\ UNCHANGED <<joined, eThreadState, server_addr, late, requests, clientVars, answers, undone, failures>>
-----------------------------------------------------------------------------
(* A client.                                                               *)

\* The servers a datagram to address a reaches.
Reached(a) == IF a = Group THEN joined ELSE {a}

\* sendto; a failure is printed, and the client waits for an answer all the same.
Ask(c) ==
    /\ cpc[c] = "send"
    /\ cpc' = [cpc EXCEPT ![c] = "recv"]
    /\ \/ /\ requests' = [s \in Servers |->
                IF s \in Reached(client_addr[c]) THEN Append(requests[s], c) ELSE requests[s]]
          /\ UNCHANGED undone
       \/ /\ undone' = undone \cup {c}
          /\ UNCHANGED requests
    /\ UNCHANGED <<joined, serverVars, client_addr, answers, failures>>

\* Mistake to be caught: the client goes on asking the group.
AskGroup(c, s) == client_addr

\* recvfrom writes the source of the answer over the address that is asked.
Answered(c, s) == [client_addr EXCEPT ![c] = s]

\* recvfrom, without a timeout.
Hear(c) ==
    /\ cpc[c] = "recv"
    /\ answers[c] # << >>
    /\ answers' = [answers EXCEPT ![c] = Tail(@)]
    /\ client_addr' = Answered(c, Head(answers[c]))
    /\ cpc' = [cpc EXCEPT ![c] = "sleep"]
    /\ UNCHANGED <<joined, serverVars, requests, undone, failures>>

\* A failure is printed, and the client goes on as if it had been answered.
HearFails(c) ==
    /\ cpc[c] = "recv"
    /\ FailsWith(c)
    /\ cpc' = [cpc EXCEPT ![c] = "sleep"]
    /\ UNCHANGED <<joined, serverVars, requests, client_addr, answers, undone>>

\* sleep(3)
Wake(c) ==
    /\ cpc[c] = "sleep"
    /\ cpc' = [cpc EXCEPT ![c] = "send"]
    /\ UNCHANGED <<joined, serverVars, requests, client_addr, answers, undone, failures>>
-----------------------------------------------------------------------------
\* A datagram is lost.
LoseRequest(s) ==
    \E i \in DOMAIN requests[s] :
        /\ requests' = [requests EXCEPT ![s] = RemoveAt(@, i)]
        /\ undone' = undone \cup ({requests[s][i]} \cap Clients)
        /\ UNCHANGED <<joined, serverVars, clientVars, answers, failures>>

LoseAnswer(c) ==
    \E i \in DOMAIN answers[c] :
        /\ answers' = [answers EXCEPT ![c] = RemoveAt(@, i)]
        /\ undone' = undone \cup {c}
        /\ UNCHANGED <<joined, serverVars, clientVars, requests, failures>>

ServerStep(s) == Start(s) \/ Test(s) \/ Receive(s) \/ ReceiveFails(s) \/ AnswersAgain(s) \/ Reply(s)
ClientStep(c) == Ask(c) \/ Hear(c) \/ HearFails(c) \/ Wake(c)

Next == \/ \E s \in Servers : ServerStep(s) \/ Finished(s) \/ End(s) \/ LoseRequest(s)
        \/ \E c \in Clients : ClientStep(c) \/ LoseAnswer(c)

Spec == Init /\ [][Next]_vars

\* Threads and programs run.
Fairness ==
    /\ \A s \in Servers : WF_vars(ServerStep(s))
    /\ \A c \in Clients : WF_vars(ClientStep(c))

FairSpec == Spec /\ Fairness
-----------------------------------------------------------------------------
\* The datagrams under way for a client, each with its server: requests on their way,
\* the one that a server is about to answer, answers on their way.
UnderWay(c) ==
    {<<s, "reply", 0>> : s \in {t \in Servers : thread[t] = "reply" /\ server_addr[t] = c}}
        \cup {<<answers[c][i], "answer", i>> : i \in DOMAIN answers[c]}
        \cup UNION {{<<s, "request", i>> : i \in {j \in DOMAIN requests[s] : requests[s][j] = c}} : s \in Servers}

\* The request that a client which has a server's address sends next.
NextRequest(c) ==
    IF cpc[c] = "recv" \/ client_addr[c] = Group THEN {} ELSE {<<client_addr[c], "ask", 0>>}

TypeOK ==
    /\ joined \subseteq Servers
    /\ eThreadState \in [Servers -> {"STOPPED", "RUNNING"}]
    /\ thread \in [Servers -> {"none", "start", "test", "recv", "reply", "exited"}]
    /\ server_addr \in [Servers -> Clients \cup {NoClient}]
    /\ requests \in [Servers -> Seq(Clients \cup {NoClient})]
    /\ cpc \in [Clients -> {"send", "recv", "sleep"}]
    /\ client_addr \in [Clients -> Servers \cup {Group}]
    /\ answers \in [Clients -> Seq(Servers)]
    /\ undone \subseteq Clients
    /\ late \in [Servers -> Nat]
    /\ failures \in [Clients \cup {NoClient} -> Nat]

\* A client has never more datagrams under way than requests to the group reach
\* servers, one request and one more for each failed recvfrom that kept its
\* address: here (multicast.c:92-97), or in a server that answered it once more
\* (iotc_multicast.c:157-169).  It takes late answers to old requests for answers
\* to new ones, but for each answer it sends one request to one server.
FewUnderWay ==
    \A c \in Clients :
        Cardinality(UnderWay(c) \cup NextRequest(c)) <= Cardinality(joined) * (1 + failures[c])

\* A thread that is stopped in its loop answers one more datagram at the most: it
\* is waiting for it already (iotc_broadcast.c:150).
OneMoreAnswer == \A s \in Servers : late[s] <= 1

\* A waiting client gets its answer if a server that has a datagram of it, or has
\* answered, keeps serving, and nothing is lost.  Otherwise it waits for ever: it
\* has no timeout, and asks no other server (multicast.c:93).
ClientAnswered ==
    \A s \in Servers, c \in Clients :
        (cpc[c] = "recv" /\ \E d \in UnderWay(c) : d[1] = s)
            ~> (\/ cpc[c] # "recv" \/ c \in undone
                \/ thread[s] \in {"none", "exited"} \/ eThreadState[s] = "STOPPED")
=============================================================================
