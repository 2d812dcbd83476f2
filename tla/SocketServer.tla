--------------------------- MODULE SocketServer ---------------------------
(***************************************************************************)
(* The TCP side of the master daemon (socket_server.c): the server thread  *)
(* with its epoll loop, the list of clients, and main's                    *)
(* SocketServerFinished.  The peers and the kernel (connection queue,      *)
(* descriptors, receive queues, epoll's ready list) are modelled as the    *)
(* server sees them.                                                       *)
(*                                                                         *)
(* Client sockets are registered edge-triggered: epoll reports one again   *)
(* only after something new has arrived on it.  The listening socket is    *)
(* level-triggered.  The order within a batch and in the connection queue  *)
(* is left open.                                                           *)
(*                                                                         *)
(* A message is one JSON text, of Parts parts that may arrive one by one;  *)
(* a recv returns any number of parts, whosesoever.  All messages have the *)
(* same form, so that the parts of two of them can make a readable text.   *)
(***************************************************************************)
EXTENDS Naturals, Sequences, FiniteSets, Functions

CONSTANTS
    Conns,     \* connections, one per connect of a peer
    Resettable, \* bound: connections that their peer may reset
    Msgs,      \* messages, each sent at most once
    Parts,     \* the number of parts a message may arrive in
    Fds,       \* descriptors the process may use for clients
    Listen,    \* sSocketServer.iSocketFd
    MaxEvents, \* EPOLL_EVENT_NUM
    RecvCap,   \* number of parts that fit into csClientData
    CountMod   \* number of values of u8NumConnClient

ASSUME ServerAssumption ==
    /\ Fds \subseteq Nat \ {0} /\ Listen \in Nat \ Fds
    /\ Resettable \subseteq Conns
    /\ {Parts, MaxEvents, RecvCap, CountMod} \subseteq Nat \ {0}

VARIABLES
    conn,     \* each connection as the daemon's kernel has it
    cfd,      \* the descriptor a connection has or had
    coming,   \* the parts a peer has sent and the network has not delivered
    unread,   \* the parts delivered and not received by the server
    sent,     \* the messages sent so far
    fin,      \* connections whose peer has closed its side
    rst,      \* connections reset by their peer
    edges,    \* epoll's ready list: client sockets with a report to come
    clients,  \* sSocketClientHead: connections with a node in the list
    count,    \* u8NumConnClient
    data,     \* csClientData of each connection's node behind its first part, which every
              \* recv overwrites, up to its terminator
    batch,    \* EpollEventList from the current entry on
    missed,   \* history: listed connections that lost a report with something left to read
    dispatched, \* the texts a thread was started for, as the parser reads them
    torn,     \* history: those that a recv of less than a message left in csClientData
    mixed,    \* history: those with a part that another client has sent
    posting,  \* the connection whose disconnect event is being posted, if any
    spc,      \* where the server thread is
    state,    \* eThreadState
    main      \* where main is with SocketServerFinished

peerVars == <<coming, unread, sent, fin, rst>>
listVars == <<clients, count, data>>
threadVars == <<spc, state, main>>
textVars == <<dispatched, torn, mixed>>
outVars == <<missed, textVars, posting>>
sockVars == <<conn, cfd, peerVars, edges, listVars>>
vars == <<sockVars, batch, outVars, threadVars>>

NoFd == 0
Entries == [fd : Fds \cup {Listen}, err : BOOLEAN]

\* SocketInitSocket: the socket listens, and nobody has connected yet.
Listening ==
    /\ conn = [c \in Conns |-> "none"]
    /\ cfd = [c \in Conns |-> NoFd]
    /\ coming = [c \in Conns |-> << >>]
    /\ unread = [c \in Conns |-> << >>]
    /\ sent = {} /\ fin = {} /\ rst = {}

Init ==
    /\ Listening
    /\ edges = {}
    /\ clients = {}
    /\ count = 0
    /\ data = [c \in Conns |-> << >>]
    /\ batch = {}
    /\ missed = {}
    /\ dispatched = {} /\ torn = {} /\ mixed = {}
    /\ posting = {}
    /\ spc = "start"
    /\ state = "stopped"
    /\ main = "run"

Backlog == {c \in Conns : conn[c] = "backlog"}
Open == {c \in Conns : conn[c] = "open"}

\* recv on the socket would not block.
Readable(c) == unread[c] # << >> \/ c \in fin \cup rst

\* The connections that the entries of a batch name, through the list.
Named(entries) == {c \in clients : \E e \in entries : e.fd = cfd[c]}

-----------------------------------------------------------------------------
(* The peers.  What arrives on a registered socket is a new edge.          *)

Arrives(c) == edges' = IF conn[c] = "open" /\ spc # "exited" THEN edges \cup {c} ELSE edges

serverVars == <<conn, cfd, listVars, batch, outVars, threadVars>>

Connect(c) ==
    /\ conn[c] = "none"
    /\ spc # "exited"
    /\ conn' = [conn EXCEPT ![c] = "backlog"]
    /\ UNCHANGED <<cfd, peerVars, edges, listVars, batch, outVars, threadVars>>

PartsOf(c, m) == [i \in 1 .. Parts |-> [from |-> c, msg |-> m, part |-> i]]

\* The network delivers at least the first part of a flow.
Deliver(c, flow) ==
    /\ \E n \in 1 .. Len(flow) :
          /\ unread' = [unread EXCEPT ![c] = @ \o SubSeq(flow, 1, n)]
          /\ coming' = [coming EXCEPT ![c] = SubSeq(flow, n + 1, Len(flow))]
    /\ Arrives(c)

CanSend(c) == conn[c] \in {"backlog", "open"} /\ c \notin fin \cup rst

Send(c, m) ==
    /\ CanSend(c)
    /\ m \notin sent
    /\ sent' = sent \cup {m}
    /\ Deliver(c, coming[c] \o PartsOf(c, m))
    /\ UNCHANGED <<fin, rst, serverVars>>

DeliverMore(c) ==
    /\ CanSend(c)
    /\ Deliver(c, coming[c])
    /\ UNCHANGED <<sent, fin, rst, serverVars>>

\* The end of the stream comes behind everything sent.
CloseByPeer(c) ==
    /\ CanSend(c)
    /\ coming[c] = << >>
    /\ fin' = fin \cup {c}
    /\ Arrives(c)
    /\ UNCHANGED <<coming, unread, sent, rst, serverVars>>

ResetByPeer(c) ==
    /\ conn[c] \in {"backlog", "open"}
    /\ c \in Resettable \ rst
    /\ rst' = rst \cup {c}
    /\ Arrives(c)
    /\ UNCHANGED <<coming, unread, sent, fin, serverVars>>
-----------------------------------------------------------------------------
(* SocketServerHandleThread.                                               *)

\* The thread starts: it sets eThreadState, whatever it was, and registers the
\* listening socket with epoll.
Start ==
    /\ spc = "start"
    /\ state' = "running"
    /\ spc' = "test"
    /\ UNCHANGED <<sockVars, batch, outVars, main>>

\* epoll_create fails: the thread ends, and the listening socket stays open.  Or
\* the socket cannot be registered, and the thread closes it.
StartFails ==
    /\ spc = "start"
    /\ state' = "running"
    /\ spc' \in {"failed", "done"}
    /\ UNCHANGED <<sockVars, batch, outVars, main>>

\* Mistake to be caught: the loop does not look at eThreadState.
LoopForever == TRUE

\* while(eThreadState)
GoesOn == state = "running"

Test ==
    /\ spc = "test"
    /\ spc' = IF GoesOn THEN "enter" ELSE "done"
    /\ UNCHANGED <<sockVars, batch, outVars, state, main>>

\* The thread is inside epoll_wait: from here on a signal interrupts it.
Enter ==
    /\ spc = "enter"
    /\ spc' = "wait"
    /\ UNCHANGED <<sockVars, batch, outVars, state, main>>

\* What epoll has to report, with the events as they are now.
Ready ==
    {[fd |-> Listen, err |-> FALSE] : c \in Backlog}
        \cup {[fd |-> cfd[c], err |-> c \in rst] : c \in {d \in edges : Readable(d)}}

\* epoll_wait fills the event list.  The edges it reports are gone.
EpollWait ==
    /\ spc = "wait"
    /\ Ready # {}
    /\ \E B \in SUBSET Ready :
          /\ Cardinality(B) = IF Cardinality(Ready) < MaxEvents THEN Cardinality(Ready) ELSE MaxEvents
          /\ batch' = B
          /\ edges' = {c \in edges : Readable(c)} \ Named(B)
    /\ spc' = "batch"
    /\ UNCHANGED <<conn, cfd, peerVars, listVars, outVars, state, main>>

\* The loop over the event list is at its end.
EndBatch ==
    /\ spc = "batch"
    /\ batch = {}
    /\ spc' = "test"
    /\ UNCHANGED <<sockVars, batch, outVars, state, main>>

\* Mistake to be caught: every entry is taken for an error.
AnyError(e) == e.fd # Listen

\* EPOLLERR or EPOLLHUP: nothing is done about the socket.
IsError(e) == e.err

SkipError(e) ==
    /\ IsError(e)
    /\ batch' = batch \ {e}
    /\ UNCHANGED <<sockVars, outVars, threadVars>>

FreeFds == Fds \ {cfd[c] : c \in Open}

\* Mistake to be caught: the loop goes on after an accept without having moved
\* to the next entry.
SameEntry == UNCHANGED batch

\* The break after an accept.
LeaveBatch == batch' = {}

\* Mistake to be caught: the node has the contents of the memory it was given.
Uncleared == IF \E c \in Conns \ clients : data[c] # << >>
             THEN data[CHOOSE c \in Conns \ clients : data[c] # << >>] ELSE << >>

\* memset
Cleared == << >>

\* SocketClientNew, which ends the daemon if there is no memory.
SocketClientNew(c) ==
    /\ clients' = clients \cup {c}
    /\ data' = [data EXCEPT ![c] = Cleared]

\* A connection is accepted with the lowest free descriptor, linked and counted.
AcceptFrom(e, c) ==
    /\ e.fd = Listen
    /\ c \in Backlog
    /\ conn' = [conn EXCEPT ![c] = "open"]
    /\ \E f \in FreeFds : /\ \A g \in FreeFds : f <= g
                         /\ cfd' = [cfd EXCEPT ![c] = f]
    /\ SocketClientNew(c)
    /\ count' = (count + 1) % CountMod

\* It is registered; epoll notes at once what has arrived before.  The break
\* that follows leaves the whole event list: its other entries are forgotten.
Accept(e, c) ==
    /\ AcceptFrom(e, c)
    /\ edges' = IF Readable(c) THEN edges \cup {c} ELSE edges
    /\ LeaveBatch
    /\ missed' = missed \cup (Named(batch) \ edges)
    /\ UNCHANGED <<peerVars, textVars, posting, threadVars>>

\* It cannot be registered: the thread gives up.
AcceptThenDie(e, c) ==
    /\ AcceptFrom(e, c)
    /\ spc' = "done"
    /\ UNCHANGED <<peerVars, edges, batch, outVars, state, main>>

\* The list after a failed accept.
NewNodeUnlinked == UNCHANGED clients

\* accept fails: no descriptor is free, the connection is gone, or a signal came.
\* The new node was linked before the call and is unlinked after it by the one thread
\* that looks at the list, so nobody sees it there; its iSocketFd is -1, so nothing is
\* posted and the node is not freed (the memory of nodes is not in this model).
AcceptFails(e) ==
    /\ e.fd = Listen
    /\ batch' = batch \ {e}
    /\ NewNodeUnlinked
    /\ UNCHANGED <<conn, cfd, peerVars, edges, count, data, outVars, threadVars>>

\* What one recv takes, and what it leaves.
Received(c) == SubSeq(unread[c], 1, IF Len(unread[c]) < RecvCap THEN Len(unread[c]) ELSE RecvCap)
Rest(c) == SubSeq(unread[c], Len(Received(c)) + 1, Len(unread[c]))

\* Mistake to be caught: the bytes are put behind those of the message before.
PutBehind(old, new) == SubSeq(new, 1, 1) \o old \o Tail(new)

\* recv writes to the start of csClientData: what it does not reach stays.
Overwritten(old, new) == new \o SubSeq(old, Len(new), Len(old))

Text(c) == Overwritten(data[c], Received(c))

\* The parser reads the first object of a text and ignores what follows; a text
\* that does not begin with one is not readable.
Unreadable == << >>
Parsed(text) ==
    IF Len(text) >= Parts /\ \A i \in 1 .. Parts : text[i].part = i
    THEN [i \in 1 .. Parts |-> text[i].msg] ELSE Unreadable

Receive(c) ==
    /\ unread[c] # << >>
    /\ unread' = [unread EXCEPT ![c] = Rest(c)]
    /\ data' = [data EXCEPT ![c] = Tail(Text(c))]

\* One recv.  The text goes to a new thread.
RecvData(e, c) ==
    /\ Receive(c)
    /\ dispatched' = dispatched \cup {Parsed(Text(c))}
    /\ torn' = IF Len(Received(c)) < Parts THEN torn \cup {Parsed(Text(c))} ELSE torn
    /\ mixed' = IF \E p \in Range(Text(c)) : p.from # c THEN mixed \cup {Parsed(Text(c))} ELSE mixed
    /\ batch' = batch \ {e}
    /\ missed' = IF (Rest(c) # << >> \/ c \in fin) /\ c \notin edges THEN missed \cup {c} ELSE missed
    /\ UNCHANGED <<conn, cfd, coming, sent, fin, rst, edges, clients, count, posting, threadVars>>

\* recv returns -1: the reset came after the report.
RecvError(e, c) ==
    /\ unread[c] = << >>
    /\ c \in rst
    /\ batch' = batch \ {e}
    /\ UNCHANGED <<sockVars, outVars, threadVars>>

\* Mistake to be caught: the node of a closed socket stays in the list.
StayLinked(c) == UNCHANGED clients

\* dl_list_del of SocketClientDestory.
Unlink(c) == clients' = clients \ {c}

CountDown == count' = (count + CountMod - 1) % CountMod

AtEnd(c) == unread[c] = << >> /\ c \in fin \ rst

\* recv returns 0: the socket leaves epoll, SocketClientDestory unlinks the
\* node, closes the socket and begins to post the disconnect event.
RecvEof(e, c) ==
    /\ AtEnd(c)
    /\ conn' = [conn EXCEPT ![c] = "closed"]
    /\ Unlink(c)
    /\ edges' = edges \ {c}
    /\ CountDown
    /\ batch' = batch \ {e}
    /\ posting' = {c}
    /\ missed' = missed \ {c}
    /\ spc' = "post"
    /\ UNCHANGED <<cfd, peerVars, data, textVars, state, main>>

\* After a recv malloc or pthread_create fails, or the socket cannot be removed
\* from epoll: the thread gives up.
RecvThenDie(e, c) ==
    /\ \/ Receive(c) /\ UNCHANGED <<coming, sent, fin, rst, clients, count>>
       \/ AtEnd(c) /\ UNCHANGED <<peerVars, listVars>>
    /\ spc' = "done"
    /\ UNCHANGED <<conn, cfd, edges, batch, outVars, state, main>>

\* The entry of a client: the list is searched for the descriptor.
ServeClient(e) ==
    /\ ~IsError(e)
    /\ e.fd # Listen
    /\ \E c \in clients :
          /\ cfd[c] = e.fd
          /\ RecvData(e, c) \/ RecvError(e, c) \/ RecvEof(e, c)

Serve(e) ==
    \/ SkipError(e)
    \/ \E c \in Conns : Accept(e, c)
    \/ AcceptFails(e)
    \/ ServeClient(e)

\* The disconnect event is posted; the loop goes on.
Posted ==
    /\ spc = "post"
    /\ posting' = {}
    /\ spc' = "batch"
    /\ UNCHANGED <<sockVars, batch, missed, textVars, state, main>>

SocketClientListFree == clients' = {}

\* The label done: epoll and the listening socket are closed and the list is
\* freed; the sockets of the clients are not closed.  The event list ends with
\* the thread.
Done ==
    /\ spc = "done"
    /\ conn' = [c \in Conns |-> IF conn[c] = "backlog" THEN "closed" ELSE conn[c]]
    /\ SocketClientListFree
    /\ batch' = {}
    /\ edges' = {}
    /\ missed' = {}
    /\ spc' = "exited"
    /\ UNCHANGED <<cfd, peerVars, count, data, textVars, posting, state, main>>
-----------------------------------------------------------------------------
(* main: the signal that ends its loop, then SocketServerFinished.         *)

\* A signal to the server thread ends an epoll_wait that has nothing to report,
\* with EINTR, and the thread gives up.  It has no effect elsewhere.
Interrupted == IF spc = "wait" /\ Ready = {} THEN "done" ELSE spc

\* SIGTERM or SIGINT.  The kernel may deliver it to the server thread.
Quit ==
    /\ main = "run"
    /\ main' = "stop"
    /\ spc' \in {spc, Interrupted}
    /\ UNCHANGED <<sockVars, batch, outVars, state>>

SetStopped ==
    /\ main = "stop"
    /\ state' = "stopped"
    /\ main' = "kill"
    /\ UNCHANGED <<sockVars, batch, outVars, spc>>

\* pthread_kill.
Kill ==
    /\ main = "kill"
    /\ main' = "join"
    /\ spc' = Interrupted
    /\ UNCHANGED <<sockVars, batch, outVars, state>>

\* The server thread has ended.
Over == spc \in {"failed", "exited"}

\* pthread_join; the list is freed once more.
Join ==
    /\ main = "join"
    /\ Over
    /\ main' = "joined"
    /\ SocketClientListFree
    /\ UNCHANGED <<conn, cfd, peerVars, edges, count, data, batch, outVars, spc, state>>
-----------------------------------------------------------------------------
Peer(c) ==
    \/ Connect(c) \/ CloseByPeer(c) \/ ResetByPeer(c)
    \/ (\E m \in Msgs : Send(c, m)) \/ DeliverMore(c)

Loop ==
    \/ Start \/ Test \/ Enter \/ EpollWait \/ EndBatch \/ Posted \/ Done
    \/ spc = "batch" /\ \E e \in batch : Serve(e)

Fail ==
    \/ StartFails
    \/ /\ spc = "batch"
       /\ \E e \in batch : /\ ~IsError(e)
                           /\ \/ \E c \in Conns : AcceptThenDie(e, c)
                              \/ \E c \in Named({e}) : RecvThenDie(e, c)

Stop == SetStopped \/ Kill \/ Join

Next == (\E c \in Conns : Peer(c)) \/ Loop \/ Fail \/ Quit \/ Stop

\* The server thread and, once told to stop, main keep running.  Nothing makes
\* a peer act, an allocation fail or the daemon stop.
Fairness == WF_vars(Loop) /\ WF_vars(Stop)

Spec == Init /\ [][Next]_vars

FairSpec == Spec /\ Fairness
-----------------------------------------------------------------------------
TypeOK ==
    /\ conn \in [Conns -> {"none", "backlog", "open", "closed"}]
    /\ cfd \in [Conns -> Fds \cup {NoFd}]
    /\ {coming, unread, data} \subseteq [Conns -> Seq([from : Conns, msg : Msgs, part : 1 .. Parts])]
    /\ sent \subseteq Msgs
    /\ torn \subseteq dispatched /\ mixed \subseteq dispatched /\ dispatched \subseteq Seq(Msgs)
    /\ fin \subseteq Conns /\ rst \subseteq Conns /\ edges \subseteq Conns
    /\ clients \subseteq Conns /\ missed \subseteq Conns
    /\ count \in 0 .. CountMod - 1
    /\ batch \subseteq Entries
    /\ posting \subseteq Conns
    /\ spc \in {"start", "test", "enter", "wait", "batch", "post", "done", "failed", "exited"}
    /\ state \in {"running", "stopped"}
    /\ main \in {"run", "stop", "kill", "join", "joined"}

\* While the thread lives, the list holds exactly the open connections, the
\* counter follows it through its wrap-around, and a descriptor finds one node in
\* it: descriptors are used again after a close, and the entries of a batch name
\* sockets only by their descriptor (socket_server.c:221, :336 and :394).
ListMatchesSockets ==
    /\ spc # "exited" => clients = Open /\ count = Cardinality(clients) % CountMod
    /\ \A c, d \in clients : cfd[c] = cfd[d] => c = d

\* Serving an entry never blocks and never misses its client: the entry of the
\* listening socket has a connection to accept, and any other one that is no
\* error has a client with something to read.  The sockets are blocking, so an
\* accept or a recv too many would stop the whole server.
NeverBlocks ==
    spc \in {"batch", "post"} =>
        \A e \in batch :
            IF e.fd = Listen THEN Backlog # {}
            ELSE \E c \in clients : cfd[c] = e.fd /\ Readable(c)

\* The thread is in its loop as it was when main started it.
Serving == main = "run" /\ spc # "done" /\ ~Over

\* What arrives on a client socket is read, unless the connection is reset or
\* loses a report: an accept forgets the other entries of its batch
\* (socket_server.c:355), and a recv that leaves something unread, such as the end
\* of the connection behind a message, is not repeated (socket_server.c:373).
ReadUnlessMissed ==
    \A c \in Conns :
        (c \in clients /\ Readable(c))
            ~> (~Readable(c) \/ c \notin clients \/ c \in missed \/ c \in rst \/ ~Serving)

\* A thread that main has told to stop leaves its loop if pthread_kill finds it
\* in epoll_wait, or if one more event is reported.  If it is about to call
\* epoll_wait when the signal comes, only an event can end it; and if it starts
\* after main stored E_THREAD_STOPPED, it overwrites that and goes on.
StopReachesServer ==
    (spc = "wait" /\ state = "stopped" /\ (main = "kill" \/ (main = "join" /\ Ready # {})))
        ~> Over

\* A text that the parser can read is made of what one client sent, whichever
\* nodes and descriptors are used again (socket_server.c:203), and it is one message,
\* unless a recv returned less than a message: csClientData is not cleared, and
\* the end of an older message completes the new one (socket_server.c:373).
TextIsMessage ==
    \A t \in dispatched \ {Unreadable} :
        /\ t \notin mixed
        /\ t \notin torn => \A i \in DOMAIN t : t[i] = t[1]
=============================================================================
