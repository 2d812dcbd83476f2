-------------------------- MODULE DiscoveryProofs --------------------------
(***************************************************************************)
(* Proofs about the discovery of a master, for any number of masters and   *)
(* devices: a thread that is stopped answers one more datagram at most,    *)
(* and a device has never more datagrams under way than a request to the   *)
(* group reaches masters, once and once more for each recvfrom that failed *)
(* and left its address in place.                                          *)
(***************************************************************************)
EXTENDS Discovery, FiniteSetTheorems, FunctionTheorems, SequenceTheorems, TLAPS

Places == {"none", "start", "test", "recv", "reply", "exited"}

\* The types of what the threads have.
ThreadType ==
    /\ eThreadState \in [Servers -> {"STOPPED", "RUNNING"}]
    /\ thread \in [Servers -> Places]
    /\ late \in [Servers -> {0, 1}]

\* Only a thread that was stopped, and has come back to its test, has answered late.
LateInv == \A s \in Servers : late[s] = 1 => eThreadState[s] = "STOPPED" /\ thread[s] \in {"test", "exited"}

\* The types of the datagrams.
DatagramType ==
    /\ joined \subseteq Servers
    /\ thread \in [Servers -> Places]
    /\ server_addr \in [Servers -> Clients \cup {NoClient}]
    /\ requests \in [Servers -> Seq(Clients \cup {NoClient})]
    /\ cpc \in [Clients -> {"send", "recv", "sleep"}]
    /\ client_addr \in [Clients -> Servers \cup {Group}]
    /\ answers \in [Clients -> Seq(Servers)]
    /\ undone \subseteq Clients
    /\ failures \in [Clients \cup {NoClient} -> Nat]

ThreadInv == ThreadType /\ LateInv

-----------------------------------------------------------------------------
(* Sequences of datagrams.                                                 *)

\* A datagram is received.
LEMMA TailPlaces ==
    ASSUME NEW S, NEW s \in Seq(S), s # << >>
    PROVE  /\ Tail(s) \in Seq(S) /\ Head(s) \in S /\ 1 \in DOMAIN s /\ Head(s) = s[1]
           /\ \A i \in DOMAIN Tail(s) : i + 1 \in DOMAIN s /\ i + 1 # 1 /\ Tail(s)[i] = s[i + 1]
OBVIOUS

\* A datagram is sent.
LEMMA AppendPlaces ==
    ASSUME NEW S, NEW s \in Seq(S), NEW x \in S
    PROVE  /\ Append(s, x) \in Seq(S)
           /\ \A i \in DOMAIN Append(s, x) :
                 \/ i \in DOMAIN s /\ Append(s, x)[i] = s[i]
                 \/ i = Len(s) + 1 /\ i \notin DOMAIN s /\ Append(s, x)[i] = x
OBVIOUS

\* A datagram is lost: those behind it move up.
LEMMA RemovePlaces ==
    ASSUME NEW S, NEW s \in Seq(S), NEW k \in DOMAIN s
    PROVE  /\ RemoveAt(s, k) \in Seq(S)
           /\ \A i \in DOMAIN RemoveAt(s, k) :
                 \/ i < k /\ i \in DOMAIN s /\ RemoveAt(s, k)[i] = s[i]
                 \/ i >= k /\ i + 1 \in DOMAIN s /\ RemoveAt(s, k)[i] = s[i + 1]
<1> DEFINE b == SubSeq(s, 1, k - 1)
           e == SubSeq(s, k + 1, Len(s))
<1>1. /\ Len(s) \in Nat /\ k \in 1 .. Len(s) /\ DOMAIN s = 1 .. Len(s)
      /\ b \in Seq(S) /\ Len(b) = k - 1 /\ e \in Seq(S) /\ Len(e) = Len(s) - k
      /\ \A i \in 1 .. k - 1 : b[i] = s[i]
      /\ \A i \in 1 .. Len(s) - k : e[i] = s[k + i]
  OBVIOUS
<1>2. RemoveAt(s, k) = b \o e
  BY DEF RemoveAt
<1> HIDE DEF b, e
<1>3. /\ b \o e \in Seq(S) /\ Len(b \o e) = Len(b) + Len(e)
      /\ \A i \in 1 .. Len(b) + Len(e) : (b \o e)[i] = IF i <= Len(b) THEN b[i] ELSE e[i - Len(b)]
  <2> b \in Seq(S) /\ e \in Seq(S)
    BY <1>1
  <2> QED  BY ConcatProperties, Zenon
<1>4. DOMAIN (b \o e) = 1 .. Len(s) - 1
  <2> DEFINE w == b \o e
  <2>1. w \in Seq(S) /\ Len(w) = Len(b) + Len(e)
    BY <1>3, Zenon
  <2> HIDE DEF w
  <2>2. DOMAIN w = 1 .. Len(s) - 1
    BY <1>1, <2>1
  <2> QED  BY <2>2, Zenon DEF w
<1>5. ASSUME NEW i \in 1 .. Len(s) - 1, i < k
      PROVE  i \in DOMAIN s /\ (b \o e)[i] = s[i]
  BY <1>1, <1>3, <1>5
<1>6. ASSUME NEW i \in 1 .. Len(s) - 1, i >= k
      PROVE  i + 1 \in DOMAIN s /\ (b \o e)[i] = s[i + 1]
  <2>1. i - (k - 1) \in 1 .. Len(s) - k /\ k + (i - (k - 1)) = i + 1
    BY <1>1, <1>6
  <2>2. e[i - (k - 1)] = s[i + 1]
    BY <1>1, <2>1
  <2>3. (b \o e)[i] = e[i - (k - 1)]
    BY <1>1, <1>3, <1>6
  <2> QED  BY <1>1, <1>6, <2>2, <2>3
<1>7. \A i \in 1 .. Len(s) - 1 : i < k \/ i >= k
  BY <1>1
<1> QED  BY <1>2, <1>3, <1>4, <1>5, <1>6, <1>7

-----------------------------------------------------------------------------
(* The threads.                                                            *)

LEMMA ThreadsKept == ThreadInv /\ [Next]_vars => ThreadInv'
<1> SUFFICES ASSUME ThreadInv, [Next]_vars PROVE ThreadInv'
  OBVIOUS
<1>1. CASE UNCHANGED serverVars
  BY <1>1 DEF serverVars, ThreadInv, ThreadType, LateInv
<1> USE DEF ThreadInv, ThreadType, LateInv, Places, MoveThread
<1>2. ASSUME NEW s \in Servers, Start(s) \/ Test(s) \/ Finished(s) \/ End(s) PROVE ThreadInv'
  BY <1>2 DEF Start, Test, GoesOn, Finished, End
<1>3. ASSUME NEW s \in Servers, Receive(s) \/ ReceiveFails(s) \/ AnswersAgain(s) PROVE ThreadInv'
  BY <1>3 DEF Receive, StoreSource, ReceiveFails, AnswersAgain
<1>4. ASSUME NEW s \in Servers, Reply(s) PROVE ThreadInv'
  BY <1>4 DEF Reply
<1>5. UNCHANGED vars \/ (\E c \in Clients : Ask(c) \/ Hear(c) \/ HearFails(c) \/ Wake(c) \/ LoseAnswer(c))
         \/ (\E s \in Servers : LoseRequest(s)) => UNCHANGED serverVars
  BY DEF vars, Ask, Hear, HearFails, Wake, LoseAnswer, LoseRequest
<1> QED  BY <1>1, <1>2, <1>3, <1>4, <1>5 DEF Next, ServerStep, ClientStep

\* A thread that is stopped in its loop answers one more datagram at the most
\* (iotc_broadcast.c:150), for any number of masters.
THEOREM StopsAfterOne == Spec => []OneMoreAnswer
<1>1. Init => ThreadInv
  BY DEF Init, ThreadInv, ThreadType, LateInv, Places
<1>2. ThreadInv => OneMoreAnswer
  BY DEF ThreadInv, ThreadType, OneMoreAnswer
<1> QED  BY <1>1, <1>2, ThreadsKept, PTL DEF Spec

-----------------------------------------------------------------------------
(* The datagrams under way.  Those a device has after a step come, one from *)
(* one, from those it had before, so there are no more of them.             *)

Owed(c) == UnderWay(c) \cup NextRequest(c)

\* A datagram that is under way for c, or that c sends next.
IsOwed(c, d) ==
    \/ \E s \in Servers : \E i \in DOMAIN requests[s] : requests[s][i] = c /\ d = <<s, "request", i>>
    \/ \E s \in Servers : thread[s] = "reply" /\ server_addr[s] = c /\ d = <<s, "reply", 0>>
    \/ \E i \in DOMAIN answers[c] : d = <<answers[c][i], "answer", i>>
    \/ cpc[c] # "recv" /\ client_addr[c] # Group /\ d = <<client_addr[c], "ask", 0>>

LEMMA OwedForm == \A c, d : d \in Owed(c) <=> IsOwed(c, d)
BY DEF Owed, UnderWay, NextRequest, IsOwed

LEMMA OwedFormNext == \A c, d : d \in Owed(c)' <=> IsOwed(c, d)'
BY DEF Owed, UnderWay, NextRequest, IsOwed

\* A datagram is told by its three parts, and one that a master is about to
\* answer by its master.
Triple(d) == /\ d = <<d[1], d[2], d[3]>>
             /\ d[3] \in Nat
             /\ d[2] \in {"request", "reply", "answer", "ask"}
             /\ d[3] = 0 <=> d[2] \in {"reply", "ask"}

LEMMA OwedShape == DatagramType => \A c \in Clients : \A d \in Owed(c) : Triple(d)
<1> SUFFICES ASSUME DatagramType, NEW c \in Clients, NEW d \in Owed(c) PROVE Triple(d)
  OBVIOUS
<1>1. IsOwed(c, d)
  BY OwedForm
<1>2. \A s \in Servers : \A i \in DOMAIN requests[s] : i \in Nat \ {0}
  BY DEF DatagramType
<1>3. \A i \in DOMAIN answers[c] : i \in Nat \ {0}
  BY DEF DatagramType
<1> QED  BY <1>1, <1>2, <1>3 DEF IsOwed, Triple

LEMMA OwedShapeNext == (DatagramType => \A c \in Clients : \A d \in Owed(c) : Triple(d))'
BY OwedShape, PTL

\* A function that gives different values to different arguments is an injection.
LEMMA OneFromOne ==
    ASSUME NEW S, NEW T, NEW f, f \in [S -> T],
           \A x, y \in S : f[x] = f[y] => x = y
    PROVE  ExistsInjection(S, T)
BY DEF ExistsInjection, Injection, IsInjective

LEMMA NoneIsNew ==
    ASSUME NEW S, NEW T, S \subseteq T
    PROVE  ExistsInjection(S, T)
<1> DEFINE f == [x \in S |-> x]
<1>1. f \in [S -> T] /\ \A x, y \in S : f[x] = f[y] => x = y
  OBVIOUS
<1> QED  BY <1>1, OneFromOne

\* A round is a request to the group, or a failed recvfrom that kept an address.
Rounds(c) == IF cpc[c] # "recv" /\ client_addr[c] = Group THEN failures[c] ELSE failures[c] + 1

\* A master of the group for each datagram of a round.
Room(c) == joined \X (1 .. Rounds(c))

\* Nobody is known to anybody if the group reaches no master.
NobodyKnown == joined = {} => \A c \in Clients : client_addr[c] = Group /\ \A s \in Servers : server_addr[s] # c

DatagramInv ==
    /\ DatagramType
    /\ NobodyKnown
    /\ \A c \in Clients : ExistsInjection(Owed(c), Room(c))

\* A round adds at most one datagram for each master of the group.
LEMMA OneMoreRound ==
    ASSUME NEW S, NEW T, NEW J, NEW n \in Nat,
           ExistsInjection(S, J \X (1 .. n)), ExistsInjection(T \ S, J)
    PROVE  ExistsInjection(T, J \X (1 .. n + 1))
<1>1. PICK f : f \in [S -> J \X (1 .. n)] /\ \A x, y \in S : f[x] = f[y] => x = y
  BY DEF ExistsInjection, Injection, IsInjective
<1>2. PICK h : h \in [T \ S -> J] /\ \A x, y \in T \ S : h[x] = h[y] => x = y
  BY DEF ExistsInjection, Injection, IsInjective
<1> DEFINE g == [d \in T |-> IF d \in S THEN f[d] ELSE <<h[d], n + 1>>]
<1>3. \A d \in S : f[d] \in J \X (1 .. n + 1) /\ f[d][2] # n + 1
  BY <1>1
<1>4. g \in [T -> J \X (1 .. n + 1)]
  BY <1>2, <1>3
<1>5. ASSUME NEW x \in T, NEW y \in T, g[x] = g[y] PROVE x = y
  BY <1>1, <1>2, <1>3, <1>5
<1> HIDE DEF g
<1> QED  BY <1>4, <1>5, OneFromOne

LEMMA TypeKept == DatagramType /\ [Next]_vars => DatagramType'
<1> SUFFICES ASSUME DatagramType, [Next]_vars PROVE DatagramType'
  OBVIOUS
<1> USE DEF DatagramType, Places, MoveThread
<1>1. CASE /\ UNCHANGED <<joined, requests, server_addr, cpc, client_addr, answers, undone, failures>>
           /\ thread' \in [Servers -> Places]
  BY <1>1
<1>2. ASSUME NEW s \in Servers, Receive(s) PROVE DatagramType'
  <2>1. Tail(requests[s]) \in Seq(Clients \cup {NoClient}) /\ Head(requests[s]) \in Clients \cup {NoClient}
    BY <1>2, TailPlaces DEF Receive
  <2> QED  BY <1>2, <2>1 DEF Receive, StoreSource, clientVars
<1>3. ASSUME NEW s \in Servers, Reply(s) PROVE DatagramType'
  <2>1. answers' \in [Clients -> Seq(Servers)]
    <3>1. CASE UNCHANGED answers
      BY <3>1
    <3>2. CASE answers' = [answers EXCEPT ![server_addr[s]] = Append(@, s)]
      <4>1. \A a \in Clients : Append(answers[a], s) \in Seq(Servers)
        BY AppendPlaces
      <4> QED  BY <3>2, <4>1
    <3> QED  BY <1>3, <3>1, <3>2 DEF Reply
  <2>2. requests' \in [Servers -> Seq(Clients \cup {NoClient})]
    <3>1. Append(requests[s], NoClient) \in Seq(Clients \cup {NoClient})
      BY AppendPlaces
    <3> QED  BY <1>3, <3>1 DEF Reply
  <2> QED  BY <1>3, <2>1, <2>2 DEF Reply, clientVars
<1>4. ASSUME NEW s \in Servers, LoseRequest(s) PROVE DatagramType'
  <2>1. \A i \in DOMAIN requests[s] : RemoveAt(requests[s], i) \in Seq(Clients \cup {NoClient})
    BY RemovePlaces
  <2> QED  BY <1>4, <2>1 DEF LoseRequest, serverVars, clientVars
<1>5. ASSUME NEW c \in Clients, Ask(c) PROVE DatagramType'
  <2>1. \A s \in Servers : Append(requests[s], c) \in Seq(Clients \cup {NoClient})
    BY AppendPlaces
  <2>2. requests' \in [Servers -> Seq(Clients \cup {NoClient})]
    BY <1>5, <2>1 DEF Ask
  <2> QED  BY <1>5, <2>2 DEF Ask, serverVars
<1>6. ASSUME NEW c \in Clients, Hear(c) PROVE DatagramType'
  <2>1. Tail(answers[c]) \in Seq(Servers) /\ Head(answers[c]) \in Servers
    BY <1>6, TailPlaces DEF Hear
  <2> QED  BY <1>6, <2>1 DEF Hear, Answered, serverVars
<1>7. ASSUME NEW c \in Clients, LoseAnswer(c) PROVE DatagramType'
  <2>1. \A i \in DOMAIN answers[c] : RemoveAt(answers[c], i) \in Seq(Servers)
    BY RemovePlaces
  <2> QED  BY <1>7, <2>1 DEF LoseAnswer, clientVars, serverVars
<1>8. ASSUME NEW c \in Clients, Wake(c) PROVE DatagramType'
  BY <1>8 DEF Wake, serverVars
<1>9. ASSUME NEW s \in Servers, ReceiveFails(s) \/ AnswersAgain(s) PROVE DatagramType'
  <2>1. failures' \in [Clients \cup {NoClient} -> Nat]
    BY <1>9 DEF ReceiveFails, AnswersAgain, FailsWith
  <2>2. thread' \in [Servers -> Places]
    BY <1>9 DEF ReceiveFails, AnswersAgain
  <2> QED  BY <1>9, <2>1, <2>2 DEF ReceiveFails, AnswersAgain, clientVars
<1>10. ASSUME NEW c \in Clients, HearFails(c) PROVE DatagramType'
  BY <1>10 DEF HearFails, FailsWith, serverVars
<1>11. UNCHANGED vars \/ (\E s \in Servers : Start(s) \/ Test(s) \/ Finished(s) \/ End(s))
        => /\ UNCHANGED <<joined, requests, server_addr, cpc, client_addr, answers, undone, failures>>
           /\ thread' \in [Servers -> Places]
  BY DEF vars, serverVars, clientVars, Start, Test, Finished, End
<1> QED  BY <1>1, <1>2, <1>3, <1>4, <1>5, <1>6, <1>7, <1>8, <1>9, <1>10, <1>11 DEF Next, ServerStep, ClientStep

\* What a step of a master makes of the datagrams under way.
LEMMA ReceiveMoves ==
    ASSUME DatagramType, DatagramType', NEW s \in Servers, Receive(s), NEW c \in Clients
    PROVE  ExistsInjection(Owed(c)', Owed(c))
<1> DEFINE f == [d \in Owed(c)' |->
                   IF d[1] = s /\ d[2] = "request" THEN <<s, "request", d[3] + 1>>
                   ELSE IF d[1] = s /\ d[2] = "reply" THEN <<s, "request", 1>>
                   ELSE d]
<1>1. /\ thread[s] = "recv" /\ requests[s] # << >> /\ requests[s] \in Seq(Clients \cup {NoClient})
      /\ \A t \in Servers : requests'[t] = IF t = s THEN Tail(requests[s]) ELSE requests[t]
      /\ \A t \in Servers : thread'[t] = "reply" => t = s \/ thread[t] = "reply"
      /\ \A t \in Servers : t # s => server_addr'[t] = server_addr[t]
      /\ server_addr'[s] = Head(requests[s])
      /\ UNCHANGED <<cpc, client_addr, answers>>
  BY DEF Receive, StoreSource, MoveThread, DatagramType, clientVars
<1>2. ASSUME NEW d \in Owed(c)' PROVE f[d] \in Owed(c)
  <2>1. IsOwed(c, d)'
    BY OwedFormNext
  <2>2. CASE \E t \in Servers : \E i \in DOMAIN requests'[t] : requests'[t][i] = c /\ d = <<t, "request", i>>
    <3>0. PICK t \in Servers : \E i \in DOMAIN requests'[t] : requests'[t][i] = c /\ d = <<t, "request", i>>
      BY <2>2
    <3>1. PICK i \in DOMAIN requests'[t] : requests'[t][i] = c /\ d = <<t, "request", i>>
      BY <3>0
    <3>2. CASE t = s
      <4>1. i + 1 \in DOMAIN requests[s] /\ requests[s][i + 1] = c
        <5>1. i \in DOMAIN Tail(requests[s]) /\ Tail(requests[s])[i] = c
          BY <1>1, <3>1, <3>2
        <5> QED  BY <1>1, <5>1, TailPlaces
      <4>2. f[d] = <<s, "request", i + 1>>
        BY <3>1, <3>2
      <4>3. IsOwed(c, f[d])
        BY <4>1, <4>2 DEF IsOwed
      <4> QED  BY <4>3, OwedForm
    <3>3. CASE t # s
      <4>1. f[d] = d /\ i \in DOMAIN requests[t] /\ requests[t][i] = c
        BY <1>1, <3>1, <3>3
      <4>2. IsOwed(c, f[d])
        BY <3>1, <4>1 DEF IsOwed
      <4> QED  BY <4>2, OwedForm
    <3> QED  BY <3>2, <3>3
  <2>3. CASE \E t \in Servers : thread'[t] = "reply" /\ server_addr'[t] = c /\ d = <<t, "reply", 0>>
    <3>1. PICK t \in Servers : thread'[t] = "reply" /\ server_addr'[t] = c /\ d = <<t, "reply", 0>>
      BY <2>3
    <3>2. CASE t = s
      <4>1. 1 \in DOMAIN requests[s] /\ requests[s][1] = c
        BY <1>1, <3>1, <3>2, TailPlaces
      <4>2. f[d] = <<s, "request", 1>>
        BY <3>1, <3>2
      <4>3. IsOwed(c, f[d])
        BY <4>1, <4>2 DEF IsOwed
      <4> QED  BY <4>3, OwedForm
    <3>3. CASE t # s
      <4>1. f[d] = d
        BY <3>1, <3>3
      <4>2. IsOwed(c, f[d])
        BY <1>1, <3>1, <3>3, <4>1 DEF IsOwed
      <4> QED  BY <4>2, OwedForm
    <3> QED  BY <3>2, <3>3
  <2>4. CASE \/ \E i \in DOMAIN answers'[c] : d = <<answers'[c][i], "answer", i>>
             \/ cpc'[c] # "recv" /\ client_addr'[c] # Group /\ d = <<client_addr'[c], "ask", 0>>
    <3>1. f[d] = d
      BY <2>4
    <3>2. IsOwed(c, f[d])
      BY <1>1, <2>4, <3>1 DEF IsOwed
    <3> QED  BY <3>2, OwedForm
  <2> QED  BY <2>1, <2>2, <2>3, <2>4 DEF IsOwed
<1>3. ASSUME NEW x \in Owed(c)', NEW y \in Owed(c)', f[x] = f[y] PROVE x = y
  <2>1. Triple(x) /\ Triple(y)
    BY OwedShapeNext
  <2> QED  BY <1>3, <2>1 DEF Triple
<1>4. f \in [Owed(c)' -> Owed(c)]
  BY <1>2
<1> HIDE DEF f
<1> QED  BY <1>3, <1>4, OneFromOne

LEMMA ReplyMoves ==
    ASSUME DatagramType, DatagramType', NEW s \in Servers, Reply(s), NEW c \in Clients
    PROVE  ExistsInjection(Owed(c)', Owed(c))
<1>1. /\ thread[s] = "reply" /\ UNCHANGED <<server_addr, cpc, client_addr>>
      /\ \A t \in Servers : thread'[t] = "reply" => t # s /\ thread[t] = "reply"
      /\ \/ UNCHANGED answers
         \/ /\ answers' = [answers EXCEPT ![server_addr[s]] = Append(@, s)]
            /\ UNCHANGED requests
      /\ \A t \in Servers : \/ requests'[t] = requests[t]
                            \/ requests'[t] = Append(requests[t], NoClient)
      /\ \A t \in Servers : requests[t] \in Seq(Clients \cup {NoClient})
  BY DEF Reply, MoveThread, DatagramType, clientVars
<1>2. ASSUME NEW t \in Servers, NEW i \in DOMAIN requests'[t], requests'[t][i] = c
      PROVE  i \in DOMAIN requests[t] /\ requests[t][i] = c
  BY <1>1, <1>2, AppendPlaces, GroupAssumption
<1>3. CASE answers'[c] = answers[c]
  <2>1. \A d : IsOwed(c, d)' => IsOwed(c, d)
    BY <1>1, <1>2, <1>3 DEF IsOwed
  <2> QED  BY <2>1, OwedForm, OwedFormNext, NoneIsNew
<1>4. CASE answers'[c] = Append(answers[c], s) /\ server_addr[s] = c
  <2> DEFINE f == [d \in Owed(c)' |-> IF d = <<s, "answer", Len(answers[c]) + 1>> THEN <<s, "reply", 0>> ELSE d]
  <2>1. ASSUME NEW d \in Owed(c)' PROVE f[d] \in Owed(c)
    <3>1. IsOwed(c, d)'
      BY OwedFormNext
    <3>2. answers[c] \in Seq(Servers)
      BY DEF DatagramType
    <3>3. \A i \in DOMAIN answers'[c] : \/ i \in DOMAIN answers[c] /\ answers'[c][i] = answers[c][i]
                                        \/ i = Len(answers[c]) + 1 /\ answers'[c][i] = s
      BY <1>4, <3>2, AppendPlaces
    <3>4. d = <<s, "answer", Len(answers[c]) + 1>> \/ IsOwed(c, d)
      BY <1>1, <1>2, <3>1, <3>3 DEF IsOwed
    <3>5. IsOwed(c, <<s, "reply", 0>>)
      BY <1>1, <1>4 DEF IsOwed
    <3> QED  BY <3>4, <3>5, OwedForm
  <2>2. ASSUME NEW x \in Owed(c)', NEW y \in Owed(c)', f[x] = f[y] PROVE x = y
    <3>1. <<s, "reply", 0>> \notin Owed(c)'
      <4>1. ~IsOwed(c, <<s, "reply", 0>>)'
        BY <1>1 DEF IsOwed
      <4> QED  BY <4>1, OwedFormNext
    <3> QED  BY <2>2, <3>1
  <2>3. f \in [Owed(c)' -> Owed(c)]
    BY <2>1
  <2> HIDE DEF f
  <2> QED  BY <2>2, <2>3, OneFromOne
<1> QED  BY <1>1, <1>3, <1>4 DEF DatagramType

LEMMA LoseRequestMoves ==
    ASSUME DatagramType, DatagramType', NEW s \in Servers, LoseRequest(s), NEW c \in Clients
    PROVE  ExistsInjection(Owed(c)', Owed(c))
<1>1. PICK k \in DOMAIN requests[s] : requests' = [requests EXCEPT ![s] = RemoveAt(@, k)]
  BY DEF LoseRequest
<1> DEFINE f == [d \in Owed(c)' |-> IF d[1] = s /\ d[2] = "request" /\ d[3] >= k
                                    THEN <<s, "request", d[3] + 1>> ELSE d]
<1>2. /\ UNCHANGED <<thread, server_addr, cpc, client_addr, answers>>
      /\ requests[s] \in Seq(Clients \cup {NoClient}) /\ requests'[s] = RemoveAt(requests[s], k)
      /\ \A t \in Servers : t # s => requests'[t] = requests[t]
  BY <1>1 DEF LoseRequest, serverVars, clientVars, DatagramType
<1>3. k \in Nat
  BY <1>2
<1>4. ASSUME NEW d \in Owed(c)' PROVE f[d] \in Owed(c)
  <2>1. IsOwed(c, d)' /\ Triple(d)
    BY OwedFormNext, OwedShapeNext
  <2>2. CASE d[1] = s /\ d[2] = "request"
    <3>1. d[3] \in DOMAIN RemoveAt(requests[s], k) /\ RemoveAt(requests[s], k)[d[3]] = c
      BY <1>2, <2>1, <2>2 DEF IsOwed
    <3>2. LET j == IF d[3] < k THEN d[3] ELSE d[3] + 1
          IN  j \in DOMAIN requests[s] /\ requests[s][j] = c
      BY <1>2, <1>3, <3>1, RemovePlaces
    <3>3. f[d] = IF d[3] < k THEN <<s, "request", d[3]>> ELSE <<s, "request", d[3] + 1>>
      BY <1>3, <2>1, <2>2 DEF Triple
    <3>4. IsOwed(c, f[d])
      BY <3>2, <3>3 DEF IsOwed
    <3> QED  BY <3>4, OwedForm
  <2>3. CASE ~(d[1] = s /\ d[2] = "request")
    <3>1. f[d] = d /\ IsOwed(c, d)
      BY <1>2, <2>1, <2>3 DEF IsOwed
    <3> QED  BY <3>1, OwedForm
  <2> QED  BY <2>2, <2>3
<1>5. ASSUME NEW x \in Owed(c)', NEW y \in Owed(c)', f[x] = f[y] PROVE x = y
  <2>1. Triple(x) /\ Triple(y)
    BY OwedShapeNext
  <2> QED  BY <1>3, <1>5, <2>1 DEF Triple
<1>6. f \in [Owed(c)' -> Owed(c)]
  BY <1>4
<1> HIDE DEF f
<1> QED  BY <1>5, <1>6, OneFromOne

\* The answers of a device from the k-th on move up.
LEMMA LoseAnswerMoves ==
    ASSUME DatagramType, DatagramType', NEW c \in Clients, LoseAnswer(c)
    PROVE  ExistsInjection(Owed(c)', Owed(c))
<1>1. PICK k \in DOMAIN answers[c] : answers' = [answers EXCEPT ![c] = RemoveAt(@, k)]
  BY DEF LoseAnswer
<1> DEFINE f == [d \in Owed(c)' |-> IF d[2] = "answer" /\ d[3] >= k THEN <<d[1], "answer", d[3] + 1>> ELSE d]
<1>2. /\ UNCHANGED <<thread, server_addr, cpc, client_addr, requests>>
      /\ answers[c] \in Seq(Servers) /\ answers'[c] = RemoveAt(answers[c], k)
  BY <1>1 DEF LoseAnswer, serverVars, clientVars, DatagramType
<1>3. k \in Nat
  BY <1>2
<1>4. ASSUME NEW d \in Owed(c)' PROVE f[d] \in Owed(c)
  <2>1. IsOwed(c, d)' /\ Triple(d)
    BY OwedFormNext, OwedShapeNext
  <2>2. CASE d[2] = "answer"
    <3>1. d[3] \in DOMAIN RemoveAt(answers[c], k) /\ RemoveAt(answers[c], k)[d[3]] = d[1]
      BY <1>2, <2>1, <2>2 DEF IsOwed
    <3>2. LET j == IF d[3] < k THEN d[3] ELSE d[3] + 1
          IN  j \in DOMAIN answers[c] /\ answers[c][j] = d[1]
      BY <1>2, <1>3, <3>1, RemovePlaces
    <3>3. f[d] = IF d[3] < k THEN <<d[1], "answer", d[3]>> ELSE <<d[1], "answer", d[3] + 1>>
      BY <1>3, <2>1, <2>2 DEF Triple
    <3>4. IsOwed(c, f[d])
      BY <3>2, <3>3 DEF IsOwed
    <3> QED  BY <3>4, OwedForm
  <2>3. CASE d[2] # "answer"
    <3>1. f[d] = d /\ IsOwed(c, d)
      BY <1>2, <2>1, <2>3 DEF IsOwed
    <3> QED  BY <3>1, OwedForm
  <2> QED  BY <2>2, <2>3
<1>5. ASSUME NEW x \in Owed(c)', NEW y \in Owed(c)', f[x] = f[y] PROVE x = y
  <2>1. Triple(x) /\ Triple(y)
    BY OwedShapeNext
  <2> QED  BY <1>3, <1>5, <2>1 DEF Triple
<1>6. f \in [Owed(c)' -> Owed(c)]
  BY <1>4
<1> HIDE DEF f
<1> QED  BY <1>5, <1>6, OneFromOne

\* What a step of a device makes of the datagrams under way for it.
LEMMA HearMoves ==
    ASSUME DatagramType, DatagramType', NEW c \in Clients, Hear(c)
    PROVE  ExistsInjection(Owed(c)', Owed(c))
<1> DEFINE f == [d \in Owed(c)' |-> IF d[2] = "answer" THEN <<d[1], "answer", d[3] + 1>>
                                    ELSE IF d[2] = "ask" THEN <<d[1], "answer", 1>> ELSE d]
<1>1. /\ UNCHANGED <<thread, server_addr, requests>> /\ cpc[c] = "recv"
      /\ answers[c] \in Seq(Servers) /\ answers[c] # << >>
      /\ answers'[c] = Tail(answers[c]) /\ client_addr'[c] = Head(answers[c])
  BY DEF Hear, Answered, serverVars, DatagramType
<1>2. ASSUME NEW d \in Owed(c)' PROVE f[d] \in Owed(c)
  <2>1. IsOwed(c, d)' /\ Triple(d)
    BY OwedFormNext, OwedShapeNext
  <2>2. CASE d[2] = "answer"
    <3>1. d[3] \in DOMAIN Tail(answers[c]) /\ Tail(answers[c])[d[3]] = d[1]
      BY <1>1, <2>1, <2>2 DEF IsOwed
    <3>2. d[3] + 1 \in DOMAIN answers[c] /\ answers[c][d[3] + 1] = d[1]
      BY <1>1, <3>1, TailPlaces
    <3>3. IsOwed(c, f[d])
      BY <2>2, <3>2 DEF IsOwed
    <3> QED  BY <3>3, OwedForm
  <2>3. CASE d[2] = "ask"
    <3>1. d[1] = Head(answers[c])
      BY <1>1, <2>1, <2>3 DEF IsOwed
    <3>2. 1 \in DOMAIN answers[c] /\ answers[c][1] = d[1]
      BY <1>1, <3>1, TailPlaces
    <3>3. IsOwed(c, f[d])
      BY <2>3, <3>2 DEF IsOwed
    <3> QED  BY <3>3, OwedForm
  <2>4. CASE d[2] \notin {"answer", "ask"}
    <3>1. f[d] = d /\ IsOwed(c, d)
      BY <1>1, <2>1, <2>4 DEF IsOwed
    <3> QED  BY <3>1, OwedForm
  <2> QED  BY <2>2, <2>3, <2>4
<1>3. ASSUME NEW x \in Owed(c)', NEW y \in Owed(c)', f[x] = f[y] PROVE x = y
  <2>1. Triple(x) /\ Triple(y)
    BY OwedShapeNext
  <2> QED  BY <1>3, <2>1 DEF Triple
<1>4. f \in [Owed(c)' -> Owed(c)]
  BY <1>2
<1> HIDE DEF f
<1> QED  BY <1>3, <1>4, OneFromOne

\* A device that was answered asks one master for the answer.
LEMMA AskOneMoves ==
    ASSUME DatagramType, DatagramType', NEW c \in Clients, Ask(c), client_addr[c] # Group
    PROVE  ExistsInjection(Owed(c)', Owed(c))
<1> DEFINE a == client_addr[c]
           f == [d \in Owed(c)' |-> IF d = <<a, "request", Len(requests[a]) + 1>> THEN <<a, "ask", 0>> ELSE d]
<1>1. /\ UNCHANGED <<thread, server_addr, client_addr, answers>> /\ cpc[c] = "send" /\ cpc'[c] = "recv"
      /\ a \in Servers /\ requests[a] \in Seq(Clients \cup {NoClient})
      /\ \A s \in Servers : \/ requests'[s] = requests[s]
                            \/ s = a /\ requests'[s] = Append(requests[s], c)
  BY DEF Ask, Reached, serverVars, DatagramType
<1>2. ASSUME NEW d \in Owed(c)' PROVE f[d] \in Owed(c)
  <2>1. IsOwed(c, d)'
    BY OwedFormNext
  <2>2. \A i \in DOMAIN Append(requests[a], c) :
           \/ i \in DOMAIN requests[a] /\ Append(requests[a], c)[i] = requests[a][i]
           \/ i = Len(requests[a]) + 1
    BY <1>1, AppendPlaces
  <2>3. d = <<a, "request", Len(requests[a]) + 1>> \/ IsOwed(c, d)
    BY <1>1, <2>1, <2>2 DEF IsOwed
  <2>4. IsOwed(c, <<a, "ask", 0>>)
    BY <1>1 DEF IsOwed
  <2> QED  BY <2>3, <2>4, OwedForm
<1>3. ASSUME NEW x \in Owed(c)', NEW y \in Owed(c)', f[x] = f[y] PROVE x = y
  <2>1. <<a, "ask", 0>> \notin Owed(c)'
    <3>1. \A d : IsOwed(c, d)' => d # <<a, "ask", 0>>
      BY <1>1 DEF IsOwed
    <3> QED  BY <3>1, OwedFormNext
  <2> QED  BY <1>3, <2>1
<1>4. f \in [Owed(c)' -> Owed(c)]
  BY <1>2
<1> HIDE DEF f
<1> QED  BY <1>3, <1>4, OneFromOne

\* A request to the group reaches its masters, once each.
LEMMA AskGroupMoves ==
    ASSUME DatagramType, NEW c \in Clients, Ask(c), client_addr[c] = Group
    PROVE  ExistsInjection(Owed(c)' \ Owed(c), joined)
<1> DEFINE f == [d \in Owed(c)' \ Owed(c) |-> d[1]]
<1>1. /\ UNCHANGED <<thread, server_addr, client_addr, answers>> /\ cpc'[c] = "recv"
      /\ \A s \in Servers : /\ requests[s] \in Seq(Clients \cup {NoClient})
                            /\ \/ requests'[s] = requests[s]
                               \/ s \in joined /\ requests'[s] = Append(requests[s], c)
  BY DEF Ask, Reached, serverVars, DatagramType
<1>2. ASSUME NEW d \in Owed(c)' \ Owed(c)
      PROVE  \E s \in joined : d = <<s, "request", Len(requests[s]) + 1>>
  <2>1. IsOwed(c, d)' /\ ~IsOwed(c, d)
    BY OwedForm, OwedFormNext
  <2>2. PICK s \in Servers : \E i \in DOMAIN requests'[s] : requests'[s][i] = c /\ d = <<s, "request", i>>
    BY <1>1, <2>1 DEF IsOwed
  <2>3. PICK i \in DOMAIN requests'[s] : requests'[s][i] = c /\ d = <<s, "request", i>>
    BY <2>2
  <2>4. ~(i \in DOMAIN requests[s] /\ requests[s][i] = c)
    BY <2>1, <2>3 DEF IsOwed
  <2>5. s \in joined /\ requests'[s] = Append(requests[s], c)
    BY <1>1, <2>3, <2>4
  <2>6. i = Len(requests[s]) + 1
    BY <1>1, <2>3, <2>4, <2>5, AppendPlaces
  <2> QED  BY <2>3, <2>5, <2>6
<1>3. \A x, y \in Owed(c)' \ Owed(c) : f[x] = f[y] => x = y
  BY <1>2
<1>4. f \in [Owed(c)' \ Owed(c) -> joined]
  BY <1>2
<1> HIDE DEF f
<1> QED  BY <1>3, <1>4, OneFromOne

\* A recvfrom that fails brings one datagram more to whom its address is.
LEMMA FailureAdds ==
    ASSUME DatagramType, joined # {}, NEW c \in Clients,
           HearFails(c) \/ \E s \in Servers : AnswersAgain(s)
    PROVE  ExistsInjection(Owed(c)' \ Owed(c), joined)
<1>1. \E o : \A d : IsOwed(c, d)' => IsOwed(c, d) \/ d = o
  <2>1. CASE HearFails(c)
    <3>1. UNCHANGED <<thread, server_addr, requests, client_addr, answers>>
      BY <2>1 DEF HearFails, serverVars
    <3>2. \A d : IsOwed(c, d)' => IsOwed(c, d) \/ d = <<client_addr[c], "ask", 0>>
      BY <3>1 DEF IsOwed
    <3> QED  BY <3>2
  <2>2. ASSUME NEW s \in Servers, AnswersAgain(s)
        PROVE  \E o : \A d : IsOwed(c, d)' => IsOwed(c, d) \/ d = o
    <3>1. /\ UNCHANGED <<server_addr, requests, cpc, client_addr, answers>>
          /\ \A t \in Servers : thread'[t] = "reply" => t = s \/ thread[t] = "reply"
      BY <2>2 DEF AnswersAgain, MoveThread, clientVars, DatagramType
    <3>2. \A d : IsOwed(c, d)' => IsOwed(c, d) \/ d = <<s, "reply", 0>>
      BY <3>1 DEF IsOwed
    <3> QED  BY <3>2
  <2> QED  BY <2>1, <2>2
<1>2. PICK o : \A d : IsOwed(c, d)' => IsOwed(c, d) \/ d = o
  BY <1>1
<1>3. \A d \in Owed(c)' \ Owed(c) : d = o
  BY <1>2, OwedForm, OwedFormNext
<1>4. PICK j : j \in joined
  OBVIOUS
<1> DEFINE f == [d \in Owed(c)' \ Owed(c) |-> j]
<1>5. f \in [Owed(c)' \ Owed(c) -> joined]
  BY <1>4
<1>6. \A x, y \in Owed(c)' \ Owed(c) : f[x] = f[y] => x = y
  BY <1>3
<1> HIDE DEF f
<1> QED  BY <1>5, <1>6, OneFromOne

\* The steps that begin a round of c.
BeginsRound(c) ==
    \/ Ask(c) /\ client_addr[c] = Group
    \/ HearFails(c) /\ client_addr[c] # Group
    \/ \E s \in Servers : AnswersAgain(s) /\ server_addr[s] = c

\* The other steps bring nothing under way for c.
LEMMA OthersMove ==
    ASSUME DatagramType, NEW c \in Clients, ~BeginsRound(c),
           \/ UNCHANGED vars
           \/ \E s \in Servers : Start(s) \/ Test(s) \/ ReceiveFails(s) \/ AnswersAgain(s) \/ Finished(s) \/ End(s)
           \/ Wake(c) \/ HearFails(c)
           \/ \E k \in Clients \ {c} : Ask(k) \/ Hear(k) \/ HearFails(k) \/ Wake(k) \/ LoseAnswer(k)
    PROVE  ExistsInjection(Owed(c)', Owed(c))
<1> DEFINE Quiet == /\ \A s \in Servers : thread'[s] = "reply" /\ server_addr[s] = c => thread[s] = "reply"
                    /\ UNCHANGED <<requests, server_addr>>
                    /\ answers'[c] = answers[c] /\ client_addr'[c] = client_addr[c]
                    /\ cpc'[c] = "recv" \/ cpc[c] # "recv" \/ client_addr[c] = Group
<1>1. ASSUME Quiet PROVE ExistsInjection(Owed(c)', Owed(c))
  <2>1. \A d : IsOwed(c, d)' => IsOwed(c, d)
    BY <1>1 DEF IsOwed
  <2> QED  BY <2>1, OwedForm, OwedFormNext, NoneIsNew
<1>2. CASE UNCHANGED vars \/ \E s \in Servers : Start(s) \/ Test(s) \/ Finished(s) \/ End(s)
  <2>1. Quiet
    BY <1>2 DEF vars, serverVars, clientVars, Start, Test, Finished, End, MoveThread, DatagramType
  <2> QED  BY <1>1, <2>1
<1>3. CASE \E s \in Servers : ReceiveFails(s) \/ AnswersAgain(s)
  <2>1. Quiet
    BY <1>3 DEF BeginsRound, ReceiveFails, AnswersAgain, clientVars, MoveThread, DatagramType
  <2> QED  BY <1>1, <2>1
<1>4. CASE \/ Wake(c) \/ HearFails(c)
           \/ \E k \in Clients \ {c} : Hear(k) \/ HearFails(k) \/ Wake(k) \/ LoseAnswer(k)
  <2>1. Quiet
    BY <1>4 DEF BeginsRound, serverVars, clientVars, Wake, Hear, Answered, HearFails, LoseAnswer, DatagramType
  <2> QED  BY <1>1, <2>1
<1>5. CASE \E k \in Clients \ {c} : Ask(k)
  <2>1. PICK k \in Clients \ {c} : Ask(k)
    BY <1>5
  <2>2. /\ UNCHANGED <<thread, server_addr, client_addr, answers>> /\ cpc'[c] = cpc[c]
        /\ \A s \in Servers : \/ requests'[s] = requests[s]
                              \/ requests'[s] = Append(requests[s], k)
    BY <2>1 DEF Ask, serverVars, DatagramType
  <2>3. ASSUME NEW s \in Servers, NEW i \in DOMAIN requests'[s], requests'[s][i] = c
        PROVE  i \in DOMAIN requests[s] /\ requests[s][i] = c
    <3>1. requests[s] \in Seq(Clients \cup {NoClient})
      BY DEF DatagramType
    <3> QED  BY <2>2, <2>3, <3>1, AppendPlaces
  <2>4. \A d : IsOwed(c, d)' => IsOwed(c, d)
    BY <2>2, <2>3 DEF IsOwed
  <2> QED  BY <2>4, OwedForm, OwedFormNext, NoneIsNew
<1> QED  BY <1>2, <1>3, <1>4, <1>5

\* No step but the beginning of a round adds to what a device has under way.
LEMMA StepMoves ==
    ASSUME DatagramType, DatagramType', [Next]_vars, NEW c \in Clients, ~BeginsRound(c)
    PROVE  ExistsInjection(Owed(c)', Owed(c))
<1>1. CASE \E s \in Servers : Receive(s) \/ Reply(s) \/ LoseRequest(s)
  BY <1>1, ReceiveMoves, ReplyMoves, LoseRequestMoves
<1>2. CASE Ask(c) \/ Hear(c) \/ LoseAnswer(c)
  BY <1>2, AskOneMoves, HearMoves, LoseAnswerMoves DEF BeginsRound
<1>3. CASE \/ UNCHANGED vars
           \/ \E s \in Servers : Start(s) \/ Test(s) \/ ReceiveFails(s) \/ AnswersAgain(s) \/ Finished(s) \/ End(s)
           \/ Wake(c) \/ HearFails(c)
           \/ \E k \in Clients \ {c} : Ask(k) \/ Hear(k) \/ HearFails(k) \/ Wake(k) \/ LoseAnswer(k)
  BY <1>3, OthersMove
<1> QED  BY <1>1, <1>2, <1>3 DEF Next, ServerStep, ClientStep

\* The rounds of c are counted when they begin, and only then.
LEMMA RoundBegins ==
    ASSUME DatagramType, NEW c \in Clients, BeginsRound(c)
    PROVE  Rounds(c)' = Rounds(c) + 1
<1> USE DEF DatagramType, Rounds, clientVars
<1>1. CASE Ask(c) /\ client_addr[c] = Group
  BY <1>1 DEF Ask
<1>2. CASE HearFails(c) /\ client_addr[c] # Group
  BY <1>2 DEF HearFails, FailsWith
<1>3. ASSUME NEW s \in Servers, AnswersAgain(s), server_addr[s] = c PROVE Rounds(c)' = Rounds(c) + 1
  BY <1>3 DEF AnswersAgain, FailsWith
<1> QED  BY <1>1, <1>2, <1>3 DEF BeginsRound

LEMMA RoundLasts ==
    ASSUME DatagramType, DatagramType', [Next]_vars, NEW c \in Clients, ~BeginsRound(c)
    PROVE  Rounds(c)' = Rounds(c)
<1> USE DEF DatagramType, Rounds
<1>1. CASE cpc'[c] = cpc[c] /\ client_addr'[c] = client_addr[c] /\ failures'[c] = failures[c]
  BY <1>1
<1>2. ASSUME NEW s \in Servers, Start(s) \/ Test(s) \/ Receive(s) \/ Reply(s) \/ Finished(s) \/ End(s) \/ LoseRequest(s)
      PROVE  UNCHANGED <<cpc, client_addr, failures>>
  BY <1>2 DEF clientVars, Start, Test, Receive, Reply, Finished, End, LoseRequest
<1>3. ASSUME NEW s \in Servers, ReceiveFails(s) \/ AnswersAgain(s)
      PROVE  UNCHANGED <<cpc, client_addr>> /\ failures'[c] = failures[c]
  BY <1>3, GroupAssumption DEF clientVars, ReceiveFails, AnswersAgain, FailsWith, BeginsRound
<1>4. ASSUME NEW k \in Clients \ {c}, Ask(k) \/ Hear(k) \/ HearFails(k) \/ Wake(k) \/ LoseAnswer(k)
      PROVE  cpc'[c] = cpc[c] /\ client_addr'[c] = client_addr[c] /\ failures'[c] = failures[c]
  BY <1>4 DEF clientVars, Ask, Hear, Answered, HearFails, FailsWith, Wake, LoseAnswer
<1>5. CASE Ask(c) \/ HearFails(c) \/ Wake(c) \/ LoseAnswer(c)
  BY <1>5 DEF clientVars, Ask, HearFails, FailsWith, Wake, LoseAnswer, BeginsRound
<1>6. CASE Hear(c)
  <2>1. Head(answers[c]) \in Servers
    BY <1>6, TailPlaces DEF Hear
  <2>2. client_addr'[c] # Group /\ cpc[c] = "recv" /\ failures' = failures
    BY <1>6, <2>1, GroupAssumption DEF Hear, Answered
  <2> QED  BY <2>2
<1>7. CASE UNCHANGED vars
  BY <1>7 DEF vars, clientVars
<1> QED  BY <1>1, <1>2, <1>3, <1>4, <1>5, <1>6, <1>7 DEF Next, ServerStep, ClientStep

\* A master or device that comes to know an address had a datagram for it.
LEMMA NobodyKept ==
    ASSUME DatagramType, NobodyKnown, [Next]_vars, joined = {}, \A c \in Clients : Owed(c) = {}
    PROVE  NobodyKnown'
<1> USE DEF DatagramType, NobodyKnown
<1>1. \A c \in Clients : \A d : ~IsOwed(c, d)
  BY OwedForm
<1>2. CASE UNCHANGED <<client_addr, server_addr>>
  BY <1>2
<1>3. ASSUME NEW s \in Servers, Receive(s) PROVE NobodyKnown'
  <2>1. 1 \in DOMAIN requests[s] /\ Head(requests[s]) = requests[s][1]
    BY <1>3, TailPlaces DEF Receive
  <2>2. \A c \in Clients : requests[s][1] # c
    <3>1. \A c \in Clients : ~IsOwed(c, <<s, "request", 1>>)
      BY <1>1
    <3> QED  BY <2>1, <3>1 DEF IsOwed
  <2> QED  BY <1>3, <2>1, <2>2 DEF Receive, StoreSource, clientVars
<1>4. ASSUME NEW c \in Clients, Hear(c) PROVE NobodyKnown'
  <2>1. 1 \in DOMAIN answers[c]
    BY <1>4, TailPlaces DEF Hear
  <2> QED  BY <1>1, <2>1 DEF IsOwed
<1>5. [Next]_vars => \/ UNCHANGED <<client_addr, server_addr>>
                     \/ (\E s \in Servers : Receive(s)) \/ \E c \in Clients : Hear(c)
  BY DEF Next, ServerStep, ClientStep, vars, serverVars, clientVars, Start, Test, ReceiveFails, AnswersAgain,
         Reply, Finished, End, LoseRequest, Ask, HearFails, Wake, LoseAnswer
<1> QED  BY <1>2, <1>3, <1>4, <1>5

LEMMA DatagramsKept == DatagramInv /\ [Next]_vars => DatagramInv'
<1> SUFFICES ASSUME DatagramInv, [Next]_vars PROVE DatagramInv'
  OBVIOUS
<1>1. DatagramType /\ DatagramType' /\ NobodyKnown
  BY TypeKept DEF DatagramInv
<1>2. joined' = joined
  BY DEF Next, ServerStep, ClientStep, vars, Start, Test, Receive, ReceiveFails, AnswersAgain, Reply, Finished, End,
         LoseRequest, Ask, Hear, HearFails, Wake, LoseAnswer
<1>3. ASSUME NEW c \in Clients, joined = {} PROVE Owed(c) = {}
  <2>1. Room(c) = {}
    BY <1>3 DEF Room
  <2> QED  BY <2>1 DEF DatagramInv, ExistsInjection, Injection
<1>4. NobodyKnown'
  <2>1. CASE joined = {}
    BY <1>1, <1>3, <2>1, NobodyKept
  <2> QED  BY <1>2, <2>1 DEF NobodyKnown
<1>5. ASSUME NEW c \in Clients PROVE ExistsInjection(Owed(c)', Room(c)')
  <2>1. ExistsInjection(Owed(c), Room(c))
    BY DEF DatagramInv
  <2>2. CASE ~BeginsRound(c)
    <3>1. Room(c)' = Room(c)
      BY <1>1, <1>2, <2>2, RoundLasts DEF Room
    <3>2. ExistsInjection(Owed(c)', Owed(c))
      BY <1>1, <2>2, StepMoves
    <3> QED  BY <2>1, <3>1, <3>2, Fun_ExistsInjTransitive
  <2>3. CASE BeginsRound(c)
    <3>1. ExistsInjection(Owed(c)' \ Owed(c), joined)
      <4>1. CASE Ask(c) /\ client_addr[c] = Group
        BY <1>1, <4>1, AskGroupMoves
      <4>2. CASE ~(Ask(c) /\ client_addr[c] = Group)
        <5>1. joined # {}
          BY <1>1, <2>3, <4>2 DEF BeginsRound, NobodyKnown
        <5> QED  BY <1>1, <2>3, <4>2, <5>1, FailureAdds DEF BeginsRound
      <4> QED  BY <4>1, <4>2
    <3>2. Rounds(c) \in Nat /\ Room(c) = joined \X (1 .. Rounds(c))
      BY <1>1 DEF Rounds, Room, DatagramType
    <3>3. Room(c)' = joined \X (1 .. Rounds(c) + 1)
      BY <1>1, <1>2, <2>3, RoundBegins DEF Room
    <3> QED  BY <2>1, <3>1, <3>2, <3>3, OneMoreRound
  <2> QED  BY <2>2, <2>3
<1> QED  BY <1>1, <1>4, <1>5 DEF DatagramInv

\* A device has never more datagrams under way than its request to the group
\* reached masters (multicast.c:92-97), once and once more for each failed recvfrom
\* that kept its address (iotc_multicast.c:157-169), for any number of masters and
\* devices.
THEOREM NeverMoreUnderWay == Spec => []FewUnderWay
<1>1. Init => DatagramInv
  <2> SUFFICES ASSUME Init PROVE DatagramInv
    OBVIOUS
  <2>1. DatagramType /\ NobodyKnown
    BY GroupAssumption DEF Init, DatagramType, NobodyKnown, Places
  <2>2. ASSUME NEW c \in Clients PROVE ExistsInjection(Owed(c), Room(c))
    <3>1. \A d : ~IsOwed(c, d)
      BY DEF Init, IsOwed
    <3>2. Owed(c) \subseteq Room(c)
      BY <3>1, OwedForm
    <3> QED  BY <3>2, NoneIsNew
  <2> QED  BY <2>1, <2>2 DEF DatagramInv
<1>2. DatagramInv => FewUnderWay
  <2> SUFFICES ASSUME DatagramInv, NEW c \in Clients
               PROVE  Cardinality(UnderWay(c) \cup NextRequest(c)) <= Cardinality(joined) * (1 + failures[c])
    BY DEF FewUnderWay
  <2> DEFINE all == joined \X (1 .. failures[c] + 1)
  <2>1. IsFiniteSet(joined) /\ failures[c] \in Nat
    BY GroupAssumption, FS_Subset DEF DatagramInv, DatagramType
  <2>2. /\ IsFiniteSet(1 .. failures[c] + 1)
        /\ Cardinality(1 .. failures[c] + 1) = failures[c] + 1
    BY <2>1, FS_Interval
  <2>3. IsFiniteSet(all) /\ Cardinality(all) = Cardinality(joined) * (failures[c] + 1)
    BY <2>1, <2>2, FS_Product
  <2>4. Room(c) \subseteq all
    BY <2>1 DEF Room, Rounds
  <2>5. ExistsInjection(Owed(c), all)
    BY <2>4, NoneIsNew, Fun_ExistsInjTransitive DEF DatagramInv
  <2> HIDE DEF all
  <2>6. Cardinality(Owed(c)) <= Cardinality(all)
    BY <2>3, <2>5, FS_Injection DEF ExistsInjection
  <2>7. failures[c] + 1 = 1 + failures[c]
    BY <2>1
  <2> QED  BY <2>3, <2>6, <2>7 DEF Owed
<1> QED  BY <1>1, <1>2, DatagramsKept, PTL DEF Spec

-----------------------------------------------------------------------------
\* The variables keep their types: an answer goes to a device, also when it is one
\* more to the source of an older datagram (iotc_multicast.c:157-169).
THEOREM TypeCorrect == Spec => []TypeOK
<1>1. Init => ThreadInv /\ DatagramType
  BY DEF Init, ThreadInv, ThreadType, LateInv, DatagramType, Places
<1>2. ThreadInv /\ DatagramType => TypeOK
  <2>1. ThreadType => late \in [Servers -> Nat]
    BY DEF ThreadType
  <2> QED  BY <2>1 DEF ThreadInv, ThreadType, DatagramType, TypeOK, Places
<1> QED  BY <1>1, <1>2, ThreadsKept, TypeKept, PTL DEF Spec

=============================================================================
