------------------------ MODULE SocketServerProofs ------------------------
(***************************************************************************)
(* Proofs about the TCP side of the master: its client list, counter and   *)
(* sockets agree, its event loop never blocks in accept or recv, and a     *)
(* text is one client's and, received at once, one message.  This is for   *)
(* any number of connections, descriptors, messages and parts, and event   *)
(* lists and buffers of any length.                                        *)
(***************************************************************************)
EXTENDS SocketServer, FiniteSetTheorems, SequenceTheorems, TLAPS

\* The parts a client may have sent.
Own(c) == [from : {c}, msg : Msgs, part : 1 .. Parts]

\* What is under way on a connection, or in the buffer of its node, was sent by its
\* own peer.
OwnParts ==
    /\ coming \in [Conns -> UNION {Seq(Own(c)) : c \in Conns}]
    /\ unread \in [Conns -> UNION {Seq(Own(c)) : c \in Conns}]
    /\ data \in [Conns -> UNION {Seq(Own(c)) : c \in Conns}]
    /\ \A c \in Conns : {coming[c], unread[c], data[c]} \subseteq Seq(Own(c))
    /\ mixed = {}

\* The types of everything that is no text.
ShapeOK ==
    /\ conn \in [Conns -> {"none", "backlog", "open", "closed"}]
    /\ cfd \in [Conns -> Fds \cup {NoFd}]
    /\ fin \subseteq Conns /\ rst \subseteq Conns
    /\ clients \subseteq Conns /\ missed \subseteq Conns
    /\ batch \subseteq Entries
    /\ posting \subseteq Conns
    /\ spc \in {"start", "test", "enter", "wait", "batch", "post", "done", "failed", "exited"}
    /\ state \in {"running", "stopped"}
    /\ main \in {"run", "stop", "kill", "join", "joined"}

\* The list holds the open connections while the thread lives, and only listed
\* ones have an edge.  Before the loop begins and after the thread there is none.
ListInv ==
    /\ spc # "exited" => clients = Open
    /\ spc \in {"start", "failed", "exited"} => clients = {}
    /\ edges \subseteq clients

\* Open connections have descriptors of their own.
FdInv ==
    /\ \A c \in Open : cfd[c] \in Fds
    /\ \A c, d \in Open : cfd[c] = cfd[d] => c = d

\* The counter follows the list.
CountInv ==
    /\ IsFiniteSet(clients)
    /\ spc # "exited" => count = Cardinality(clients) % CountMod

\* No two entries of an event list name the same socket.
EntriesDiffer == \A e, f \in batch : e.fd = f.fd => e = f

\* A stream is made of whole messages, the first of which may have lost its
\* beginning: between two parts of different messages one of them ends.
Framed(s) ==
    /\ \A i, j \in 1 .. Len(s) :
          i < j /\ (\A k \in i .. j - 1 : s[k].part # Parts) => s[i].msg = s[j].msg
    /\ s # << >> => s[Len(s)].part = Parts

\* So is what a peer has sent and the server has not received.
StreamInv == \A c \in Conns : Framed(unread[c] \o coming[c])

\* A readable text that no short recv left behind is one message.
TextInv == \A t \in dispatched \ (torn \cup {Unreadable}) : \A i \in DOMAIN t : t[i] = t[1]

\* The list, the sockets and the event list need one another; the counter and the
\* texts follow.
IInv == OwnParts /\ ShapeOK /\ ListInv /\ FdInv /\ EntriesDiffer /\ NeverBlocks

AllInv == IInv /\ CountInv /\ StreamInv /\ TextInv

\* All the ways in which a step may change something.
LEMMA Cases ==
    ASSUME [Next]_vars
    PROVE  \/ \E c \in Conns : Connect(c) \/ CloseByPeer(c) \/ ResetByPeer(c)
           \/ \E c \in Conns, m \in Msgs : Send(c, m)
           \/ \E c \in Conns : DeliverMore(c)
           \/ Start \/ StartFails \/ Test \/ Enter \/ EpollWait \/ EndBatch
           \/ \E e \in batch : spc = "batch" /\ SkipError(e)
           \/ \E e \in batch, c \in Conns : spc = "batch" /\ Accept(e, c)
           \/ \E e \in batch : spc = "batch" /\ AcceptFails(e)
           \/ \E e \in batch, c \in clients :
                 /\ spc = "batch" /\ cfd[c] = e.fd /\ e.fd # Listen
                 /\ RecvData(e, c) \/ RecvError(e, c) \/ RecvEof(e, c)
           \/ \E e \in batch, c \in Conns : spc = "batch" /\ AcceptThenDie(e, c)
           \/ \E e \in batch, c \in clients : spc = "batch" /\ RecvThenDie(e, c)
           \/ Posted \/ Done \/ Quit \/ SetStopped \/ Kill \/ Join
           \/ UNCHANGED vars
  BY DEF Next, Peer, Loop, Serve, ServeClient, Fail, Named, Stop

LEMMA InitInv == Init => AllInv
<1> SUFFICES ASSUME Init PROVE AllInv
  OBVIOUS
<1> USE DEF Init, Listening
<1>1. OwnParts
  <2>1. \A c \in Conns : << >> \in Seq(Own(c))
    BY EmptySeq
  <2> QED
    BY <2>1 DEF OwnParts
<1>2. ShapeOK
  BY DEF ShapeOK, NoFd
<1>3. ListInv /\ FdInv /\ EntriesDiffer /\ NeverBlocks
  BY DEF ListInv, FdInv, EntriesDiffer, NeverBlocks, Open
<1>4. CountInv
  <2>1. 0 % CountMod = 0
    BY ServerAssumption, SMTT(30)
  <2> QED
    BY <2>1, FS_EmptySet DEF CountInv
<1>5. StreamInv
  <2>1. << >> \o << >> = << >>
    BY ConcatEmptySeq, EmptySeq
  <2>2. Framed(<< >>)
    BY EmptySeq DEF Framed
  <2> QED
    BY <2>1, <2>2 DEF StreamInv
<1>6. TextInv
  BY DEF TextInv
<1> QED
  BY <1>1, <1>2, <1>3, <1>4, <1>5, <1>6 DEF IInv, AllInv

\* An entry that epoll may report is for somebody who connects, or for an edge.
LEMMA ReadyEntry ==
    \A e \in Ready :
        \/ Backlog # {} /\ e = [fd |-> Listen, err |-> FALSE]
        \/ \E c \in edges : Readable(c) /\ e = [fd |-> cfd[c], err |-> c \in rst]
  BY Zenon DEF Ready

\* The parts of a message are its sender's.
LEMMA PartsAreOwn == \A c \in Conns, m \in Msgs : PartsOf(c, m) \in Seq(Own(c))
<1> SUFFICES ASSUME NEW c \in Conns, NEW m \in Msgs PROVE PartsOf(c, m) \in Seq(Own(c))
  OBVIOUS
<1>1. Parts \in Nat
  BY ServerAssumption
<1>2. \A i \in 1 .. Parts : [from |-> c, msg |-> m, part |-> i] \in Own(c)
  BY DEF Own
<1> QED
  BY <1>1, <1>2 DEF PartsOf
-----------------------------------------------------------------------------
(* Types, without the texts.                                               *)

LEMMA ShapeKept == ShapeOK /\ ListInv /\ FdInv /\ [Next]_vars => ShapeOK'
<1> SUFFICES ASSUME ShapeOK, ListInv, FdInv, [Next]_vars PROVE ShapeOK'
  OBVIOUS
<1> USE DEF ShapeOK, threadVars, listVars, outVars, textVars, sockVars, peerVars, serverVars, NoFd
<1>1. CASE \E c \in Conns : Connect(c) \/ CloseByPeer(c) \/ ResetByPeer(c)
  BY <1>1 DEF Connect, CloseByPeer, ResetByPeer
<1>2. CASE \E c \in Conns : DeliverMore(c) \/ \E m \in Msgs : Send(c, m)
  BY <1>2 DEF DeliverMore, Send
<1>3. CASE Start \/ StartFails \/ Test \/ Enter \/ EndBatch
  BY <1>3 DEF Start, StartFails, Test, Enter, EndBatch
<1>4. CASE EpollWait
  <2>1. Ready \subseteq Entries
    <3>1. \A c \in edges : cfd[c] \in Fds
      BY <1>4 DEF EpollWait, ListInv, FdInv
    <3>2. \A c \in edges : (c \in rst) \in BOOLEAN
      OBVIOUS
    <3>3. \A c \in edges : [fd |-> cfd[c], err |-> c \in rst] \in Entries
      BY <3>1, <3>2, Zenon DEF Entries
    <3>4. [fd |-> Listen, err |-> FALSE] \in Entries
      BY DEF Entries
    <3> QED
      BY <3>3, <3>4, ReadyEntry, Zenon
  <2> QED
    BY <1>4, <2>1 DEF EpollWait
<1>5. CASE \E e \in batch : SkipError(e) \/ AcceptFails(e)
  BY <1>5 DEF SkipError, AcceptFails, NewNodeUnlinked
<1>6. CASE \E e \in batch, c \in Conns : Accept(e, c) \/ AcceptThenDie(e, c)
  BY <1>6 DEF Accept, AcceptThenDie, AcceptFrom, SocketClientNew, LeaveBatch, FreeFds, Named
<1>7. CASE \E e \in batch, c \in clients : RecvData(e, c) \/ RecvError(e, c) \/ RecvEof(e, c)
  BY <1>7 DEF RecvData, RecvError, RecvEof, Unlink, Receive
<1>8. CASE \E e \in batch, c \in clients : RecvThenDie(e, c)
  BY <1>8 DEF RecvThenDie, Receive
<1>9. CASE Posted \/ Done \/ Quit \/ SetStopped \/ Kill \/ Join
  BY <1>9 DEF Posted, Done, Quit, SetStopped, Kill, Join, SocketClientListFree, Interrupted
<1>10. CASE UNCHANGED vars
  BY <1>10 DEF vars
<1> QED
  BY <1>1, <1>2, <1>3, <1>4, <1>5, <1>6, <1>7, <1>8, <1>9, <1>10, Cases
-----------------------------------------------------------------------------
(* The list and the sockets.                                               *)

LEMMA ListKept == ShapeOK /\ ListInv /\ [Next]_vars => ListInv'
<1> SUFFICES ASSUME ShapeOK, ListInv, [Next]_vars PROVE ListInv'
  OBVIOUS
<1> USE DEF ShapeOK, ListInv, Open, threadVars, listVars, outVars, textVars, sockVars, peerVars,
        serverVars
<1>1. CASE \E c \in Conns : Connect(c) \/ CloseByPeer(c) \/ ResetByPeer(c)
  BY <1>1 DEF Connect, CloseByPeer, ResetByPeer, Arrives
<1>2. CASE \E c \in Conns : DeliverMore(c) \/ \E m \in Msgs : Send(c, m)
  BY <1>2 DEF DeliverMore, Send, Deliver, Arrives
<1>3. CASE Start \/ StartFails \/ Test \/ Enter \/ EndBatch
  BY <1>3 DEF Start, StartFails, Test, Enter, EndBatch
<1>4. CASE EpollWait
  BY <1>4 DEF EpollWait
<1>5. CASE \E e \in batch : spc = "batch" /\ (SkipError(e) \/ AcceptFails(e))
  BY <1>5 DEF SkipError, AcceptFails, NewNodeUnlinked
<1>6. CASE \E e \in batch, c \in Conns : spc = "batch" /\ (Accept(e, c) \/ AcceptThenDie(e, c))
  BY <1>6 DEF Accept, AcceptThenDie, AcceptFrom, SocketClientNew, Backlog
<1>7. CASE \E e \in batch, c \in clients :
              spc = "batch" /\ (RecvData(e, c) \/ RecvError(e, c) \/ RecvEof(e, c))
  BY <1>7 DEF RecvData, RecvError, RecvEof, Unlink, Receive
<1>8. CASE \E e \in batch, c \in clients : spc = "batch" /\ RecvThenDie(e, c)
  BY <1>8 DEF RecvThenDie, Receive
<1>9. CASE Posted \/ Quit \/ SetStopped \/ Kill
  BY <1>9 DEF Posted, Quit, SetStopped, Kill, Interrupted
<1>10. CASE Done \/ Join
  BY <1>10 DEF Done, Join, Over, SocketClientListFree
<1>11. CASE UNCHANGED vars
  BY <1>11 DEF vars
<1> QED
  BY <1>1, <1>2, <1>3, <1>4, <1>5, <1>6, <1>7, <1>8, <1>9, <1>10, <1>11, Cases

\* A new connection gets a descriptor that no open one has.
LEMMA FdKept == ShapeOK /\ FdInv /\ [Next]_vars => FdInv'
<1> SUFFICES ASSUME ShapeOK, FdInv, [Next]_vars PROVE FdInv'
  OBVIOUS
<1> USE DEF FdInv, Open
<1>1. CASE UNCHANGED <<conn, cfd>>
  BY <1>1
<1>2. CASE \E c \in Conns : Connect(c)
  BY <1>2 DEF ShapeOK, Connect
<1>3. CASE \E e \in batch, c \in Conns : Accept(e, c) \/ AcceptThenDie(e, c)
  BY <1>3 DEF ShapeOK, Accept, AcceptThenDie, AcceptFrom, FreeFds
<1>4. CASE \E e \in batch, c \in Conns : RecvEof(e, c)
  BY <1>4 DEF ShapeOK, RecvEof
<1>5. CASE Done
  BY <1>5 DEF ShapeOK, Done
<1> USE DEF threadVars, listVars, outVars, textVars, sockVars, peerVars, serverVars
<1>6. CASE \E c \in Conns : CloseByPeer(c) \/ ResetByPeer(c) \/ DeliverMore(c) \/ \E m \in Msgs : Send(c, m)
  BY <1>6, <1>1 DEF CloseByPeer, ResetByPeer, DeliverMore, Send
<1>7. CASE Start \/ StartFails \/ Test \/ Enter \/ EndBatch \/ EpollWait
  BY <1>7, <1>1 DEF Start, StartFails, Test, Enter, EndBatch, EpollWait
<1>8. CASE \E e \in batch : SkipError(e) \/ AcceptFails(e)
  BY <1>8, <1>1 DEF SkipError, AcceptFails
<1>9. CASE \E e \in batch, c \in clients : RecvData(e, c) \/ RecvError(e, c) \/ RecvThenDie(e, c)
  BY <1>9, <1>1 DEF RecvData, RecvError, RecvThenDie
<1>10. CASE Posted \/ Quit \/ SetStopped \/ Kill \/ Join \/ UNCHANGED vars
  BY <1>10, <1>1 DEF Posted, Quit, SetStopped, Kill, Join, vars
<1>11. clients \subseteq Conns
  BY DEF ShapeOK
<1> QED
  BY <1>2, <1>3, <1>4, <1>5, <1>6, <1>7, <1>8, <1>9, <1>10, <1>11, Cases
-----------------------------------------------------------------------------
(* The event list.                                                         *)

\* Entries come from connections with different descriptors, and leave the list
\* one by one.
LEMMA EntriesKept ==
    ShapeOK /\ ListInv /\ FdInv /\ EntriesDiffer /\ [Next]_vars => EntriesDiffer'
<1> SUFFICES ASSUME ShapeOK, ListInv, FdInv, EntriesDiffer, [Next]_vars PROVE EntriesDiffer'
  OBVIOUS
<1>1. CASE batch' \subseteq batch
  BY <1>1 DEF EntriesDiffer
<1>2. CASE EpollWait
  <2>1. batch' \subseteq Ready
    BY <1>2 DEF EpollWait
  <2>2. \A c \in edges : c \in Open /\ cfd[c] \in Fds /\ cfd[c] # Listen
    BY <1>2, ServerAssumption DEF EpollWait, ListInv, FdInv
  <2>3. \A e, f \in Ready : e.fd = f.fd => e = f
    <3> SUFFICES ASSUME NEW e \in Ready, NEW f \in Ready, e.fd = f.fd PROVE e = f
      OBVIOUS
    <3>1. CASE e = [fd |-> Listen, err |-> FALSE]
      BY <3>1, <2>2, ReadyEntry
    <3>2. ASSUME NEW c \in edges, e = [fd |-> cfd[c], err |-> c \in rst]
          PROVE  e = f
      <4>1. f # [fd |-> Listen, err |-> FALSE]
        BY <3>2, <2>2
      <4>2. PICK d \in edges : f = [fd |-> cfd[d], err |-> d \in rst]
        BY <4>1, ReadyEntry
      <4>3. c = d
        BY <3>2, <4>2, <2>2 DEF FdInv
      <4> QED
        BY <3>2, <4>2, <4>3
    <3> QED
      BY <3>1, <3>2, ReadyEntry
  <2> QED
    BY <2>1, <2>3 DEF EntriesDiffer
<1> USE DEF threadVars, listVars, outVars, textVars, sockVars, peerVars, serverVars
<1>3. CASE \E c \in Conns : \/ Connect(c) \/ CloseByPeer(c) \/ ResetByPeer(c) \/ DeliverMore(c)
                            \/ \E m \in Msgs : Send(c, m)
  BY <1>3, <1>1 DEF Connect, CloseByPeer, ResetByPeer, DeliverMore, Send
<1>4. CASE Start \/ StartFails \/ Test \/ Enter \/ EndBatch
  BY <1>4, <1>1 DEF Start, StartFails, Test, Enter, EndBatch
<1>5. CASE \E e \in batch : SkipError(e) \/ AcceptFails(e)
  BY <1>5, <1>1 DEF SkipError, AcceptFails
<1>6. CASE \E e \in batch, c \in Conns : Accept(e, c) \/ AcceptThenDie(e, c)
  BY <1>6, <1>1 DEF Accept, AcceptThenDie, LeaveBatch
<1>7. CASE \E e \in batch, c \in clients :
              RecvData(e, c) \/ RecvError(e, c) \/ RecvEof(e, c) \/ RecvThenDie(e, c)
  BY <1>7, <1>1 DEF RecvData, RecvError, RecvEof, RecvThenDie
<1>8. CASE Posted \/ Done \/ Quit \/ SetStopped \/ Kill \/ Join \/ UNCHANGED vars
  BY <1>8, <1>1 DEF Posted, Done, Quit, SetStopped, Kill, Join, vars
<1> QED
  BY <1>2, <1>3, <1>4, <1>5, <1>6, <1>7, <1>8, Cases

\* What is delivered adds to what is there.
LEMMA StaysReadable ==
    ASSUME OwnParts, NEW c \in Conns, NEW s \in Seq(Own(c)), unread[c] # << >>
    PROVE  unread[c] \o s # << >>
  BY ConcatEqualIffEmpty DEF OwnParts

\* Peers take nothing away: what could be accepted or received still can.
LEMMA PeersOnlyAdd ==
    ASSUME OwnParts, ShapeOK,
           \E c \in Conns : \/ Connect(c) \/ CloseByPeer(c) \/ ResetByPeer(c) \/ DeliverMore(c)
                            \/ \E m \in Msgs : Send(c, m)
    PROVE  /\ UNCHANGED <<cfd, clients, batch, spc>>
           /\ Backlog \subseteq Backlog'
           /\ \A d \in Conns : Readable(d) => Readable(d)'
<1> PICK c \in Conns : \/ Connect(c) \/ CloseByPeer(c) \/ ResetByPeer(c) \/ DeliverMore(c)
                       \/ \E m \in Msgs : Send(c, m)
  OBVIOUS
<1> USE DEF threadVars, listVars, outVars, textVars, sockVars, peerVars, serverVars, Readable, Backlog
<1>1. CASE Connect(c)
  BY <1>1 DEF Connect, ShapeOK
<1>2. CASE CloseByPeer(c) \/ ResetByPeer(c)
  BY <1>2 DEF CloseByPeer, ResetByPeer
<1>3. ASSUME NEW flow \in Seq(Own(c)), Deliver(c, flow)
      PROVE  \A d \in Conns : unread[d] # << >> => unread'[d] # << >>
  <2>1. PICK n \in 1 .. Len(flow) : unread' = [unread EXCEPT ![c] = @ \o SubSeq(flow, 1, n)]
    BY <1>3 DEF Deliver
  <2>2. SubSeq(flow, 1, n) \in Seq(Own(c))
    BY <2>1
  <2> QED
    BY <2>1, <2>2, StaysReadable DEF OwnParts
<1>4. CASE DeliverMore(c)
  <2>1. coming[c] \in Seq(Own(c))
    BY DEF OwnParts
  <2> QED
    BY <1>4, <1>3, <2>1 DEF DeliverMore
<1>5. ASSUME NEW m \in Msgs, Send(c, m)
      PROVE  /\ UNCHANGED <<cfd, clients, batch, spc>>
             /\ Backlog \subseteq Backlog'
             /\ \A d \in Conns : Readable(d) => Readable(d)'
  <2>1. coming[c] \o PartsOf(c, m) \in Seq(Own(c))
    BY PartsAreOwn, ConcatProperties DEF OwnParts
  <2> QED
    BY <1>5, <1>3, <2>1 DEF Send
<1> QED
  BY <1>1, <1>2, <1>4, <1>5

\* A recv changes one connection, and no other entry of the event list names it.
LEMMA NeverBlocksKept ==
    OwnParts /\ ShapeOK /\ ListInv /\ FdInv /\ EntriesDiffer /\ NeverBlocks /\ [Next]_vars
        => NeverBlocks'
<1> SUFFICES ASSUME OwnParts, ShapeOK, ListInv, FdInv, EntriesDiffer, NeverBlocks, [Next]_vars
             PROVE  NeverBlocks'
  OBVIOUS
<1>1. CASE spc' \notin {"batch", "post"} \/ batch' = {}
  BY <1>1 DEF NeverBlocks
<1>2. CASE /\ spc' = spc \/ spc = "post"
           /\ batch' \subseteq batch
           /\ UNCHANGED <<conn, cfd, clients, unread, fin, rst>>
  BY <1>2 DEF NeverBlocks, Readable, Backlog
<1>3. CASE \E c \in Conns : \/ Connect(c) \/ CloseByPeer(c) \/ ResetByPeer(c) \/ DeliverMore(c)
                            \/ \E m \in Msgs : Send(c, m)
  <2> DEFINE Waits(fd) == \E c \in clients : cfd[c] = fd /\ Readable(c)
  <2>1. \A fd : Waits(fd) => Waits(fd)'
    BY <1>3, PeersOnlyAdd DEF ShapeOK
  <2>2. Backlog # {} => (Backlog # {})'
    BY <1>3, PeersOnlyAdd
  <2>3. UNCHANGED <<batch, spc>>
    BY <1>3, PeersOnlyAdd
  <2> QED
    BY <2>1, <2>2, <2>3 DEF NeverBlocks
<1>4. CASE EpollWait
  <2>1. batch' \subseteq Ready /\ UNCHANGED <<conn, cfd, clients, unread, fin, rst>>
    BY <1>4 DEF EpollWait, listVars, peerVars
  <2>2. \A c \in edges : c \in clients /\ cfd[c] # Listen
    BY <1>4, ServerAssumption DEF EpollWait, ListInv, FdInv
  <2>3. ASSUME NEW e \in Ready
        PROVE  IF e.fd = Listen THEN Backlog # {}
               ELSE \E c \in clients : cfd[c] = e.fd /\ Readable(c)
    BY <2>2, ReadyEntry
  <2> QED
    BY <2>1, <2>3 DEF NeverBlocks, Readable, Backlog
<1>5. ASSUME NEW e \in batch, NEW c \in clients, spc = "batch", cfd[c] = e.fd, e.fd # Listen,
             RecvData(e, c) \/ RecvEof(e, c)
      PROVE  NeverBlocks'
  <2>1. /\ batch' = batch \ {e} /\ cfd' = cfd
        /\ clients \ {c} \subseteq clients'
        /\ \A d \in Conns \ {c} : Readable(d) => Readable(d)'
        /\ Backlog \subseteq Backlog'
    <3>1. c \notin Backlog
      BY <1>5 DEF ListInv, Open, Backlog
    <3>2. CASE RecvData(e, c)
      BY <3>2 DEF RecvData, Receive, Readable, Backlog, ShapeOK, OwnParts
    <3>3. CASE RecvEof(e, c)
      BY <3>1, <3>3 DEF RecvEof, Unlink, Readable, Backlog, peerVars, ShapeOK
    <3> QED
      BY <1>5, <3>2, <3>3
  <2>2. ASSUME NEW f \in batch'
        PROVE  IF f.fd = Listen THEN Backlog' # {}
               ELSE \E d \in clients' : cfd'[d] = f.fd /\ Readable(d)'
    <3>1. f \in batch /\ f.fd # e.fd
      BY <2>1 DEF EntriesDiffer
    <3>2. CASE f.fd = Listen
      BY <3>1, <3>2, <1>5, <2>1 DEF NeverBlocks
    <3>3. CASE f.fd # Listen
      <4>1. PICK d \in clients : cfd[d] = f.fd /\ Readable(d)
        BY <3>1, <3>3, <1>5 DEF NeverBlocks
      <4>2. d \in clients' /\ Readable(d)'
        BY <4>1, <3>1, <1>5, <2>1 DEF ShapeOK
      <4> QED
        BY <4>1, <4>2, <3>3, <2>1
    <3> QED
      BY <3>2, <3>3
  <2> QED
    BY <2>2 DEF NeverBlocks
<1> USE DEF threadVars, listVars, outVars, textVars, sockVars, peerVars, serverVars
<1>6. CASE Start \/ StartFails \/ Test \/ Enter \/ EndBatch
  BY <1>6, <1>1 DEF Start, StartFails, Test, Enter, EndBatch
<1>7. CASE \E e \in batch : spc = "batch" /\ (SkipError(e) \/ AcceptFails(e))
  BY <1>7, <1>2 DEF SkipError, AcceptFails, NewNodeUnlinked
<1>8. CASE \E e \in batch, c \in Conns : spc = "batch" /\ (Accept(e, c) \/ AcceptThenDie(e, c))
  BY <1>8, <1>1 DEF Accept, AcceptThenDie, LeaveBatch
<1>9. CASE \E e \in batch, c \in clients : spc = "batch" /\ (RecvError(e, c) \/ RecvThenDie(e, c))
  BY <1>9, <1>1, <1>2 DEF RecvError, RecvThenDie
<1>10. CASE Quit \/ SetStopped \/ Kill \/ UNCHANGED vars
  BY <1>10, <1>1, <1>2 DEF Quit, SetStopped, Kill, Interrupted, vars
<1>11. CASE Posted \/ Done \/ Join
  BY <1>11, <1>1, <1>2 DEF Posted, Done, Join, Over
<1> QED
  BY <1>3, <1>4, <1>5, <1>6, <1>7, <1>8, <1>9, <1>10, <1>11, Cases
-----------------------------------------------------------------------------
(* The parts of a text.                                                    *)

\* The beginning and the end of a sequence hold what the sequence holds.
LEMMA Pieces ==
    ASSUME NEW S, NEW s \in Seq(S), NEW n \in 0 .. Len(s)
    PROVE  SubSeq(s, 1, n) \in Seq(S) /\ SubSeq(s, n + 1, Len(s)) \in Seq(S)
  BY SubSeqProperties

\* What is put over older bytes of the same client leaves only bytes of that client.
LEMMA OverwrittenOwn ==
    ASSUME NEW c \in Conns, NEW old \in Seq(Own(c)), NEW new \in Seq(Own(c)), new # << >>
    PROVE  Overwritten(old, new) \in Seq(Own(c)) /\ Tail(Overwritten(old, new)) \in Seq(Own(c))
<1>1. SubSeq(old, Len(new), Len(old)) \in Seq(Own(c))
  <2>1. Len(new) >= 1
    BY EmptySeq
  <2> QED
    BY <2>1, SubSeqProperties
<1>2. Overwritten(old, new) \in Seq(Own(c)) /\ Overwritten(old, new) # << >>
  BY <1>1, ConcatProperties, ConcatEqualIffEmpty DEF Overwritten
<1> QED
  BY <1>2, HeadTailProperties

\* One recv takes parts of the client's own and leaves such parts.
LEMMA ReceivedOwn ==
    ASSUME OwnParts, NEW c \in Conns, unread[c] # << >>
    PROVE  /\ Rest(c) \in Seq(Own(c))
           /\ Text(c) \in Seq(Own(c)) /\ Tail(Text(c)) \in Seq(Own(c))
<1> DEFINE n == IF Len(unread[c]) < RecvCap THEN Len(unread[c]) ELSE RecvCap
<1>1. unread[c] \in Seq(Own(c)) /\ data[c] \in Seq(Own(c))
  BY DEF OwnParts
<1>2. n \in 1 .. Len(unread[c])
  BY <1>1, EmptySeq, ServerAssumption
<1>3. Received(c) = SubSeq(unread[c], 1, n)
  BY DEF Received
<1>4. Received(c) \in Seq(Own(c)) /\ Len(Received(c)) = n
  BY <1>1, <1>2, <1>3, SubSeqProperties
<1>5. Received(c) # << >>
  BY <1>2, <1>4
<1> QED
  BY <1>1, <1>2, <1>4, <1>5, Pieces, OverwrittenOwn DEF Rest, Text

\* New parts come from the peer itself, and the buffer of a new node is empty:
\* parts of two clients never meet, and so no text is mixed.
LEMMA OwnPartsKept == OwnParts /\ ShapeOK /\ [Next]_vars => OwnParts'
<1> SUFFICES ASSUME OwnParts, ShapeOK, [Next]_vars PROVE OwnParts'
  OBVIOUS
<1>1. CASE UNCHANGED <<coming, unread, data, mixed>>
  BY <1>1 DEF OwnParts
<1>2. ASSUME NEW c \in Conns, NEW flow \in Seq(Own(c)), Deliver(c, flow), UNCHANGED <<data, mixed>>
      PROVE  OwnParts'
  <2>1. PICK n \in 1 .. Len(flow) :
           /\ unread' = [unread EXCEPT ![c] = @ \o SubSeq(flow, 1, n)]
           /\ coming' = [coming EXCEPT ![c] = SubSeq(flow, n + 1, Len(flow))]
    BY <1>2 DEF Deliver
  <2>2. SubSeq(flow, 1, n) \in Seq(Own(c)) /\ SubSeq(flow, n + 1, Len(flow)) \in Seq(Own(c))
    BY Pieces
  <2>3. unread[c] \o SubSeq(flow, 1, n) \in Seq(Own(c))
    BY <2>2, ConcatProperties DEF OwnParts
  <2> QED
    BY <1>2, <2>1, <2>2, <2>3 DEF OwnParts
<1>3. ASSUME NEW c \in Conns, Receive(c), mixed' = mixed, coming' = coming
      PROVE  OwnParts'
  <2>1. Rest(c) \in Seq(Own(c)) /\ Tail(Text(c)) \in Seq(Own(c))
    BY <1>3, ReceivedOwn DEF Receive
  <2> QED
    BY <1>3, <2>1 DEF Receive, OwnParts
<1> USE DEF threadVars, listVars, outVars, textVars, sockVars, peerVars, serverVars
<1>4. CASE \E c \in Conns : DeliverMore(c)
  BY <1>4, <1>2 DEF DeliverMore, OwnParts
<1>5. CASE \E c \in Conns, m \in Msgs : Send(c, m)
  <2> PICK c \in Conns, m \in Msgs : Send(c, m)
    BY <1>5
  <2>1. coming[c] \o PartsOf(c, m) \in Seq(Own(c))
    BY PartsAreOwn, ConcatProperties DEF OwnParts
  <2> QED
    BY <2>1, <1>2 DEF Send
<1>6. CASE \E e \in batch, c \in clients : RecvData(e, c)
  <2> PICK e \in batch, c \in clients : RecvData(e, c)
    BY <1>6
  <2>1. c \in Conns /\ Receive(c) /\ unread[c] # << >>
    BY DEF RecvData, Receive, ShapeOK
  <2>2. \A p \in Range(Text(c)) : p.from = c
    <3>1. Text(c) \in Seq(Own(c))
      BY <2>1, ReceivedOwn
    <3>2. \A i \in DOMAIN Text(c) : Text(c)[i] \in Own(c)
      BY <3>1
    <3> QED
      BY <3>2 DEF Range, Own
  <2>3. mixed' = mixed /\ coming' = coming
    BY <2>2 DEF RecvData
  <2> QED
    BY <2>1, <2>3, <1>3
<1>7. CASE \E e \in batch, c \in clients : RecvThenDie(e, c)
  BY <1>7, <1>1, <1>3 DEF RecvThenDie, ShapeOK
<1>8. CASE \E e \in batch, c \in Conns : Accept(e, c) \/ AcceptThenDie(e, c)
  <2> PICK e \in batch, c \in Conns : Accept(e, c) \/ AcceptThenDie(e, c)
    BY <1>8
  <2>1. data' = [data EXCEPT ![c] = << >>] /\ UNCHANGED <<coming, unread, mixed>>
    BY DEF Accept, AcceptThenDie, AcceptFrom, SocketClientNew, Cleared
  <2>2. << >> \in Seq(Own(c))
    BY EmptySeq
  <2> QED
    BY <2>1, <2>2 DEF OwnParts
<1>9. CASE \E c \in Conns : Connect(c) \/ CloseByPeer(c) \/ ResetByPeer(c)
  BY <1>9, <1>1 DEF Connect, CloseByPeer, ResetByPeer
<1>10. CASE Start \/ StartFails \/ Test \/ Enter \/ EndBatch \/ EpollWait
  BY <1>10, <1>1 DEF Start, StartFails, Test, Enter, EndBatch, EpollWait
<1>11. CASE \E e \in batch, c \in clients :
               SkipError(e) \/ AcceptFails(e) \/ RecvError(e, c) \/ RecvEof(e, c)
  BY <1>11, <1>1 DEF SkipError, AcceptFails, RecvError, RecvEof
<1>12. CASE \E e \in batch : SkipError(e) \/ AcceptFails(e)
  BY <1>12, <1>1 DEF SkipError, AcceptFails
<1>13. CASE Posted \/ Done \/ Quit \/ SetStopped \/ Kill \/ Join \/ UNCHANGED vars
  BY <1>13, <1>1 DEF Posted, Done, Quit, SetStopped, Kill, Join, vars
<1> QED
  BY <1>4, <1>5, <1>6, <1>7, <1>8, <1>9, <1>10, <1>11, <1>12, <1>13, Cases
-----------------------------------------------------------------------------
(* The counter and its wrap-around.                                        *)

LEMMA Division ==
    ASSUME NEW n \in Nat, NEW m \in Nat \ {0}
    PROVE  n = (n \div m) * m + (n % m) /\ n \div m \in Int /\ n % m \in 0 .. m - 1
  BY SMTT(30)

LEMMA Remainder ==
    ASSUME NEW q \in Int, NEW m \in Nat \ {0}, NEW r \in 0 .. m - 1
    PROVE  (q * m + r) % m = r
  BY SMTT(30)

\* Counting up in the counter is counting up before the wrap-around.
LEMMA UpModulo ==
    ASSUME NEW n \in Nat, NEW m \in Nat \ {0}
    PROVE  ((n % m) + 1) % m = (n + 1) % m
<1> DEFINE q == n \div m
           r == n % m
<1>1. n = q * m + r /\ q \in Int /\ r \in 0 .. m - 1
  BY Division
<1> HIDE DEF q, r
<1>2. CASE r + 1 < m
  <2>1. n + 1 = q * m + (r + 1) /\ r + 1 \in 0 .. m - 1
    BY <1>1, <1>2
  <2>2. (n + 1) % m = r + 1
    BY <2>1, <1>1, Remainder
  <2>3. (r + 1) % m = r + 1
    BY <2>1, SMTT(30)
  <2> QED
    BY <2>2, <2>3 DEF r
<1>3. CASE r + 1 = m
  <2>1. n + 1 = (q + 1) * m + 0
    BY <1>1, <1>3
  <2>2. (n + 1) % m = 0
    BY <2>1, <1>1, Remainder
  <2>3. m % m = 0
    BY SMTT(30)
  <2> QED
    BY <2>2, <2>3, <1>3 DEF r
<1> QED
  BY <1>1, <1>2, <1>3

\* And so is counting down.
LEMMA DownModulo ==
    ASSUME NEW n \in Nat, NEW m \in Nat \ {0}
    PROVE  (((n + 1) % m) + m - 1) % m = n % m
<1> DEFINE q == n \div m
           r == n % m
<1>1. n = q * m + r /\ q \in Int /\ r \in 0 .. m - 1
  BY Division
<1> HIDE DEF q, r
<1>2. CASE r + 1 < m
  <2>1. n + 1 = q * m + (r + 1) /\ r + 1 \in 0 .. m - 1
    BY <1>1, <1>2
  <2>2. (n + 1) % m = r + 1
    BY <2>1, <1>1, Remainder
  <2>3. (1 * m + r) % m = r /\ 1 * m + r = (r + 1) + m - 1
    BY <1>1, Remainder
  <2> QED
    BY <2>2, <2>3 DEF r
<1>3. CASE r + 1 = m
  <2>1. n + 1 = (q + 1) * m + 0
    BY <1>1, <1>3
  <2>2. (n + 1) % m = 0
    BY <2>1, <1>1, Remainder
  <2>3. (0 * m + r) % m = r /\ 0 * m + r = 0 + m - 1
    BY <1>1, <1>3, Remainder
  <2> QED
    BY <2>2, <2>3 DEF r
<1> QED
  BY <1>1, <1>2, <1>3

\* Every node that is linked is counted, and every one that is unlinked.
LEMMA CountKept == ShapeOK /\ ListInv /\ CountInv /\ [Next]_vars => CountInv'
<1> SUFFICES ASSUME ShapeOK, ListInv, CountInv, [Next]_vars PROVE CountInv'
  OBVIOUS
<1>1. CASE UNCHANGED <<clients, count>> /\ spc # "exited"
  BY <1>1 DEF CountInv
<1>2. CASE \E e \in batch, c \in Conns : spc = "batch" /\ (Accept(e, c) \/ AcceptThenDie(e, c))
  <2> PICK c \in Conns : \E e \in batch : spc = "batch" /\ (Accept(e, c) \/ AcceptThenDie(e, c))
    BY <1>2
  <2>1. c \notin clients
    BY DEF Accept, AcceptThenDie, AcceptFrom, Backlog, ListInv, Open
  <2>2. clients' = clients \cup {c} /\ count' = (count + 1) % CountMod
    BY DEF Accept, AcceptThenDie, AcceptFrom, SocketClientNew
  <2>3. IsFiniteSet(clients') /\ Cardinality(clients') = Cardinality(clients) + 1
    BY <2>1, <2>2, FS_AddElement DEF CountInv
  <2>4. Cardinality(clients) \in Nat /\ count = Cardinality(clients) % CountMod
    BY FS_CardinalityType DEF CountInv
  <2> QED
    BY <2>2, <2>3, <2>4, UpModulo, ServerAssumption DEF CountInv
<1>3. CASE \E e \in batch, c \in clients : spc = "batch" /\ RecvEof(e, c)
  <2> PICK c \in clients : \E e \in batch : spc = "batch" /\ RecvEof(e, c)
    BY <1>3
  <2>1. clients' = clients \ {c} /\ count' = (count + CountMod - 1) % CountMod
    BY DEF RecvEof, Unlink, CountDown
  <2>2. IsFiniteSet(clients') /\ Cardinality(clients') = Cardinality(clients) - 1
    BY <2>1, FS_RemoveElement DEF CountInv
  <2>3. /\ Cardinality(clients) \in Nat /\ Cardinality(clients') \in Nat
        /\ count = Cardinality(clients) % CountMod
    BY <2>2, FS_CardinalityType DEF CountInv
  <2>4. Cardinality(clients) = Cardinality(clients') + 1
    BY <2>2, <2>3
  <2> QED
    BY <2>1, <2>2, <2>3, <2>4, DownModulo, ServerAssumption DEF CountInv
<1>4. CASE Done \/ Join
  BY <1>4, FS_EmptySet DEF Done, Join, SocketClientListFree, Over, ListInv, CountInv
<1> USE DEF threadVars, listVars, outVars, textVars, sockVars, peerVars, serverVars
<1>5. CASE UNCHANGED <<clients, count, spc>>
  BY <1>5 DEF CountInv
<1>6. CASE \E c \in Conns : \/ Connect(c) \/ CloseByPeer(c) \/ ResetByPeer(c) \/ DeliverMore(c)
                            \/ \E m \in Msgs : Send(c, m)
  BY <1>6, <1>5 DEF Connect, CloseByPeer, ResetByPeer, DeliverMore, Send
<1>7. CASE Start \/ StartFails \/ Test \/ Enter \/ EndBatch \/ EpollWait
  BY <1>7, <1>1 DEF Start, StartFails, Test, Enter, EndBatch, EpollWait
<1>8. CASE \E e \in batch : SkipError(e) \/ AcceptFails(e)
  BY <1>8, <1>5 DEF SkipError, AcceptFails, NewNodeUnlinked
<1>9. CASE \E e \in batch, c \in clients :
              spc = "batch" /\ (RecvData(e, c) \/ RecvError(e, c) \/ RecvThenDie(e, c))
  BY <1>9, <1>1 DEF RecvData, RecvError, RecvThenDie, Receive
<1>10. CASE Posted \/ Quit \/ SetStopped \/ Kill \/ UNCHANGED vars
  BY <1>10, <1>5, <1>1 DEF Posted, Quit, SetStopped, Kill, Interrupted, vars
<1> QED
  BY <1>2, <1>3, <1>4, <1>6, <1>7, <1>8, <1>9, <1>10, Cases
-----------------------------------------------------------------------------
(* The text of an undivided message.                                       *)

\* What is received is taken from the beginning of the stream.
LEMMA RestFramed ==
    ASSUME NEW S, NEW s \in Seq(S), NEW t \in Seq(S), NEW n \in 0 .. Len(s), Framed(s \o t)
    PROVE  Framed(SubSeq(s, n + 1, Len(s)) \o t)
<1> DEFINE w == s \o t
           r == SubSeq(s, n + 1, Len(s))
           v == r \o t
<1>1. r \in Seq(S) /\ Len(r) = Len(s) - n /\ \A i \in 1 .. Len(r) : r[i] = s[i + n]
  BY SubSeqProperties
<1>2. v \in Seq(S) /\ Len(v) = Len(w) - n
  BY <1>1, ConcatProperties
<1>3. ASSUME NEW i \in 1 .. Len(v) PROVE v[i] = w[i + n] /\ i + n \in 1 .. Len(w)
  BY <1>1, ConcatProperties
<1>4. w \in Seq(S) /\ Len(w) \in Nat /\ Len(v) \in Nat
  BY <1>2, ConcatProperties
<1> HIDE DEF w, r, v
<1>5. ASSUME NEW i \in 1 .. Len(v), NEW j \in 1 .. Len(v), i < j,
             \A k \in i .. j - 1 : v[k].part # Parts
      PROVE  v[i].msg = v[j].msg
  <2>1. ASSUME NEW k \in i + n .. j + n - 1 PROVE w[k].part # Parts
    <3>1. k - n \in i .. j - 1 /\ k - n \in 1 .. Len(v)
      BY <1>4
    <3>2. v[k - n] = w[(k - n) + n] /\ (k - n) + n = k
      BY <3>1, <1>3
    <3> QED
      BY <3>1, <3>2, <1>5
  <2>2. i + n < j + n /\ i + n \in 1 .. Len(w) /\ j + n \in 1 .. Len(w)
    BY <1>3, <1>5
  <2>3. w[i + n].msg = w[j + n].msg
    BY <2>1, <2>2 DEF Framed, w
  <2> QED
    BY <2>3, <1>3
<1>6. v # << >> => v[Len(v)].part = Parts
  <2> SUFFICES ASSUME v # << >> PROVE v[Len(v)].part = Parts
    OBVIOUS
  <2>1. Len(v) \in 1 .. Len(v)
    BY <1>2, EmptySeq
  <2>2. v[Len(v)] = w[Len(w)]
    BY <2>1, <1>2, <1>3, <1>4
  <2>3. w # << >>
    BY <2>1, <1>2, <1>4, EmptySeq
  <2> QED
    BY <2>2, <2>3 DEF Framed, w
<1> QED
  BY <1>5, <1>6 DEF Framed, v, r

\* Messages are sent one behind the other.
LEMMA MessageFramed ==
    ASSUME NEW S, NEW s \in Seq(S), Framed(s), NEW p \in Seq(S), NEW m,
           Len(p) = Parts, \A i \in 1 .. Parts : p[i].msg = m /\ p[i].part = i
    PROVE  Framed(s \o p)
<1> DEFINE w == s \o p
<1>1. Parts \in Nat \ {0}
  BY ServerAssumption
<1>3. \A i \in 1 .. Parts : p[i].msg = m /\ p[i].part = i
  OBVIOUS
<1>2. Len(s) \in Nat
  BY LenProperties
<1>4. w \in Seq(S) /\ Len(w) = Len(s) + Parts
  <2>1. w \in Seq(S) /\ Len(w) = Len(s) + Len(p)
    BY ConcatProperties, Zenon
  <2> QED
    BY <2>1
<1>5. /\ \A i \in 1 .. Len(s) : w[i] = s[i]
      /\ \A i \in Len(s) + 1 .. Len(w) : w[i] = p[i - Len(s)] /\ i - Len(s) \in 1 .. Parts
  <2>1. \A i \in 1 .. Len(s) + Len(p) : w[i] = IF i <= Len(s) THEN s[i] ELSE p[i - Len(s)]
    BY ConcatProperties, Zenon
  <2> QED
    BY <1>1, <1>2, <1>4, <2>1
<1> HIDE DEF w
<1>6. ASSUME NEW i \in 1 .. Len(w), NEW j \in 1 .. Len(w), i < j,
             \A k \in i .. j - 1 : w[k].part # Parts
      PROVE  w[i].msg = w[j].msg
  <2>1. CASE j <= Len(s)
    <3>1. i \in 1 .. Len(s) /\ j \in 1 .. Len(s)
      BY <2>1, <1>2, <1>4, <1>6
    <3>2. \A k \in i .. j - 1 : s[k].part # Parts
      BY <3>1, <1>5, <1>6
    <3>3. s[i].msg = s[j].msg
      BY <3>1, <3>2, <1>6 DEF Framed
    <3> QED
      BY <3>1, <3>3, <1>5
  <2>2. CASE i <= Len(s) /\ Len(s) < j
    <3>1. Len(s) \in i .. j - 1 /\ Len(s) \in 1 .. Len(s)
      BY <2>2, <1>2, <1>4
    <3>2. s # << >>
      BY <3>1, EmptySeq
    <3>3. w[Len(s)].part = Parts
      BY <3>1, <3>2, <1>5 DEF Framed
    <3> QED
      BY <3>1, <3>3, <1>6
  <2>3. CASE Len(s) < i
    <3>1. /\ i \in Len(s) + 1 .. Len(w) /\ j \in Len(s) + 1 .. Len(w)
          /\ i - Len(s) \in 1 .. Parts /\ j - Len(s) \in 1 .. Parts
      BY <2>3, <1>1, <1>2, <1>4, <1>6
    <3>2. w[i] = p[i - Len(s)] /\ w[j] = p[j - Len(s)]
      BY <3>1, <1>5
    <3> QED
      BY <3>1, <3>2, <1>3
  <2> QED
    BY <2>1, <2>2, <2>3, <1>2
<1>7. w[Len(w)].part = Parts
  <2>1. Len(w) \in Len(s) + 1 .. Len(w) /\ Len(w) - Len(s) = Parts /\ Parts \in 1 .. Parts
    BY <1>1, <1>2, <1>4
  <2>2. w[Len(w)] = p[Parts]
    BY <2>1, <1>5
  <2> QED
    BY <2>1, <2>2, <1>3
<1> QED
  BY <1>6, <1>7 DEF Framed, w

\* A delivery moves parts from one half of the stream to the other.
LEMMA Regroup ==
    ASSUME NEW S, NEW s \in Seq(S), NEW flow \in Seq(S), NEW n \in 1 .. Len(flow)
    PROVE  (s \o SubSeq(flow, 1, n)) \o SubSeq(flow, n + 1, Len(flow)) = s \o flow
<1> DEFINE a == SubSeq(flow, 1, n)
           b == SubSeq(flow, n + 1, Len(flow))
<1>1. a \in Seq(S) /\ b \in Seq(S)
  BY Pieces
<1>2. a \o b = flow
  BY ConcatAdjacentSubSeq, SubSeqFull
<1> HIDE DEF a, b
<1>3. \A x, y \in Seq(S) : (s \o x) \o y = s \o (x \o y)
  BY ConcatAssociative
<1>4. (s \o a) \o b = s \o (a \o b)
  BY <1>1, <1>3
<1>5. (s \o a) \o b = s \o flow
  BY <1>2, <1>4
<1> QED
  BY <1>5 DEF a, b

\* What follows a message sent behind a stream is a stream again.
LEMMA SentFramed ==
    ASSUME NEW c \in Conns, NEW m \in Msgs, NEW s \in Seq(Own(c)), NEW t \in Seq(Own(c)),
           Framed(s \o t)
    PROVE  Framed(s \o (t \o PartsOf(c, m))) /\ t \o PartsOf(c, m) \in Seq(Own(c))
<1> DEFINE p == PartsOf(c, m)
<1>1. p \in Seq(Own(c))
  BY PartsAreOwn
<1>2. Len(p) = Parts /\ \A i \in 1 .. Parts : p[i].msg = m /\ p[i].part = i
  BY ServerAssumption DEF PartsOf
<1> HIDE DEF p
<1>3. s \o t \in Seq(Own(c)) /\ t \o p \in Seq(Own(c))
  BY <1>1, ConcatProperties
<1>4. Framed((s \o t) \o p)
  BY <1>1, <1>2, <1>3, MessageFramed
<1>5. (s \o t) \o p = s \o (t \o p)
  BY <1>1, ConcatAssociative
<1> QED
  BY <1>3, <1>4, <1>5 DEF p

LEMMA StreamKept == OwnParts /\ ShapeOK /\ StreamInv /\ [Next]_vars => StreamInv'
<1> SUFFICES ASSUME OwnParts, ShapeOK, StreamInv, [Next]_vars PROVE StreamInv'
  OBVIOUS
<1>1. CASE UNCHANGED <<coming, unread>>
  BY <1>1 DEF StreamInv
<1>2. ASSUME NEW c \in Conns, NEW flow \in Seq(Own(c)), Deliver(c, flow), Framed(unread[c] \o flow)
      PROVE  StreamInv'
  <2>1. PICK n \in 1 .. Len(flow) :
           /\ unread' = [unread EXCEPT ![c] = @ \o SubSeq(flow, 1, n)]
           /\ coming' = [coming EXCEPT ![c] = SubSeq(flow, n + 1, Len(flow))]
    BY <1>2 DEF Deliver
  <2>2. unread'[c] \o coming'[c] = unread[c] \o flow
    BY <2>1, Regroup DEF OwnParts
  <2>3. \A d \in Conns \ {c} : unread'[d] = unread[d] /\ coming'[d] = coming[d]
    BY <2>1 DEF OwnParts
  <2> QED
    BY <1>2, <2>2, <2>3 DEF StreamInv
<1>3. ASSUME NEW c \in Conns, Receive(c), coming' = coming PROVE StreamInv'
  <2>1. unread[c] \in Seq(Own(c)) /\ coming[c] \in Seq(Own(c))
    BY DEF OwnParts
  <2>2. Len(Received(c)) \in 0 .. Len(unread[c])
    BY <1>3, <2>1, ServerAssumption, SubSeqProperties DEF Received
  <2>3. Framed(Rest(c) \o coming[c])
    BY <2>1, <2>2, RestFramed DEF StreamInv, Rest
  <2> QED
    BY <1>3, <2>3 DEF Receive, StreamInv, OwnParts
<1> USE DEF threadVars, listVars, outVars, textVars, sockVars, peerVars, serverVars
<1>4. CASE \E c \in Conns : DeliverMore(c)
  BY <1>4, <1>2 DEF DeliverMore, OwnParts, StreamInv
<1>5. CASE \E c \in Conns, m \in Msgs : Send(c, m)
  <2> PICK c \in Conns, m \in Msgs : Send(c, m)
    BY <1>5
  <2>1. unread[c] \in Seq(Own(c)) /\ coming[c] \in Seq(Own(c)) /\ Framed(unread[c] \o coming[c])
    BY DEF OwnParts, StreamInv
  <2>2. /\ Framed(unread[c] \o (coming[c] \o PartsOf(c, m)))
        /\ coming[c] \o PartsOf(c, m) \in Seq(Own(c))
    BY <2>1, SentFramed
  <2> QED
    BY <2>2, <1>2 DEF Send
<1>6. CASE \E e \in batch, c \in clients : RecvData(e, c) \/ RecvThenDie(e, c)
  BY <1>6, <1>1, <1>3 DEF RecvData, RecvThenDie, ShapeOK
<1>7. CASE \E e \in batch, c \in Conns : Accept(e, c) \/ AcceptThenDie(e, c)
  BY <1>7, <1>1 DEF Accept, AcceptThenDie
<1>8. CASE \E c \in Conns : Connect(c) \/ CloseByPeer(c) \/ ResetByPeer(c)
  BY <1>8, <1>1 DEF Connect, CloseByPeer, ResetByPeer
<1>9. CASE Start \/ StartFails \/ Test \/ Enter \/ EndBatch \/ EpollWait
  BY <1>9, <1>1 DEF Start, StartFails, Test, Enter, EndBatch, EpollWait
<1>10. CASE \E e \in batch : SkipError(e) \/ AcceptFails(e) \/ \E c \in clients : RecvError(e, c) \/ RecvEof(e, c)
  BY <1>10, <1>1 DEF SkipError, AcceptFails, RecvError, RecvEof
<1>11. CASE Posted \/ Done \/ Quit \/ SetStopped \/ Kill \/ Join \/ UNCHANGED vars
  BY <1>11, <1>1 DEF Posted, Done, Quit, SetStopped, Kill, Join, vars
<1> QED
  BY <1>4, <1>5, <1>6, <1>7, <1>8, <1>9, <1>10, <1>11, Cases

\* A prefix of a stream that is numbered like a message is one.
LEMMA PrefixIsMessage ==
    ASSUME NEW S, NEW s \in Seq(S), NEW t \in Seq(S), Framed(s \o t), Parts <= Len(s),
           \A i \in 1 .. Parts : s[i].part = i
    PROVE  \A i \in 1 .. Parts : s[i].msg = s[1].msg
<1> DEFINE w == s \o t
<1>1. Parts \in Nat \ {0}
  BY ServerAssumption
<1>2. Len(s) \in Nat /\ Len(w) >= Len(s) /\ Len(w) \in Nat /\ \A i \in 1 .. Len(s) : w[i] = s[i]
  BY ConcatProperties
<1> HIDE DEF w
<1>3. ASSUME NEW i \in 1 .. Parts, 1 < i PROVE s[i].msg = s[1].msg
  <2>1. \A k \in 1 .. i - 1 : w[k].part # Parts
    BY <1>1, <1>2
  <2>2. i \in 1 .. Len(w) /\ 1 \in 1 .. Len(w)
    BY <1>1, <1>2
  <2>3. w[1].msg = w[i].msg
    BY <2>1, <2>2, <1>3 DEF Framed, w
  <2> QED
    BY <2>3, <1>1, <1>2
<1> QED
  BY <1>1, <1>3

\* A recv of at least a message that yields a readable text took the text from the
\* stream, from the first part of a message to its last.
LEMMA WholeText ==
    ASSUME OwnParts, StreamInv, NEW c \in Conns, unread[c] # << >>, Len(Received(c)) >= Parts,
           Parsed(Text(c)) # Unreadable
    PROVE  \A i \in DOMAIN Parsed(Text(c)) : Parsed(Text(c))[i] = Parsed(Text(c))[1]
<1> DEFINE x == Text(c)
<1>1. /\ unread[c] \in Seq(Own(c)) /\ coming[c] \in Seq(Own(c)) /\ data[c] \in Seq(Own(c))
      /\ Framed(unread[c] \o coming[c])
  BY DEF OwnParts, StreamInv
<1>2. Parts \in Nat \ {0}
  BY ServerAssumption
<1>3. /\ Received(c) \in Seq(Own(c)) /\ Len(Received(c)) <= Len(unread[c])
      /\ \A i \in 1 .. Len(Received(c)) : Received(c)[i] = unread[c][i]
  BY <1>1, ServerAssumption, SubSeqProperties DEF Received
<1>4. SubSeq(data[c], Len(Received(c)), Len(data[c])) \in Seq(Own(c))
  <2>1. Len(Received(c)) >= 1 /\ Len(Received(c)) \in Nat
    BY <1>2, <1>3
  <2> QED
    BY <1>1, <2>1, SubSeqProperties
<1>5. \A i \in 1 .. Parts : x[i] = unread[c][i]
  BY <1>2, <1>3, <1>4, ConcatProperties DEF Text, Overwritten
<1>6. Parsed(x) = [i \in 1 .. Parts |-> x[i].msg] /\ \A i \in 1 .. Parts : x[i].part = i
  BY DEF Parsed, Unreadable
<1> HIDE DEF x
<1>7. Parts <= Len(unread[c])
  BY <1>1, <1>2, <1>3
<1>8. \A i \in 1 .. Parts : unread[c][i].msg = unread[c][1].msg
  BY <1>1, <1>5, <1>6, <1>7, PrefixIsMessage
<1>9. \A i \in 1 .. Parts : x[i].msg = x[1].msg
  BY <1>2, <1>5, <1>8
<1> QED
  BY <1>2, <1>6, <1>9 DEF x

LEMMA TextKept ==
    OwnParts /\ ShapeOK /\ StreamInv /\ TextInv /\ [Next]_vars => TextInv'
<1> SUFFICES ASSUME OwnParts, ShapeOK, StreamInv, TextInv, [Next]_vars PROVE TextInv'
  OBVIOUS
<1>1. CASE UNCHANGED <<dispatched, torn>>
  BY <1>1 DEF TextInv
<1>2. CASE \E e \in batch, c \in clients : RecvData(e, c)
  <2> PICK c \in clients : \E e \in batch : RecvData(e, c)
    BY <1>2
  <2> DEFINE x == Parsed(Text(c))
  <2>1. c \in Conns /\ unread[c] # << >> /\ dispatched' = dispatched \cup {x}
    BY DEF RecvData, Receive, ShapeOK
  <2>2. CASE Len(Received(c)) < Parts
    <3>1. torn' = torn \cup {x}
      BY <2>2 DEF RecvData
    <3> QED
      BY <2>1, <3>1 DEF TextInv
  <2>3. CASE ~(Len(Received(c)) < Parts)
    <3>1. torn' = torn
      BY <2>3 DEF RecvData
    <3>2. Len(Received(c)) >= Parts
      <4>1. unread[c] \in Seq(Own(c))
        BY <2>1 DEF OwnParts
      <4>2. Len(Received(c)) \in Nat
        BY <4>1, ServerAssumption, SubSeqProperties DEF Received
      <4> QED
        BY <2>3, <4>2, ServerAssumption
    <3>3. x # Unreadable => \A i \in DOMAIN x : x[i] = x[1]
      BY <2>1, <3>2, WholeText
    <3> QED
      BY <2>1, <3>1, <3>3 DEF TextInv
  <2> QED
    BY <2>2, <2>3
<1> USE DEF threadVars, listVars, outVars, textVars, sockVars, peerVars, serverVars
<1>3. CASE \E c \in Conns : \/ Connect(c) \/ CloseByPeer(c) \/ ResetByPeer(c) \/ DeliverMore(c)
                            \/ \E m \in Msgs : Send(c, m)
  BY <1>3, <1>1 DEF Connect, CloseByPeer, ResetByPeer, DeliverMore, Send
<1>4. CASE Start \/ StartFails \/ Test \/ Enter \/ EndBatch \/ EpollWait
  BY <1>4, <1>1 DEF Start, StartFails, Test, Enter, EndBatch, EpollWait
<1>5. CASE \E e \in batch, c \in Conns : Accept(e, c) \/ AcceptThenDie(e, c)
  BY <1>5, <1>1 DEF Accept, AcceptThenDie
<1>6. CASE \E e \in batch : \/ SkipError(e) \/ AcceptFails(e)
                            \/ \E c \in clients : RecvError(e, c) \/ RecvEof(e, c) \/ RecvThenDie(e, c)
  BY <1>6, <1>1 DEF SkipError, AcceptFails, RecvError, RecvEof, RecvThenDie
<1>7. CASE Posted \/ Done \/ Quit \/ SetStopped \/ Kill \/ Join \/ UNCHANGED vars
  BY <1>7, <1>1 DEF Posted, Done, Quit, SetStopped, Kill, Join, vars
<1> QED
  BY <1>2, <1>3, <1>4, <1>5, <1>6, <1>7, Cases
-----------------------------------------------------------------------------
(* The theorems.                                                           *)

THEOREM Invariance == Spec => []AllInv
<1>1. AllInv /\ [Next]_vars => AllInv'
  BY OwnPartsKept, ShapeKept, ListKept, FdKept, EntriesKept, NeverBlocksKept, CountKept,
     StreamKept, TextKept DEF IInv, AllInv
<1> QED
  BY <1>1, InitInv, PTL DEF Spec

\* While the thread lives its list holds exactly the open connections, the counter
\* follows the list through its wrap-around, and a descriptor finds one node
\* (socket_server.c:221, :336 and :394).
THEOREM ListMatches == Spec => []ListMatchesSockets
<1>1. AllInv => ListMatchesSockets
  <2> SUFFICES ASSUME ListInv, FdInv, CountInv PROVE ListMatchesSockets
    BY DEF IInv, AllInv
  <2>1. clients \subseteq Open
    BY DEF ListInv
  <2> QED
    BY <2>1 DEF ListInv, FdInv, CountInv, ListMatchesSockets
<1> QED
  BY <1>1, Invariance, PTL

\* Serving an entry never blocks in accept or recv and never misses its client
\* (socket_server.c:317).
THEOREM LoopNeverBlocks == Spec => []NeverBlocks
<1>1. AllInv => NeverBlocks
  BY DEF IInv, AllInv
<1> QED
  BY <1>1, Invariance, PTL

\* No readable text has parts of two clients, although nodes, buffers and descriptors
\* are used again, and each is one message unless a recv returned less than a message
\* (socket_server.c:203 and :373).
THEOREM TextsAreMessages == Spec => []TextIsMessage
<1>1. AllInv => TextIsMessage
  BY DEF IInv, AllInv, OwnParts, TextInv, TextIsMessage
<1> QED
  BY <1>1, Invariance, PTL
-----------------------------------------------------------------------------
(* Types, with the texts.                                                  *)

\* What is remembered of the texts, and the counter.
RecordOK ==
    /\ sent \subseteq Msgs
    /\ torn \subseteq dispatched /\ dispatched \subseteq Seq(Msgs)
    /\ count \in 0 .. CountMod - 1

LEMMA ParsedText ==
    ASSUME NEW c \in Conns, NEW s \in Seq(Own(c))
    PROVE  Parsed(s) \in Seq(Msgs)
<1>1. CASE Len(s) >= Parts
  <2>1. \A i \in 1 .. Parts : i \in 1 .. Len(s)
    BY <1>1, ServerAssumption
  <2>2. \A i \in 1 .. Parts : s[i].msg \in Msgs
    <3>1. \A i \in 1 .. Len(s) : s[i] \in Own(c)
      BY ElementOfSeq
    <3>2. \A p \in Own(c) : p.msg \in Msgs
      BY DEF Own
    <3> QED
      BY <2>1, <3>1, <3>2
  <2>3. [i \in 1 .. Parts |-> s[i].msg] \in Seq(Msgs)
    BY <2>2, ServerAssumption
  <2> QED
    BY <2>3, EmptySeq DEF Parsed, Unreadable
<1>2. CASE ~(Len(s) >= Parts)
  BY <1>2, EmptySeq DEF Parsed, Unreadable
<1> QED
  BY <1>1, <1>2

LEMMA RecordKept == OwnParts /\ ShapeOK /\ RecordOK /\ [Next]_vars => RecordOK'
<1> SUFFICES ASSUME OwnParts, ShapeOK, RecordOK, [Next]_vars PROVE RecordOK'
  OBVIOUS
<1> USE DEF RecordOK, threadVars, listVars, outVars, textVars, sockVars, peerVars, serverVars
<1>1. CASE UNCHANGED <<sent, torn, dispatched, count>>
  BY <1>1
<1>2. CASE \E e \in batch, c \in clients : RecvData(e, c)
  <2> PICK c \in clients : \E e \in batch : RecvData(e, c)
    BY <1>2
  <2>1. c \in Conns /\ unread[c] # << >>
    BY DEF RecvData, Receive, ShapeOK
  <2>2. Parsed(Text(c)) \in Seq(Msgs)
    BY <2>1, ReceivedOwn, ParsedText
  <2> QED
    BY <2>2 DEF RecvData
<1>3. \A n : n % CountMod = count' => (n \in Nat => count' \in 0 .. CountMod - 1)
  BY ServerAssumption, SMTT(30)
<1>4. CASE \E e \in batch, c \in Conns : Accept(e, c) \/ AcceptThenDie(e, c)
  <2>1. count' = (count + 1) % CountMod /\ count + 1 \in Nat
    BY <1>4, ServerAssumption DEF Accept, AcceptThenDie, AcceptFrom
  <2> QED
    BY <1>3, <1>4, <2>1 DEF Accept, AcceptThenDie
<1>5. CASE \E e \in batch, c \in clients : RecvEof(e, c)
  <2>1. count' = (count + CountMod - 1) % CountMod /\ count + CountMod - 1 \in Nat
    BY <1>5, ServerAssumption DEF RecvEof, CountDown
  <2> QED
    BY <1>3, <1>5, <2>1 DEF RecvEof
<1>6. CASE \E c \in Conns : \/ Connect(c) \/ CloseByPeer(c) \/ ResetByPeer(c) \/ DeliverMore(c)
                            \/ \E m \in Msgs : Send(c, m)
  BY <1>6 DEF Connect, CloseByPeer, ResetByPeer, DeliverMore, Send
<1>7. CASE Start \/ StartFails \/ Test \/ Enter \/ EndBatch \/ EpollWait
  BY <1>7, <1>1 DEF Start, StartFails, Test, Enter, EndBatch, EpollWait
<1>8. CASE \E e \in batch : \/ SkipError(e) \/ AcceptFails(e)
                            \/ \E c \in clients : RecvError(e, c) \/ RecvThenDie(e, c)
  BY <1>8, <1>1 DEF SkipError, AcceptFails, RecvError, RecvThenDie, Receive
<1>9. CASE Posted \/ Done \/ Quit \/ SetStopped \/ Kill \/ Join \/ UNCHANGED vars
  BY <1>9, <1>1 DEF Posted, Done, Quit, SetStopped, Kill, Join, vars
<1> QED
  BY <1>2, <1>4, <1>5, <1>6, <1>7, <1>8, <1>9, Cases

\* The variables keep their types; the 8-bit counter stays below its modulus although
\* it is counted down from 0 as well (socket_server.c:221).
THEOREM TypeCorrect == Spec => []TypeOK
<1>1. Init => RecordOK
  BY ServerAssumption DEF Init, Listening, RecordOK
<1>2. AllInv /\ RecordOK => TypeOK
  <2> SUFFICES ASSUME OwnParts, ShapeOK, ListInv, RecordOK PROVE TypeOK
    BY DEF AllInv, IInv
  <2> DEFINE Whole == [from : Conns, msg : Msgs, part : 1 .. Parts]
  <2>1. \A c \in Conns : Own(c) \subseteq Whole
    BY DEF Own
  <2>2. \A c \in Conns : \A s \in Seq(Own(c)) : s \in Seq(Whole)
    BY <2>1, SeqMonotonic
  <2> HIDE DEF Whole
  <2>3. {coming, unread, data} \subseteq [Conns -> Seq(Whole)]
    <3>1. \A c \in Conns : {coming[c], unread[c], data[c]} \subseteq Seq(Whole)
      BY <2>2 DEF OwnParts
    <3>2. ASSUME NEW f \in {coming, unread, data} PROVE f \in [Conns -> Seq(Whole)]
      BY <3>1 DEF OwnParts
    <3> QED
      BY <3>2
  <2>4. edges \subseteq Conns /\ mixed \subseteq dispatched
    BY DEF ListInv, ShapeOK, OwnParts
  <2> QED
    BY <2>3, <2>4 DEF ShapeOK, RecordOK, TypeOK, Whole
<1>3. AllInv /\ RecordOK /\ [Next]_vars => RecordOK'
  BY RecordKept DEF AllInv, IInv
<1> QED
  BY <1>1, <1>2, <1>3, Invariance, PTL DEF Spec
=============================================================================
