------------------------- MODULE SlaveClientProofs -------------------------
(***************************************************************************)
(* Proofs about the slave client for buffers of any size: its types, that  *)
(* main is never stuck in recv, and that nothing but a failed set-up or    *)
(* the loss of the master ends it.                                         *)
(***************************************************************************)
EXTENDS SlaveClient, TLAPS

\* What a report said when epoll gave it still holds when it is handled: only
\* main reads, and an ended or reset stream stays so.
ReportHolds ==
  main = "handle" => /\ report # {}
                     /\ "IN" \in report => rx > 0 \/ fin \/ reset
                     /\ IsDisconnect(report) => reset

\* The end of the stream, a reset and its error only come from a closed peer.
LossOfPeer == /\ main = "connect" => peer = "none"
              /\ fin \/ reset => peer = "closed"
              /\ err => reset

IInv == TypeOK /\ ReportHolds /\ LossOfPeer /\ NeverBlocks /\ EndsOnlyWithServer

\* The types are kept by every step.
LEMMA TypeStep == TypeOK /\ [Next]_vars => TypeOK'
<1> SUFFICES ASSUME TypeOK, [Next]_vars PROVE TypeOK'
  OBVIOUS
<1> USE CapsAssumption DEF TypeOK
<1>1. CASE Connect
  BY <1>1 DEF Connect, GiveUp, net
<1>2. CASE CreateSender
  BY <1>2 DEF CreateSender, FlagSet, net
<1>3. CASE AddToEpoll
  BY <1>3 DEF AddToEpoll, GiveUp, net
<1>4. CASE EpollWait
  BY <1>4 DEF EpollWait, Mask, net
<1>5. CASE Leave
  BY <1>5 DEF Leave, net
<1>6. CASE PassOver
  BY <1>6 DEF PassOver, net
<1>7. CASE Read
  <2>1. rx - Taken \in 0..RxCap
    BY DEF Taken
  <2> QED  BY <1>7, <2>1 DEF Read
<1>8. CASE TestFlag
  BY <1>8 DEF TestFlag, net
<1>9. CASE Send
  BY <1>9 DEF Send
<1>10. CASE SendFails
  BY <1>10 DEF SendFails
<1>11. CASE Wake
  BY <1>11 DEF Wake, net
<1>12. CASE Command
  BY <1>12 DEF Command
<1>13. CASE Acknowledge
  BY <1>13 DEF Acknowledge
<1>14. CASE Close
  BY <1>14 DEF Close
<1>15. CASE ResetConnection
  BY <1>15 DEF ResetConnection
<1>16. CASE UNCHANGED vars
  BY <1>16 DEF vars, net
<1> QED
  BY <1>1, <1>2, <1>3, <1>4, <1>5, <1>6, <1>7, <1>8, <1>9, <1>10, <1>11, <1>12,
     <1>13, <1>14, <1>15, <1>16 DEF Next, Main, Sender, Environment

\* The network only ever loses the peer.
LEMMA LossStep == TypeOK /\ LossOfPeer /\ [Next]_vars => LossOfPeer'
<1> SUFFICES ASSUME TypeOK, LossOfPeer, [Next]_vars PROVE LossOfPeer'
  OBVIOUS
<1> USE DEF LossOfPeer
<1>1. CASE Connect
  BY <1>1 DEF Connect, GiveUp, net, TypeOK
<1>2. CASE SendFails
  BY <1>2 DEF SendFails
<1>3. CASE Read
  BY <1>3 DEF Read
<1>4. CASE Close
  BY <1>4 DEF Close
<1>5. CASE ResetConnection
  BY <1>5 DEF ResetConnection
<1>6. CASE CreateSender \/ AddToEpoll
  BY <1>6 DEF CreateSender, AddToEpoll, GiveUp, net
<1>7. CASE EpollWait \/ Leave \/ PassOver
  BY <1>7 DEF EpollWait, Leave, PassOver, net
<1>8. CASE TestFlag \/ Send \/ Wake
  BY <1>8 DEF TestFlag, Send, Wake, net
<1>9. CASE Command \/ Acknowledge
  BY <1>9 DEF Command, Acknowledge
<1>10. CASE UNCHANGED vars
  BY <1>10 DEF vars, net
<1> QED
  BY <1>1, <1>2, <1>3, <1>4, <1>5, <1>6, <1>7, <1>8, <1>9, <1>10
     DEF Next, Main, Sender, Environment

\* A report is made of what holds, and nothing takes that away but main's recv.
LEMMA ReportStep == TypeOK /\ LossOfPeer /\ ReportHolds /\ [Next]_vars => ReportHolds'
<1> SUFFICES ASSUME TypeOK, LossOfPeer, ReportHolds, [Next]_vars PROVE ReportHolds'
  OBVIOUS
<1> USE DEF ReportHolds, IsDisconnect
<1>1. CASE EpollWait
  <2>1. "IN" \in Mask => rx > 0 \/ fin \/ reset
    BY DEF Mask
  <2>2. Mask \cap {"ERR", "HUP"} # {} => reset
    BY DEF Mask, LossOfPeer
  <2> QED  BY <1>1, <2>1, <2>2 DEF EpollWait, net
<1>2. CASE Connect \/ CreateSender \/ AddToEpoll
  BY <1>2 DEF Connect, CreateSender, AddToEpoll, GiveUp
<1>3. CASE Leave \/ PassOver \/ Read
  BY <1>3 DEF Leave, PassOver, Read
<1>4. CASE TestFlag \/ Send \/ SendFails \/ Wake
  BY <1>4 DEF TestFlag, Send, SendFails, Wake, net
<1>5. CASE Command \/ Acknowledge
  BY <1>5, CapsAssumption DEF Command, Acknowledge, TypeOK
<1>6. CASE Close \/ ResetConnection
  BY <1>6 DEF Close, ResetConnection
<1>7. CASE UNCHANGED vars
  BY <1>7 DEF vars, net
<1> QED
  BY <1>1, <1>2, <1>3, <1>4, <1>5, <1>6, <1>7 DEF Next, Main, Sender, Environment

\* main reads only when the report said so, and it still holds.
LEMMA ReadStep == TypeOK /\ ReportHolds /\ NeverBlocks /\ [Next]_vars => NeverBlocks'
<1> SUFFICES ASSUME TypeOK, ReportHolds, NeverBlocks, [Next]_vars PROVE NeverBlocks'
  OBVIOUS
<1> USE DEF NeverBlocks
<1>1. CASE Read
  <2>1. "IN" \in report
    BY <1>1 DEF Read, IsDisconnect, IsWritable, ReportHolds, TypeOK
  <2>2. rx > 0 \/ fin \/ reset
    BY <1>1, <2>1 DEF Read, ReportHolds
  <2> QED  BY <1>1, <2>2 DEF Read, TypeOK
<1>2. CASE Connect \/ CreateSender \/ AddToEpoll
  BY <1>2 DEF Connect, CreateSender, AddToEpoll, GiveUp
<1>3. CASE EpollWait \/ Leave \/ PassOver
  BY <1>3 DEF EpollWait, Leave, PassOver
<1>4. CASE Sender
  BY <1>4 DEF Sender, TestFlag, Send, SendFails, Wake
<1>5. CASE Environment
  BY <1>5 DEF Environment, Command, Acknowledge, Close, ResetConnection
<1>6. CASE UNCHANGED vars
  BY <1>6 DEF vars
<1> QED
  BY <1>1, <1>2, <1>3, <1>4, <1>5, <1>6 DEF Next, Main

\* Both ways to the end, the report of a disconnection and SIGPIPE, come from a reset.
LEMMA EndStep ==
  TypeOK /\ LossOfPeer /\ ReportHolds /\ EndsOnlyWithServer /\ [Next]_vars => EndsOnlyWithServer'
<1> SUFFICES ASSUME TypeOK, LossOfPeer, ReportHolds, EndsOnlyWithServer, [Next]_vars
             PROVE  EndsOnlyWithServer'
  OBVIOUS
<1> USE DEF EndsOnlyWithServer
<1>1. CASE Leave
  BY <1>1 DEF Leave, ReportHolds, LossOfPeer, net
<1>2. CASE SendFails
  BY <1>2 DEF SendFails, LossOfPeer
<1>3. CASE Connect \/ CreateSender \/ AddToEpoll
  BY <1>3 DEF Connect, CreateSender, AddToEpoll, GiveUp
<1>4. CASE EpollWait \/ PassOver \/ Read
  BY <1>4 DEF EpollWait, PassOver, Read
<1>5. CASE TestFlag \/ Send \/ Wake
  BY <1>5 DEF TestFlag, Send, Wake, net
<1>6. CASE Environment
  BY <1>6 DEF Environment, Command, Acknowledge, Close, ResetConnection
<1>7. CASE UNCHANGED vars
  BY <1>7 DEF vars, net
<1> QED
  BY <1>1, <1>2, <1>3, <1>4, <1>5, <1>6, <1>7 DEF Next, Main, Sender

\* The invariant holds in every reachable state.
THEOREM Invariance == Spec => []IInv
<1>1. Init => IInv
  <2> SUFFICES ASSUME Init PROVE IInv
    OBVIOUS
  <2>1. TypeOK
    <3>1. rx \in 0..RxCap /\ tx \in 0..TxCap
      BY CapsAssumption DEF Init
    <3>2. {flag, failed, fin, reset, err, edge, passed} \subseteq BOOLEAN
      BY Zenon DEF Init
    <3> QED  BY <3>1, <3>2 DEF Init, TypeOK
  <2>2. ReportHolds /\ LossOfPeer
    BY DEF Init, ReportHolds, LossOfPeer
  <2>3. NeverBlocks /\ EndsOnlyWithServer
    BY DEF Init, NeverBlocks, EndsOnlyWithServer
  <2> QED  BY <2>1, <2>2, <2>3 DEF IInv
<1>2. IInv /\ [Next]_vars => IInv'
  BY TypeStep, LossStep, ReportStep, ReadStep, EndStep DEF IInv
<1> QED
  BY <1>1, <1>2, PTL DEF Spec

\* Types, for buffers of any size.
THEOREM TypeCorrect == Spec => []TypeOK
BY Invariance, PTL DEF IInv

\* main is never stuck in recv, for buffers of any size.
THEOREM RecvNeverBlocks == Spec => []NeverBlocks
BY Invariance, PTL DEF IInv

\* Only a failed set-up or the loss of the master ends the program.
THEOREM EndOnlyWithServer == Spec => []EndsOnlyWithServer
BY Invariance, PTL DEF IInv
=============================================================================
