-------------------------- MODULE IotcDaemonProofs --------------------------
(***************************************************************************)
(* Proofs about the daemon as a whole, for any number of connections,      *)
(* messages, descriptors and devices: what it does to the state of a       *)
(* component is what that component does alone, so that the invariants     *)
(* proved of the components hold in the daemon, and from these follow the  *)
(* properties of the places where the components meet.                     *)
(***************************************************************************)
EXTENDS IotcDaemon, TLAPS

\* The components with what is proved of them.
SP == INSTANCE SocketServerProofs
EP == INSTANCE EventSlotProofs
RP == INSTANCE DeviceRegistryProofs WITH Fds <- Fds \cup {0}

\* The assumptions of the components hold of the constants of the daemon.
LEMMA ComponentAssumptions ==
    /\ Fds \subseteq Nat \ {0} /\ Listen \in Nat \ Fds
    /\ Resettable \subseteq Conns
    /\ {Parts, MaxEvents, RecvCap, CountMod} \subseteq Nat \ {0}
    /\ Exit # Empty /\ Exit \notin Posts /\ Empty \notin Posts
    /\ KnownIds \cap OtherIds = {} /\ MaxDescs \in Nat /\ U8Size \in Nat \ {0}
BY DaemonAssumption

-----------------------------------------------------------------------------
(* The specification of a component is the one its proofs are about.       *)

\* What the server reads of its sockets.
LEMMA ServerReads ==
    /\ \A c : Server!Readable(c) <=> SP!Readable(c)
    /\ \A c : Server!Received(c) = SP!Received(c) /\ Server!Rest(c) = SP!Rest(c)
    /\ \A c : Server!Text(c) = SP!Text(c)
    /\ \A t : Server!Parsed(t) = SP!Parsed(t)
    /\ Server!FreeFds = SP!FreeFds
    /\ Server!Ready = SP!Ready
    /\ \A B : Server!Named(B) = SP!Named(B)
<1> USE DEF Server!Readable, SP!Readable, Server!Received, SP!Received, Server!Rest, SP!Rest,
            Server!Overwritten, SP!Overwritten, Server!Text, SP!Text, Server!Parsed, SP!Parsed,
            Server!Unreadable, SP!Unreadable, Server!FreeFds, SP!FreeFds, Server!Open, SP!Open
<1>1. \A c : Server!Readable(c) <=> SP!Readable(c)
  OBVIOUS
<1>2. \A c : Server!Received(c) = SP!Received(c) /\ Server!Rest(c) = SP!Rest(c)
  OBVIOUS
<1>3. \A c : Server!Text(c) = SP!Text(c)
  OBVIOUS
<1>4. \A t : Server!Parsed(t) = SP!Parsed(t)
  OBVIOUS
<1>5. Server!FreeFds = SP!FreeFds
  OBVIOUS
<1> HIDE DEF Server!Readable, SP!Readable
<1>6. Server!Ready = SP!Ready
  BY <1>1 DEF Server!Ready, SP!Ready, Server!Backlog, SP!Backlog
<1>7. \A B : Server!Named(B) = SP!Named(B)
  BY DEF Server!Named, SP!Named
<1> QED  BY <1>1, <1>2, <1>3, <1>4, <1>5, <1>6, <1>7

LEMMA SameServer == Server!Spec => SP!Spec
<1>1. /\ \A c : Server!Readable(c) <=> SP!Readable(c)
      /\ \A c : Server!Received(c) = SP!Received(c) /\ Server!Rest(c) = SP!Rest(c)
      /\ \A c : Server!Text(c) = SP!Text(c)
      /\ \A t : Server!Parsed(t) = SP!Parsed(t)
      /\ Server!FreeFds = SP!FreeFds
      /\ Server!Ready = SP!Ready
      /\ \A B : Server!Named(B) = SP!Named(B)
  BY ServerReads
<1>2. \A S : Server!Cardinality(S) = SP!Cardinality(S)
  BY DEF Server!Cardinality, SP!Cardinality
<1>3. \A e, c : Server!RecvData(e, c) => SP!RecvData(e, c)
  <2> SUFFICES ASSUME NEW e, NEW c, Server!RecvData(e, c) PROVE SP!RecvData(e, c)
    OBVIOUS
  <2>1. Server!Range(Server!Text(c)) = SP!Range(SP!Text(c))
    BY <1>1 DEF Server!Range, SP!Range
  <2>2. mixed' = IF \E p \in SP!Range(SP!Text(c)) : p.from # c
                 THEN mixed \cup {SP!Parsed(SP!Text(c))} ELSE mixed
    BY <1>1, <2>1 DEF Server!RecvData
  <2> QED
    BY <1>1, <2>2 DEF Server!RecvData, SP!RecvData, Server!Receive, SP!Receive,
       Server!threadVars, SP!threadVars
<1>4. \A c, m :
       /\ Server!Connect(c) => SP!Connect(c)
       /\ Server!CloseByPeer(c) => SP!CloseByPeer(c)
       /\ Server!ResetByPeer(c) => SP!ResetByPeer(c)
       /\ Server!DeliverMore(c) => SP!DeliverMore(c)
       /\ Server!Send(c, m) => SP!Send(c, m)
  <2> USE DEF Server!CanSend, SP!CanSend, Server!Arrives, SP!Arrives, Server!serverVars, SP!serverVars,
              Server!listVars, SP!listVars, Server!outVars, SP!outVars, Server!textVars, SP!textVars,
              Server!threadVars, SP!threadVars
  <2>1. \A c, m : (Server!Connect(c) => SP!Connect(c)) /\ (Server!CloseByPeer(c) => SP!CloseByPeer(c))
    BY DEF Server!Connect, SP!Connect, Server!CloseByPeer, SP!CloseByPeer, Server!peerVars, SP!peerVars
  <2>2. \A c : Server!ResetByPeer(c) => SP!ResetByPeer(c)
    BY DEF Server!ResetByPeer, SP!ResetByPeer
  <2>3. \A c, flow : Server!Deliver(c, flow) <=> SP!Deliver(c, flow)
    BY DEF Server!Deliver, SP!Deliver
  <2>4. \A c, m : (Server!DeliverMore(c) => SP!DeliverMore(c)) /\ (Server!Send(c, m) => SP!Send(c, m))
    BY <2>3 DEF Server!DeliverMore, SP!DeliverMore, Server!Send, SP!Send, Server!PartsOf, SP!PartsOf
  <2> QED  BY <2>1, <2>2, <2>4
<1>5. /\ Server!Start => SP!Start
      /\ Server!StartFails => SP!StartFails
      /\ Server!Test => SP!Test
      /\ Server!Enter => SP!Enter
      /\ Server!EndBatch => SP!EndBatch
      /\ Server!Posted => SP!Posted
      /\ Server!Done => SP!Done
  BY <1>1, <1>2 DEF Server!Start, SP!Start, Server!StartFails, SP!StartFails, Server!Test, SP!Test,
     Server!Enter, SP!Enter, Server!EndBatch, SP!EndBatch, Server!Posted, SP!Posted,
     Server!Done, SP!Done, Server!sockVars, SP!sockVars, Server!outVars, SP!outVars,
     Server!GoesOn, SP!GoesOn, Server!textVars, SP!textVars, Server!SocketClientListFree,
     SP!SocketClientListFree, Server!peerVars, SP!peerVars, Server!listVars, SP!listVars
<1>6. \A e, c :
       /\ Server!Accept(e, c) => SP!Accept(e, c)
       /\ Server!AcceptThenDie(e, c) => SP!AcceptThenDie(e, c)
  BY <1>1, <1>2 DEF Server!Accept, SP!Accept, Server!AcceptThenDie, SP!AcceptThenDie, Server!AcceptFrom,
     SP!AcceptFrom, Server!LeaveBatch, SP!LeaveBatch, Server!peerVars, SP!peerVars,
     Server!textVars, SP!textVars, Server!threadVars, SP!threadVars, Server!outVars,
     SP!outVars, Server!Backlog, SP!Backlog, Server!SocketClientNew, SP!SocketClientNew,
     Server!Cleared, SP!Cleared
<1>7. \A e, c :
       /\ Server!SkipError(e) => SP!SkipError(e)
       /\ Server!AcceptFails(e) => SP!AcceptFails(e)
       /\ Server!RecvError(e, c) => SP!RecvError(e, c)
       /\ Server!RecvEof(e, c) => SP!RecvEof(e, c)
       /\ Server!RecvThenDie(e, c) => SP!RecvThenDie(e, c)
  BY <1>1, <1>2 DEF Server!SkipError, SP!SkipError, Server!AcceptFails, SP!AcceptFails, Server!RecvError,
     SP!RecvError, Server!RecvEof, SP!RecvEof, Server!RecvThenDie, SP!RecvThenDie,
     Server!IsError, SP!IsError, Server!sockVars, SP!sockVars, Server!outVars, SP!outVars,
     Server!threadVars, SP!threadVars, Server!NewNodeUnlinked, SP!NewNodeUnlinked,
     Server!peerVars, SP!peerVars, Server!AtEnd, SP!AtEnd, Server!Unlink, SP!Unlink,
     Server!CountDown, SP!CountDown, Server!textVars, SP!textVars, Server!Receive,
     SP!Receive, Server!listVars, SP!listVars
<1>8. /\ Server!Quit => SP!Quit
      /\ Server!SetStopped => SP!SetStopped
      /\ Server!Kill => SP!Kill
      /\ Server!Join => SP!Join
  BY <1>1, <1>2 DEF Server!Quit, SP!Quit, Server!SetStopped, SP!SetStopped, Server!Kill, SP!Kill,
     Server!Join, SP!Join, Server!Interrupted, SP!Interrupted, Server!sockVars,
     SP!sockVars, Server!outVars, SP!outVars, Server!Over, SP!Over,
     Server!SocketClientListFree, SP!SocketClientListFree, Server!peerVars, SP!peerVars,
     Server!listVars, SP!listVars, Server!textVars, SP!textVars
<1>9. Server!EpollWait => SP!EpollWait
  BY <1>1, <1>2 DEF Server!EpollWait, SP!EpollWait, Server!peerVars, SP!peerVars,
     Server!listVars, SP!listVars, Server!outVars, SP!outVars, Server!textVars, SP!textVars
<1>10. Server!Next => SP!Next
  <2>1. (\E c \in Conns : Server!Peer(c)) => \E c \in Conns : SP!Peer(c)
    BY <1>4 DEF Server!Peer, SP!Peer
  <2>2. \A e : Server!Serve(e) => SP!Serve(e)
    BY <1>3, <1>6, <1>7 DEF Server!Serve, SP!Serve, Server!ServeClient, SP!ServeClient,
       Server!IsError, SP!IsError
  <2>3. Server!Loop => SP!Loop
    BY <1>5, <1>9, <2>2 DEF Server!Loop, SP!Loop
  <2>4. Server!Fail => SP!Fail
    BY <1>1, <1>5, <1>6, <1>7 DEF Server!Fail, SP!Fail, Server!IsError, SP!IsError
  <2>5. (Server!Quit => SP!Quit) /\ (Server!Stop => SP!Stop)
    BY <1>8 DEF Server!Stop, SP!Stop
  <2> QED  BY <2>1, <2>3, <2>4, <2>5 DEF Server!Next, SP!Next
<1>11. Server!Init => SP!Init
  BY DEF Server!Init, SP!Init, Server!Listening, SP!Listening, Server!NoFd, SP!NoFd
<1>12. UNCHANGED Server!vars => UNCHANGED SP!vars
  BY DEF Server!vars, SP!vars, Server!sockVars, SP!sockVars, Server!peerVars, SP!peerVars,
     Server!listVars, SP!listVars, Server!outVars, SP!outVars, Server!textVars, SP!textVars,
     Server!threadVars, SP!threadVars
<1> QED  BY <1>10, <1>11, <1>12, PTL DEF Server!Spec, SP!Spec

LEMMA SameSlot == Slot!Spec => EP!Spec
<1>1. (Slot!Init => EP!Init) /\ (Slot!Next => EP!Next)
  BY DEF Slot!Next, EP!Next, Slot!Init, EP!Init, Slot!EventKinds, EP!EventKinds,
        Slot!Call, EP!Call, Slot!PostStep, EP!PostStep, Slot!Consumers, EP!Consumers,
        Slot!ConsumerStep, EP!ConsumerStep, Slot!SpuriousWakeup, EP!SpuriousWakeup,
        Slot!BeginShutdown, EP!BeginShutdown, Slot!Finish, EP!Finish, Slot!Ended,
        EP!Ended, Slot!slotVars, EP!slotVars, Slot!consumerVars, EP!consumerVars,
        Slot!mainVars, EP!mainVars, Slot!Post, EP!Post, Slot!SignalData, EP!SignalData,
        Slot!Start, EP!Start, Slot!Test, EP!Test, Slot!Wait, EP!Wait, Slot!Receive,
        EP!Receive, Slot!Handle, EP!Handle, Slot!postVars, EP!postVars,
        Slot!StopConsumer, EP!StopConsumer, Slot!PostExit, EP!PostExit,
        Slot!SignalExit, EP!SignalExit, Slot!Join, EP!Join, Slot!vars, EP!vars,
        Slot!Broadcast, EP!Broadcast, Slot!SetRunning, EP!SetRunning,
        Slot!DropMalformed, EP!DropMalformed, Slot!SeeExit, EP!SeeExit, Slot!PassOver,
        EP!PassOver, Slot!Take, EP!Take, Slot!IsMalformed, EP!IsMalformed,
        Slot!Release, EP!Release, Slot!IsExit, EP!IsExit, Slot!IsOwn, EP!IsOwn,
        Slot!OwnKind, EP!OwnKind
<1>2. UNCHANGED Slot!vars => UNCHANGED EP!vars
  BY DEF Slot!vars, EP!vars, Slot!slotVars, EP!slotVars, Slot!postVars, EP!postVars,
     Slot!consumerVars, EP!consumerVars, Slot!mainVars, EP!mainVars
<1> QED  BY <1>1, <1>2, PTL DEF Slot!Spec, EP!Spec

LEMMA SameRegistry == Registry!Spec => RP!Spec
<1>1. (Registry!Init => RP!Init) /\ (Registry!Next => RP!Next)
  BY DEF Registry!Next, RP!Next, Registry!Init, RP!Init, Registry!Reports, RP!Reports,
        Registry!BeginReport, RP!BeginReport, Registry!AddNext, RP!AddNext,
        Registry!RemoveSocket, RP!RemoveSocket, Registry!Remove, RP!Remove,
        Registry!Finished, RP!Finished, Registry!Descriptors, RP!Descriptors,
        Registry!Accepted, RP!Accepted, Registry!regVars, RP!regVars,
        Registry!AddExisting, RP!AddExisting, Registry!AddNoMemory, RP!AddNoMemory,
        Registry!AddNoService, RP!AddNoService, Registry!AddNew, RP!AddNew,
        Registry!RemoveAll, RP!RemoveAll, Registry!Ids, RP!Ids,
        Registry!NextDescriptor, RP!NextDescriptor, Registry!Exists, RP!Exists,
        Registry!KnownToSocket, RP!KnownToSocket, Registry!Filled, RP!Filled,
        Registry!Unlink, RP!Unlink, Registry!FreeNodes, RP!FreeNodes,
        Registry!ServiceFor, RP!ServiceFor
<1>2. UNCHANGED Registry!vars => UNCHANGED RP!vars
  BY DEF Registry!vars, RP!vars, Registry!regVars, RP!regVars, Registry!reportVars, RP!reportVars
<1> QED  BY <1>1, <1>2, PTL DEF Registry!Spec, RP!Spec

-----------------------------------------------------------------------------
(* The daemon implements its components.                                   *)

\* A step of the daemon is one of the server, of main with it, or of a peer, or
\* leaves them alone.
LEMMA ServerSteps == ASSUME [Next]_vars PROVE [Server!Next]_(Server!vars)
<1>1. UNCHANGED serverVars => UNCHANGED Server!vars
  BY DEF serverVars, Server!vars, Server!sockVars, Server!peerVars, Server!listVars,
     Server!outVars, Server!textVars, Server!threadVars
<1>2. CASE UNCHANGED vars \/ Boot \/ BootFails \/ PostStep \/ ConsumerSteps \/ StopNetwork \/ StopConsumers
  BY <1>1, <1>2 DEF vars, Boot, BootFails, PostStep, ConsumerSteps, TakeByNet, AddNext, HandleByNet,
     OtherConsumerStep, StopNetwork, StopConsumers
<1>3. CASE PeerStep \/ ServerStep \/ StopServer
  BY <1>3 DEF PeerStep, ServerStep, StopServer, Server!Next
<1> QED  BY <1>2, <1>3 DEF Next

\* What the daemon does with its sockets is what the TCP side does alone (socket_server.c).
THEOREM DaemonRunsServer == Spec => Server!Spec
<1>1. Init => Server!Init
  BY DEF Init
<1> QED  BY <1>1, ServerSteps, PTL DEF Spec, Server!Spec

LEMMA ServerInv == Spec => []SP!AllInv
BY DaemonRunsServer, SameServer, SP!Invariance, ComponentAssumptions, PTL

\* A step of the server begins at most one posting call, of a message or of the
\* end of a connection.
LEMMA SlotSteps == ASSUME [Next]_vars PROVE [Slot!Next]_(Slot!vars)
<1>1. UNCHANGED slotVars => UNCHANGED Slot!vars
  BY DEF slotVars, Slot!vars, Slot!slotVars, Slot!postVars, Slot!consumerVars, Slot!mainVars
<1>2. CASE UNCHANGED vars \/ Boot \/ BootFails \/ PeerStep \/ AddNext \/ StopServer
  BY <1>1, <1>2 DEF vars, Boot, BootFails, PeerStep, AddNext, StopServer
<1>3. CASE ServerStep
  <2>1. CASE Quiet
    BY <2>1, <1>1 DEF Quiet
  <2>2. ASSUME NEW m \in Msgs, Dispatch(m) PROVE Slot!Next
    BY <2>2, DaemonAssumption DEF Dispatch, Slot!Next, Posts
  <2>3. ASSUME NEW c \in Conns, Disconnect(c) PROVE Slot!Next
    BY <2>3 DEF Disconnect, DisconnectKind, Slot!Next, Slot!EventKinds, Posts
  <2> QED  BY <1>3, <2>1, <2>2, <2>3 DEF ServerStep
<1>4. CASE PostStep \/ TakeByNet \/ HandleByNet \/ OtherConsumerStep
  BY <1>4 DEF PostStep, TakeByNet, HandleByNet, OtherConsumerStep, Created, Slot!Next,
     Slot!ConsumerStep, Slot!Receive, Slot!Consumers
<1>5. CASE StopNetwork \/ StopConsumers
  BY <1>5 DEF StopNetwork, StopConsumers, Slot!Next
<1> QED  BY <1>2, <1>3, <1>4, <1>5 DEF Next, ConsumerSteps

\* What the daemon does with the exchange is what the exchange does alone
\* (socket_server.h:98).
THEOREM DaemonRunsSlot == Spec => Slot!Spec
<1>1. Init => Slot!Init
  BY DEF Init
<1> QED  BY <1>1, SlotSteps, PTL DEF Spec, Slot!Spec

LEMMA SlotInv == Spec => []EP!IInv
BY DaemonRunsSlot, SameSlot, EP!Invariance, ComponentAssumptions, PTL

\* The copies of a client carry a descriptor of a client, or none.
FdCopies == evFd \in [Posts -> Fds \cup {0}]

LEMMA FdCopiesInv == Spec => []FdCopies
<1>1. Init => FdCopies
  BY DEF Init, FdCopies
<1>2. FdCopies /\ SP!AllInv /\ [Next]_vars => FdCopies'
  <2> SUFFICES ASSUME FdCopies, SP!AllInv, [Next]_vars PROVE FdCopies'
    OBVIOUS
  <2>1. cfd \in [Conns -> Fds \cup {0}] /\ clients \subseteq Conns
    BY DEF SP!AllInv, SP!IInv, SP!ShapeOK, SP!NoFd
  <2>2. CASE ServerStep
    BY <2>1, <2>2 DEF ServerStep, Quiet, Dispatch, Disconnect, CopiedFd, FdCopies
  <2>3. CASE ~ServerStep
    BY <2>3 DEF FdCopies, Next, vars, Boot, BootFails, PeerStep, PostStep, ConsumerSteps, TakeByNet,
       AddNext, HandleByNet, OtherConsumerStep, StopServer, StopNetwork, StopConsumers
  <2> QED  BY <2>2, <2>3
<1> QED  BY <1>1, <1>2, ServerInv, PTL DEF Spec

\* The device list is changed by the handlers of the network thread and by main.
LEMMA RegistrySteps ==
    ASSUME FdCopies, EP!IInv, [Next]_vars
    PROVE  [Registry!Next]_(Registry!vars)
<1>1. UNCHANGED registryVars => UNCHANGED Registry!vars
  BY DEF registryVars, Registry!vars, Registry!regVars, Registry!reportVars
<1>2. CASE \/ UNCHANGED vars \/ Boot \/ BootFails \/ PeerStep \/ ServerStep \/ PostStep
           \/ OtherConsumerStep \/ StopServer \/ StopConsumers
  BY <1>1, <1>2 DEF vars, Boot, BootFails, PeerStep, ServerStep, PostStep, OtherConsumerStep,
     StopServer, StopConsumers
<1>3. CASE TakeByNet
  <2>1. CASE IsReport(slot)
    <3>1. Content[slot].descs \in Registry!Reports /\ evFd[slot] \in Fds \cup {0}
      BY <2>1, DaemonAssumption DEF IsReport, FdCopies, Posts
    <3>2. Registry!BeginReport(evFd[slot], Content[slot].descs)
      BY <1>3, <2>1 DEF TakeByNet, EventFd
    <3> QED  BY <3>1, <3>2 DEF Registry!Next
  <2> QED  BY <1>1, <1>3, <2>1 DEF TakeByNet
<1>4. CASE HandleByNet
  <2>1. current["net"] \in Msgs => evFd[current["net"]] \in Fds \cup {0}
    BY DEF FdCopies, Posts
  <2> QED  BY <1>1, <1>4, <2>1 DEF HandleByNet, Registry!Next
<1>5. CASE AddNext \/ StopNetwork
  BY <1>5 DEF AddNext, StopNetwork, Registry!Next
<1> QED  BY <1>2, <1>3, <1>4, <1>5 DEF Next, ConsumerSteps

\* What the daemon does with the device list is what the list does alone
\* (iotc_devices.c).
THEOREM DaemonRunsRegistry == Spec => Registry!Spec
<1>1. Init => Registry!Init
  BY DEF Init, Registry!Init
<1>2. FdCopies /\ EP!IInv /\ [Next]_vars => [Registry!Next]_(Registry!vars)
  BY RegistrySteps
<1> QED  BY <1>1, <1>2, FdCopiesInv, SlotInv, PTL DEF Spec, Registry!Spec

LEMMA RegistryInv == Spec => []RP!IInv
BY DaemonRunsRegistry, SameRegistry, RP!Invariance, ComponentAssumptions, PTL

-----------------------------------------------------------------------------
(* The order of the shutdown.                                              *)

\* Once main has joined the server thread, the thread stays ended; main stops the
\* other threads only then.
GoneInv == /\ main = "joined" => Server!Over
           /\ mpc # "run" => main = "joined"

\* The server thread works until it has ended, and starts posting threads only.
LEMMA ThreadStep ==
    ASSUME ServerStep
    PROVE  ~Server!Over /\ main' = main /\ dispatched \subseteq dispatched'
BY DEF ServerStep, Server!Loop, Server!Fail, Server!Start, Server!StartFails, Server!Test,
   Server!Enter, Server!EpollWait, Server!EndBatch, Server!Posted, Server!Done, Server!Serve,
   Server!SkipError, Server!Accept, Server!AcceptFails, Server!ServeClient, Server!RecvData,
   Server!RecvError, Server!RecvEof, Server!AcceptThenDie, Server!RecvThenDie, Server!threadVars,
   Server!textVars, Server!outVars, Server!Over

LEMMA GoneKept == GoneInv /\ [Next]_vars => GoneInv'
<1> SUFFICES ASSUME GoneInv, [Next]_vars PROVE GoneInv'
  OBVIOUS
<1> USE DEF GoneInv, Server!Over
<1>1. CASE PeerStep
  <2>1. UNCHANGED <<main, spc, mpc>>
    BY <1>1 DEF PeerStep, slotVars, Server!Peer, Server!Connect, Server!CloseByPeer, Server!ResetByPeer,
       Server!Send, Server!DeliverMore, Server!serverVars, Server!threadVars
  <2> QED  BY <2>1
<1>2. CASE ServerStep
  <2>1. mpc' = mpc /\ (mpc' # "run" => Quiet)
    BY <1>2 DEF ServerStep, Quiet, Dispatch, Disconnect, Slot!Call, Slot!mainVars, slotVars
  <2>2. main' = main /\ ~Server!Over
    BY <1>2, ThreadStep
  <2> QED  BY <2>1, <2>2
<1>3. CASE StopServer
  BY <1>3 DEF StopServer, Server!Quit, Server!Stop, Server!SetStopped, Server!Kill, Server!Join,
     Server!Interrupted, slotVars
<1>4. CASE StopNetwork
  BY <1>4 DEF StopNetwork, ServerJoined, serverVars
<1>5. CASE PostStep \/ ConsumerSteps \/ StopConsumers
  <2>1. UNCHANGED <<main, spc>>
    BY <1>5 DEF PostStep, ConsumerSteps, StopConsumers, TakeByNet, AddNext, HandleByNet,
       OtherConsumerStep, serverVars
  <2>2. mpc # "run" \/ mpc' = mpc
    BY <1>5 DEF PostStep, ConsumerSteps, StopConsumers, TakeByNet, AddNext, HandleByNet,
       OtherConsumerStep, slotVars, Slot!PostStep, Slot!Post, Slot!SignalData, Slot!Take, Slot!Handle,
       Slot!Start, Slot!Test, Slot!Wait, Slot!DropMalformed, Slot!SeeExit, Slot!PassOver,
       Slot!SpuriousWakeup, Slot!mainVars, Slot!Finish, Slot!StopConsumer, Slot!PostExit,
       Slot!SignalExit, Slot!Join, Slot!Ended
  <2> QED  BY <2>1, <2>2
<1>6. CASE Boot \/ BootFails \/ UNCHANGED vars
  BY <1>6 DEF Boot, BootFails, vars, serverVars, slotVars
<1> QED  BY <1>1, <1>2, <1>3, <1>4, <1>5, <1>6 DEF Next

LEMMA GoneAlways == Spec => []GoneInv
<1>1. Init => GoneInv
  BY DEF Init, Server!Init, Slot!Init, GoneInv
<1> QED  BY <1>1, GoneKept, PTL DEF Spec

-----------------------------------------------------------------------------
(* The end of a connection and its descriptor.                             *)

\* A call of SocketClientDestory is on its way to or from the exchange.
Posting(c) == post[c] \in {"lock", "signal"}

\* While the event of a lost client is being posted, the server thread is about
\* nothing else, and no connection has the descriptor of the client.
WaitInv ==
    \A c \in Conns :
        Posting(c) => /\ spc = "post" /\ c \in posting
                      /\ \A d \in Server!Open : cfd[d] # evFd[c]

\* Only a recv that returned 0 lets the event of a connection be posted.
LEMMA LostByEof ==
    ASSUME SP!ShapeOK, ServerStep, NEW c \in Conns, Disconnect(c)
    PROVE  spc = "batch" /\ \E e \in batch : Server!RecvEof(e, c)
<1>1. conn \in [Conns -> {"none", "backlog", "open", "closed"}]
  BY DEF SP!ShapeOK
<1>2. conn[c] = "open" /\ conn'[c] = "closed"
  BY DEF Disconnect
<1>3. conn' # conn
  BY <1>2
<1>4. ~Server!Done
  BY <1>1, <1>2 DEF Server!Done
<1>5. \A e, d : ~Server!AcceptFrom(e, d)
  BY <1>1, <1>2 DEF Server!AcceptFrom
<1>6. /\ ~(Server!Start \/ Server!Test \/ Server!Enter \/ Server!EpollWait \/ Server!EndBatch)
      /\ ~(Server!Posted \/ Server!StartFails)
      /\ \A e, d : ~(Server!SkipError(e) \/ Server!AcceptFails(e) \/ Server!RecvData(e, d)
                     \/ Server!RecvError(e, d) \/ Server!RecvThenDie(e, d))
  BY <1>3 DEF Server!Start, Server!StartFails, Server!Test, Server!Enter, Server!EpollWait,
     Server!EndBatch, Server!Posted, Server!SkipError, Server!AcceptFails, Server!RecvData,
     Server!RecvError, Server!RecvThenDie, Server!sockVars
<1>7. spc = "batch" /\ \E e \in batch : Server!ServeClient(e)
  BY <1>4, <1>5, <1>6 DEF ServerStep, Server!Loop, Server!Fail, Server!Serve, Server!Accept,
     Server!AcceptThenDie
<1>8. \A e, d : Server!RecvEof(e, d) => d = c
  BY <1>1, <1>2 DEF Server!RecvEof
<1> QED  BY <1>6, <1>7, <1>8 DEF Server!ServeClient

\* Only posting calls and the server thread, which begins them, change where the calls are.
LEMMA ConsumersPostNothing ==
    ConsumerSteps \/ StopNetwork \/ StopConsumers \/ Boot \/ BootFails \/ UNCHANGED vars => post' = post
BY DEF ConsumerSteps, TakeByNet, AddNext, HandleByNet, OtherConsumerStep, StopNetwork, StopConsumers,
   Boot, BootFails, vars, slotVars, Slot!Take, Slot!Handle, Slot!Start, Slot!Test, Slot!Wait,
   Slot!DropMalformed, Slot!SeeExit, Slot!PassOver, Slot!SpuriousWakeup, Slot!postVars, Slot!Finish,
   Slot!StopConsumer, Slot!PostExit, Slot!SignalExit, Slot!Join, Slot!Ended, Slot!vars,
   Slot!BeginShutdown

LEMMA WaitKept == ASSUME SP!AllInv, EP!IInv, FdCopies, WaitInv, [Next]_vars PROVE WaitInv'
<1> USE DEF Posting
<1>1. SP!ShapeOK /\ SP!FdInv /\ post \in [Posts -> {"idle", "lock", "signal", "done"}] /\ Conns \subseteq Posts
  BY DEF SP!AllInv, SP!IInv, EP!IInv, EP!TypeOK, Posts
<1>2. CASE ServerStep
  <2>1. \A c \in Conns : ~Posting(c)
    BY <1>2 DEF ServerStep, PostDone, WaitInv
  <2>2. CASE Quiet
    BY <2>1, <2>2 DEF Quiet, slotVars, WaitInv
  <2>3. ASSUME NEW m \in Msgs, Dispatch(m) PROVE WaitInv'
    <3>1. m \notin Conns /\ post' = [post EXCEPT ![m] = "lock"]
      BY <2>3, DaemonAssumption DEF Dispatch, Slot!Call
    <3> QED  BY <1>1, <2>1, <3>1 DEF WaitInv
  <2>4. ASSUME NEW c \in Conns, Disconnect(c) PROVE WaitInv'
    <3>1. PICK e \in batch : Server!RecvEof(e, c)
      BY <1>1, <1>2, <2>4, LostByEof
    <3>2. post' = [post EXCEPT ![c] = "lock"] /\ evFd' = [evFd EXCEPT ![c] = cfd[c]]
      BY <2>4 DEF Disconnect, CopiedFd, Slot!Call
    <3>3. spc' = "post" /\ posting' = {c} /\ cfd' = cfd
      BY <3>1 DEF Server!RecvEof
    <3>4. \A d \in Server!Open' : d \in Server!Open /\ d # c
      <4>1. conn' = [conn EXCEPT ![c] = "closed"] /\ conn \in [Conns -> {"none", "backlog", "open", "closed"}]
        BY <1>1, <3>1 DEF SP!ShapeOK, Server!RecvEof
      <4> QED  BY <4>1 DEF Server!Open
    <3>5. \A d \in Server!Open' : cfd[d] # cfd[c]
      BY <1>1, <2>4, <3>4 DEF Disconnect, SP!FdInv, SP!Open, Server!Open
    <3>6. evFd'[c] = cfd[c] /\ \A d \in Conns : Posting(d)' => d = c
      BY <1>1, <2>1, <3>2 DEF FdCopies
    <3> QED  BY <3>3, <3>5, <3>6 DEF WaitInv
  <2> QED  BY <1>2, <2>2, <2>3, <2>4 DEF ServerStep
<1>3. CASE PeerStep
  <2>1. UNCHANGED <<post, evFd, spc, posting, cfd>>
    BY <1>3 DEF PeerStep, slotVars, Server!Peer, Server!Connect, Server!CloseByPeer, Server!ResetByPeer,
       Server!Send, Server!DeliverMore, Server!serverVars, Server!threadVars, Server!outVars
  <2>2. Server!Open' \subseteq Server!Open
    BY <1>1, <1>3 DEF PeerStep, Server!Peer, Server!Connect, Server!CloseByPeer, Server!ResetByPeer,
       Server!Send, Server!DeliverMore, Server!serverVars, Server!Open, SP!ShapeOK
  <2> QED  BY <2>1, <2>2 DEF WaitInv
<1>4. CASE StopServer
  <2>1. UNCHANGED <<post, evFd, posting, cfd, conn>> /\ (spc = "post" => spc' = "post")
    BY <1>4 DEF StopServer, slotVars, Server!Quit, Server!Stop, Server!SetStopped, Server!Kill,
       Server!Join, Server!Interrupted, Server!Over, Server!sockVars, Server!outVars
  <2> QED  BY <2>1 DEF WaitInv, Server!Open
<1>5. CASE PostStep
  <2>1. UNCHANGED <<evFd, posting, cfd, conn, spc>>
    BY <1>5 DEF PostStep, serverVars
  <2>2. \A c \in Conns : Posting(c)' => Posting(c)
    BY <1>1, <1>5 DEF PostStep, Slot!PostStep, Slot!Post, Slot!SignalData
  <2> QED  BY <2>1, <2>2 DEF WaitInv, Server!Open
<1>6. CASE ConsumerSteps \/ StopNetwork \/ StopConsumers \/ Boot \/ BootFails \/ UNCHANGED vars
  <2>1. UNCHANGED <<evFd, posting, cfd, conn, spc>>
    BY <1>6 DEF ConsumerSteps, TakeByNet, AddNext, HandleByNet, OtherConsumerStep, StopNetwork,
       StopConsumers, Boot, BootFails, vars, serverVars
  <2>2. post' = post
    BY <1>6, ConsumersPostNothing
  <2> QED  BY <2>1, <2>2 DEF WaitInv, Server!Open
<1> QED  BY <1>2, <1>3, <1>4, <1>5, <1>6 DEF Next

LEMMA WaitAlways == Spec => []WaitInv
<1>1. Init => WaitInv
  BY DEF Init, Slot!Init, WaitInv, Posting, Posts
<1>2. SP!AllInv /\ EP!IInv /\ FdCopies /\ WaitInv /\ [Next]_vars => WaitInv'
  BY WaitKept
<1> QED  BY <1>1, <1>2, ServerInv, SlotInv, FdCopiesInv, PTL DEF Spec

\* The event of a lost client is in the exchange before another connection has its
\* descriptor (socket_server.c:227), for any number of connections and descriptors.
THEOREM EventBeforeReuse == Spec => []PostedBeforeReuse
<1>1. WaitInv => PostedBeforeReuse
  BY DEF WaitInv, Posting, PostedBeforeReuse
<1> QED  BY <1>1, WaitAlways, PTL

\* When main begins to stop the threads that serve the exchange, every disconnect event
\* has been posted (main.c:131), for any number of connections: the thread that posts
\* them was joined, and it does not end while it posts.
THEOREM AllDisconnectsPosted == Spec => []DisconnectsPosted
<1>1. EP!IInv /\ GoneInv /\ WaitInv => DisconnectsPosted
  <2> SUFFICES ASSUME EP!IInv, GoneInv, WaitInv, mpc # "run", NEW c \in Conns
               PROVE  post[c] \in {"idle", "done"}
    BY DEF DisconnectsPosted
  <2>1. post[c] \in {"idle", "lock", "signal", "done"}
    BY DEF EP!IInv, EP!TypeOK, Posts
  <2>2. spc # "post"
    BY DEF GoneInv, Server!Over
  <2> QED  BY <2>1, <2>2 DEF WaitInv, Posting
<1> QED  BY <1>1, SlotInv, GoneAlways, WaitAlways, PTL

-----------------------------------------------------------------------------
(* Where listed devices come from.                                         *)

\* A message that is being posted was handed to a thread of its own, with the descriptor
\* of a client.
CopyInv == \A m \in Msgs : post[m] # "idle" => <<m>> \in dispatched /\ evFd[m] # 0

\* The network thread took the report m, which came in by the descriptor f.
TakenReport(m, f) == handler[m] = "net" /\ IsReport(m) /\ f = evFd[m]

Names(m, i) == \E j \in DOMAIN Content[m].descs : Content[m].descs[j].index = i

\* What is listed, and what is left of the report the thread works on, was named by a
\* message that came in by the descriptor it is listed with.
SourceInv ==
    /\ \A n \in listed : \E m \in Msgs : TakenReport(m, dev[n].fd) /\ Names(m, dev[n].index)
    /\ todo # << >> =>
          \E m \in Msgs : TakenReport(m, fd) /\ \A i \in DOMAIN todo : Names(m, todo[i].index)

LEMMA CopyKept == ASSUME SP!AllInv, EP!IInv, FdCopies, CopyInv, [Next]_vars PROVE CopyInv'
<1>1. post \in [Posts -> {"idle", "lock", "signal", "done"}] /\ Msgs \subseteq Posts /\ Conns \subseteq Posts
  BY DEF EP!IInv, EP!TypeOK, Posts
<1>2. CASE ServerStep
  <2>1. dispatched \subseteq dispatched' /\ spc # "exited"
    BY <1>2, ThreadStep DEF Server!Over
  <2>2. CASE Quiet
    BY <2>1, <2>2 DEF Quiet, slotVars, CopyInv
  <2>3. ASSUME NEW m \in Msgs, Dispatch(m) PROVE CopyInv'
    <3>1. /\ <<m>> \in dispatched' /\ post' = [post EXCEPT ![m] = "lock"]
          /\ \E c \in clients : evFd' = [evFd EXCEPT ![m] = cfd[c]]
      BY <2>3 DEF Dispatch, Slot!Call
    <3>2. \A c \in clients : cfd[c] # 0
      BY <2>1, DaemonAssumption DEF SP!AllInv, SP!IInv, SP!ListInv, SP!FdInv
    <3>3. evFd'[m] # 0
      BY <1>1, <3>1, <3>2 DEF FdCopies
    <3>4. \A p \in Msgs \ {m} : post'[p] = post[p] /\ evFd'[p] = evFd[p]
      BY <1>1, <3>1 DEF FdCopies
    <3> QED  BY <2>1, <3>1, <3>3, <3>4 DEF CopyInv
  <2>4. ASSUME NEW c \in Conns, Disconnect(c) PROVE CopyInv'
    <3>1. /\ post' = [post EXCEPT ![c] = "lock"] /\ evFd' = [evFd EXCEPT ![c] = CopiedFd(c)]
          /\ c \notin Msgs
      BY <2>4, DaemonAssumption DEF Disconnect, Slot!Call
    <3>2. \A p \in Msgs : post'[p] = post[p] /\ evFd'[p] = evFd[p]
      BY <1>1, <3>1 DEF FdCopies
    <3> QED  BY <2>1, <3>2 DEF CopyInv
  <2> QED  BY <1>2, <2>2, <2>3, <2>4 DEF ServerStep
<1>3. CASE PostStep
  <2>1. \A m \in Msgs : post'[m] # "idle" => post[m] # "idle"
    BY <1>1, <1>3 DEF PostStep, Slot!PostStep, Slot!Post, Slot!SignalData
  <2> QED  BY <1>3, <2>1 DEF PostStep, serverVars, CopyInv
<1>4. CASE PeerStep \/ StopServer
  <2>1. UNCHANGED <<post, evFd>>
    BY <1>4 DEF PeerStep, StopServer, slotVars
  <2>2. UNCHANGED dispatched
    BY <1>4 DEF PeerStep, StopServer, Server!Peer, Server!Connect, Server!CloseByPeer,
       Server!ResetByPeer, Server!Send, Server!DeliverMore, Server!serverVars, Server!outVars,
       Server!textVars, Server!Quit, Server!Stop, Server!SetStopped, Server!Kill, Server!Join
  <2> QED  BY <2>1, <2>2 DEF CopyInv
<1>5. CASE ConsumerSteps \/ StopNetwork \/ StopConsumers \/ Boot \/ BootFails \/ UNCHANGED vars
  <2>1. UNCHANGED <<evFd, dispatched>>
    BY <1>5 DEF ConsumerSteps, TakeByNet, AddNext, HandleByNet, OtherConsumerStep, StopNetwork,
       StopConsumers, Boot, BootFails, vars, serverVars
  <2>2. post' = post
    BY <1>5, ConsumersPostNothing
  <2> QED  BY <2>1, <2>2 DEF CopyInv
<1> QED  BY <1>2, <1>3, <1>4, <1>5 DEF Next

\* Who removed a message, and the descriptor in its copy, are settled once it is removed.
LEMMA TakenStays ==
    ASSUME EP!IInv, FdCopies, [Next]_vars, NEW m \in Msgs, handler[m] # "none"
    PROVE  handler'[m] = handler[m] /\ evFd'[m] = evFd[m]
<1>1. /\ post[m] # "idle" /\ m \in Posts /\ Conns \subseteq Posts
      /\ handler \in [Posts -> {"net", "app", "none"}]
  BY DEF EP!IInv, EP!TypeOK, EP!Consumers, EP!ExchangeInv, EP!Written, Posts
<1>2. flag_data /\ slot \in Posts => handler[slot] = "none"
  BY DEF EP!IInv, EP!PendingIsFresh
<1>3. evFd'[m] = evFd[m]
  <2>1. CASE ServerStep
    BY <1>1, <2>1 DEF ServerStep, Quiet, Dispatch, Disconnect, Slot!Call, FdCopies
  <2>2. CASE ~ServerStep
    BY <2>2 DEF Next, vars, Boot, BootFails, PeerStep, PostStep, ConsumerSteps, TakeByNet,
       AddNext, HandleByNet, OtherConsumerStep, StopServer, StopNetwork, StopConsumers
  <2> QED  BY <2>1, <2>2
<1>4. handler'[m] = handler[m]
  <2>1. \A c : Slot!Take(c) \/ Slot!DropMalformed(c) => handler'[m] = handler[m]
    BY <1>1, <1>2 DEF Slot!Take, Slot!DropMalformed, Slot!IsOwn, Slot!IsMalformed
  <2>2. CASE ServerStep \/ PostStep
    BY <2>2 DEF ServerStep, PostStep, Quiet, Dispatch, Disconnect, slotVars, Slot!Call, Slot!PostStep,
       Slot!Post, Slot!SignalData, Slot!consumerVars
  <2>3. CASE ConsumerSteps
    BY <2>1, <2>3 DEF ConsumerSteps, TakeByNet, AddNext, HandleByNet, OtherConsumerStep, slotVars,
       Slot!Handle, Slot!Start, Slot!Test, Slot!Wait, Slot!SeeExit, Slot!PassOver, Slot!SpuriousWakeup
  <2>4. CASE StopNetwork \/ StopConsumers
    BY <2>4 DEF StopNetwork, StopConsumers, Slot!BeginShutdown, Slot!Finish, Slot!StopConsumer,
       Slot!PostExit, Slot!SignalExit, Slot!Join, Slot!Ended, Slot!vars, Slot!consumerVars
  <2>5. CASE Boot \/ BootFails \/ PeerStep \/ StopServer \/ UNCHANGED vars
    BY <2>5 DEF Boot, BootFails, PeerStep, StopServer, vars, slotVars
  <2> QED  BY <2>2, <2>3, <2>4, <2>5 DEF Next
<1> QED  BY <1>3, <1>4

LEMMA SourceKept ==
    ASSUME EP!IInv, RP!IInv, FdCopies, SourceInv, [Next]_vars
    PROVE  SourceInv'
<1>1. \A f : \A m \in Msgs :
         TakenReport(m, f) => handler'[m] = "net" /\ IsReport(m) /\ f = evFd'[m]
  BY TakenStays DEF TakenReport
<1>2. todo \in Seq(RP!Descriptors)
  BY DEF RP!IInv, RP!TypeOK
<1>3. CASE UNCHANGED registryVars
  <2>1. UNCHANGED <<listed, dev, fd, todo>>
    BY <1>3 DEF registryVars
  <2> QED  BY <1>1, <2>1 DEF SourceInv, TakenReport, IsReport, Names
<1>4. CASE TakeByNet /\ IsReport(slot)
  <2>1. /\ slot \in Msgs /\ fd' = evFd[slot] /\ UNCHANGED <<listed, dev>>
        /\ todo' = Registry!Accepted(Content[slot].descs)
    BY <1>4 DEF TakeByNet, IsReport, EventFd, Registry!BeginReport, Registry!regVars
  <2>2. handler'[slot] = "net" /\ evFd' = evFd
    BY <1>4, <2>1 DEF TakeByNet, Slot!Take, EP!IInv, EP!TypeOK, Posts
  <2>3. handler'[slot] = "net" /\ IsReport(slot) /\ fd' = evFd'[slot]
    BY <1>4, <2>1, <2>2
  <2>4. \A i \in DOMAIN todo' : Names(slot, todo'[i].index)
    <3> DEFINE ds == Content[slot].descs
               k == Len(ds) % U8Size
    <3>1. ds \in Seq(Registry!Descriptors)
      <4>1. PICK n \in 0 .. MaxDescs : ds \in [1 .. n -> Registry!Descriptors]
        BY <2>1, DaemonAssumption DEF Registry!Reports
      <4> QED  BY <4>1, DaemonAssumption
    <3> HIDE DEF ds
    <3>2. k \in 0 .. Len(ds)
      BY <3>1, DaemonAssumption
    <3>3. todo' = SubSeq(ds, 1, k)
      BY <2>1 DEF Registry!Accepted, ds
    <3>4. \A i \in DOMAIN todo' : i \in DOMAIN ds /\ todo'[i] = ds[i]
      BY <3>1, <3>2, <3>3
    <3> QED  BY <3>4 DEF Names, ds
  <2> QED  BY <1>1, <2>1, <2>3, <2>4 DEF SourceInv, TakenReport, IsReport, Names
<1>5. CASE AddNext
  <2>1. todo # << >> /\ todo' = Tail(todo) /\ fd' = fd
    BY <1>5 DEF AddNext, Registry!AddNext, Registry!AddExisting, Registry!AddNoMemory,
       Registry!AddNoService, Registry!AddNew, Registry!NextDescriptor
  <2>2. PICK m \in Msgs : TakenReport(m, fd) /\ \A i \in DOMAIN todo : Names(m, todo[i].index)
    BY <2>1 DEF SourceInv
  <2>3. /\ \A i \in DOMAIN todo' : Names(m, todo'[i].index)
        /\ Names(m, Head(todo).index)
    BY <1>2, <2>1, <2>2
  <2>4. handler'[m] = "net" /\ IsReport(m) /\ fd = evFd'[m]
    BY <1>1, <2>1, <2>2
  <2>5. ASSUME NEW n \in listed'
        PROVE  \E p \in Msgs : /\ handler'[p] = "net" /\ IsReport(p) /\ dev'[n].fd = evFd'[p]
                                /\ Names(p, dev'[n].index)
    <3>1. CASE n \in listed /\ dev'[n] = dev[n]
      <4>1. PICK p \in Msgs : TakenReport(p, dev[n].fd) /\ Names(p, dev[n].index)
        BY <3>1 DEF SourceInv
      <4> QED  BY <1>1, <3>1, <4>1
    <3>2. CASE ~(n \in listed /\ dev'[n] = dev[n])
      <4>1. dev'[n].fd = fd /\ dev'[n].index = Head(todo).index
        <5>1. PICK k \in Nodes : Registry!AddNew(k)
          BY <1>5, <2>5, <3>2 DEF AddNext, Registry!AddNext, Registry!AddExisting,
             Registry!AddNoMemory, Registry!AddNoService, Registry!regVars
        <5>2. /\ listed' = listed \cup {k}
              /\ dev' = [x \in listed \cup {k} |->
                            IF x = k THEN [id |-> Head(todo).id, index |-> Head(todo).index, fd |-> fd,
                                           server |-> Registry!ServiceFor(Head(todo).id)]
                            ELSE dev[x]]
          BY <5>1 DEF Registry!AddNew, Registry!Filled
        <5>3. n = k
          BY <2>5, <3>2, <5>2
        <5> QED  BY <5>2, <5>3
      <4> QED  BY <2>1, <2>3, <2>4, <4>1
    <3> QED  BY <3>1, <3>2
  <2> QED  BY <2>1, <2>3, <2>4, <2>5 DEF SourceInv, TakenReport, IsReport, Names
<1>6. CASE HandleByNet \/ StopNetwork
  <2>1. UNCHANGED <<fd, todo>> /\ \A n \in listed' : n \in listed /\ dev'[n] = dev[n]
    BY <1>6 DEF HandleByNet, StopNetwork, registryVars, Registry!RemoveSocket, Registry!Finished,
       Registry!RemoveAll, Registry!Unlink
  <2> QED  BY <1>1, <2>1 DEF SourceInv, TakenReport, IsReport, Names
<1>7. \/ UNCHANGED registryVars \/ (TakeByNet /\ IsReport(slot)) \/ AddNext \/ HandleByNet \/ StopNetwork
  BY DEF Next, vars, Boot, BootFails, PeerStep, ServerStep, PostStep, ConsumerSteps, TakeByNet,
     OtherConsumerStep, StopServer, StopConsumers
<1> QED  BY <1>3, <1>4, <1>5, <1>6, <1>7

\* Every listed device was named by one message that the network thread handled and
\* has the descriptor this message came in by (iotc_network.c:261), for any messages.
THEOREM DevicesHaveMessages == Spec => []DeviceFromMessage
<1>1. Init => CopyInv /\ SourceInv
  BY DEF Init, Slot!Init, Registry!Init, CopyInv, SourceInv, Posts
<1>2. SP!AllInv /\ EP!IInv /\ RP!IInv /\ FdCopies /\ CopyInv /\ SourceInv /\ [Next]_vars
         => CopyInv' /\ SourceInv'
  BY CopyKept, SourceKept
<1>3. EP!IInv /\ CopyInv /\ SourceInv => DeviceFromMessage
  <2> SUFFICES ASSUME EP!IInv, CopyInv, SourceInv, NEW n \in listed
               PROVE  \E m \in Handed :
                         /\ handler[m] = "net" /\ IsReport(m)
                         /\ dev[n].fd = evFd[m] /\ evFd[m] # 0
                         /\ \E j \in DOMAIN Content[m].descs : Content[m].descs[j].index = dev[n].index
    BY DEF DeviceFromMessage
  <2>1. PICK m \in Msgs : TakenReport(m, dev[n].fd) /\ Names(m, dev[n].index)
    BY DEF SourceInv
  <2>2. post[m] # "idle"
    BY <2>1 DEF TakenReport, EP!IInv, EP!ExchangeInv, EP!Written, Posts
  <2>3. m \in Handed /\ evFd[m] # 0
    BY <2>2 DEF CopyInv, Handed
  <2> QED  BY <2>1, <2>3 DEF TakenReport, Names
<1> QED  BY <1>1, <1>2, <1>3, ServerInv, SlotInv, RegistryInv, FdCopiesInv, PTL DEF Spec
-----------------------------------------------------------------------------
(* What is proved of the components, in the daemon.                        *)

\* Together, the components keep what each keeps alone: the list of clients matches the
\* sockets, the event loop does not block and hands whole messages on
\* (socket_server.c:317), nobody sleeps through an event and one is handled as long as
\* its thread serves (iotc_network.c:209), the index of a device is a key and a report
\* is complete (iotc_devices.c:88).
THEOREM ComponentsKeepPromises ==
    Spec => [](/\ SP!ListMatchesSockets /\ SP!NeverBlocks /\ SP!TextIsMessage
               /\ EP!NoLostWakeup /\ EP!PendingIsFresh /\ EP!ServedUntilShutdown
               /\ RP!UniqueIndex /\ RP!LostOnlyByFailure /\ RP!ReportTakesEffect)
<1>1. Spec => SP!Spec /\ EP!Spec /\ RP!Spec
  BY DaemonRunsServer, DaemonRunsSlot, DaemonRunsRegistry, SameServer, SameSlot, SameRegistry, PTL
<1>2. SP!Spec => []SP!ListMatchesSockets /\ []SP!NeverBlocks /\ []SP!TextIsMessage
  BY SP!ListMatches, SP!LoopNeverBlocks, SP!TextsAreMessages, ComponentAssumptions
<1>3. EP!Spec => []EP!NoLostWakeup /\ []EP!PendingIsFresh /\ []EP!ServedUntilShutdown
  BY EP!WakeupsReach, EP!PendingFresh, EP!Served, ComponentAssumptions
<1>4. RP!Spec => []RP!UniqueIndex /\ []RP!LostOnlyByFailure /\ []RP!ReportTakesEffect
  BY RP!IndexIsKey, RP!OnlyFailureLeaks, RP!ReportsComplete, ComponentAssumptions
<1> QED  BY <1>1, <1>2, <1>3, <1>4, PTL

\* The exchange is a mailbox in the daemon, too: its server thread, its serving threads
\* and main put and remove letters as Mailbox allows (socket_server.c:253).
THEOREM DaemonHasMailbox == Spec => EP!ImplementsMailbox
BY DaemonRunsSlot, SameSlot, EP!Implementation, ComponentAssumptions, PTL

\* The variables of the daemon keep their types.
THEOREM TypeCorrect == Spec => []TypeOK
<1>1. Spec => []SP!TypeOK
  BY DaemonRunsServer, SameServer, SP!TypeCorrect, ComponentAssumptions, PTL
<1>2. SP!TypeOK => Server!TypeOK
  BY DEF SP!TypeOK, Server!TypeOK, SP!NoFd, Server!NoFd, SP!Entries, Server!Entries
<1>3. EP!IInv => Slot!TypeOK
  BY DEF EP!IInv, EP!TypeOK, Slot!TypeOK, EP!EventKinds, Slot!EventKinds, EP!Consumers, Slot!Consumers
<1>4. RP!IInv => Registry!TypeOK
  BY DEF RP!IInv, RP!TypeOK, Registry!TypeOK, RP!Devices, Registry!Devices, RP!Descriptors, Registry!Descriptors,
     RP!Services, Registry!Services, RP!Ids, Registry!Ids
<1> DEFINE BootOK == boot \in DOMAIN AfterBoot \cup {"up", "failed"}
<1>5. Init => BootOK
  BY DEF Init, AfterBoot
<1>6. BootOK /\ [Next]_vars => BootOK'
  <2> SUFFICES ASSUME BootOK, [Next]_vars PROVE BootOK'
    OBVIOUS
  <2>1. CASE Boot \/ BootFails
    BY <2>1 DEF Boot, BootFails, AfterBoot
  <2>2. CASE boot' = boot
    BY <2>2
  <2> QED
    BY <2>1, <2>2 DEF Next, vars, Alive, ServerStep, PeerStep, PostStep, ConsumerSteps, TakeByNet, AddNext, HandleByNet,
       OtherConsumerStep, StopServer, StopNetwork, StopConsumers
<1>7. BootOK /\ SP!TypeOK /\ EP!IInv /\ RP!IInv /\ FdCopies => TypeOK
  BY <1>2, <1>3, <1>4 DEF TypeOK, FdCopies
<1> HIDE DEF BootOK
<1> QED  BY <1>1, <1>5, <1>6, <1>7, SlotInv, RegistryInv, FdCopiesInv, PTL DEF Spec
=============================================================================
