---------------------------- MODULE IotcDaemon ----------------------------
(***************************************************************************)
(* The master daemon: the socket server posts what it receives to the      *)
(* event exchange, the network thread takes reports from the exchange into *)
(* the device list, and main starts and stops the three in order (main.c). *)
(*                                                                         *)
(* Every step is a step of one component, or one step of several that the  *)
(* code makes in one: a recv that starts a posting thread, an event that   *)
(* leaves the exchange for its handler.  The broadcast and application     *)
(* handlers change nothing that these components share.                    *)
(***************************************************************************)
EXTENDS Integers, Sequences, FiniteSets

CONSTANTS
    Conns, Resettable, Msgs, Parts, Fds, Listen, MaxEvents, RecvCap, CountMod, \* SocketServer
    Exit, Empty,                                                       \* EventSlot
    Nodes, Indexes, KnownIds, OtherIds, MaxDescs, U8Size,              \* DeviceRegistry
    Content \* what each message says: its event type, its command, its descriptors

\* message_type: E_COMMAND_REPORT_DEVICES_LIST, E_COMMAND_SOCKET_DISCONNECT, others.
Commands == {"report", "disconnect", "none"}

VARIABLES
    boot, \* what main is about to initialize, or "up", or "failed"
    conn, cfd, coming, unread, sent, fin, rst, edges, clients, count, data, batch, missed,
    dispatched, torn, mixed, posting, spc, state, main,
    flag_data, flag_space, slot, kind, post, cpc, running, current, handler, mpc, target,
    heap, listed, dev, lost, finished, wildFree, fd, todo, given, stale, intact,
    evFd \* iSocketFd in the copy of the client that travels with an event

\* An event comes from a message or from the end of a connection.
Posts == Msgs \cup Conns

Server == INSTANCE SocketServer
Slot == INSTANCE EventSlot
Registry == INSTANCE DeviceRegistry WITH Fds <- Fds \cup {0}

serverVars == <<conn, cfd, coming, unread, sent, fin, rst, edges, clients, count, data, batch,
                missed, dispatched, torn, mixed, posting, spc, state, main>>
slotVars == <<flag_data, flag_space, slot, kind, post, cpc, running, current, handler, mpc, target>>
registryVars == <<heap, listed, dev, lost, finished, wildFree, fd, todo, given, stale, intact>>
vars == <<boot, serverVars, slotVars, registryVars, evFd>>

\* Here every message arrives in one part: a text is a message.
ASSUME DaemonAssumption ==
    /\ Parts = 1
    /\ Fds \subseteq Nat \ {0} /\ Listen \in Nat \ Fds
    /\ Resettable \subseteq Conns
    /\ {MaxEvents, RecvCap, CountMod} \subseteq Nat \ {0}
    /\ Msgs \cap Conns = {}
    /\ Exit # Empty /\ {Exit, Empty} \cap Posts = {}
    /\ KnownIds \cap OtherIds = {} /\ MaxDescs \in Nat /\ U8Size \in Nat \ {0}
    /\ \A m \in Msgs :
          /\ Content[m].kind \in Slot!EventKinds
          /\ Content[m].command \in Commands
          /\ Content[m].descs \in Registry!Reports

\* SocketServerInit has succeeded: the server thread is created.  A failure before
\* this ends the process, and nothing has happened.
Init ==
    /\ boot = "network"
    /\ Server!Init
    /\ Slot!Init
    /\ Registry!Init
    /\ fd = 0
    /\ evFd = [p \in Posts |-> 0]
-----------------------------------------------------------------------------
(* main's start.  The server thread runs while the other threads are       *)
(* created one by one.                                                     *)

AfterBoot == [network |-> "application", application |-> "up"]

\* IotcNetworkInit, which leaves the device list as empty as it was; or
\* IotcApplicationkInit and IotcBroadcastInit, which share nothing.
Boot ==
    /\ boot \in DOMAIN AfterBoot
    /\ boot' = AfterBoot[boot]
    /\ UNCHANGED <<serverVars, slotVars, registryVars, evFd>>

\* One of them fails: main returns, and every thread ends with the process.
BootFails ==
    /\ boot \in DOMAIN AfterBoot
    /\ boot' = "failed"
    /\ UNCHANGED <<serverVars, slotVars, registryVars, evFd>>

\* The process exists.
Alive == boot # "failed" /\ UNCHANGED boot

\* The threads that main has created.
Created == {t \in Slot!Consumers : boot \notin (IF t = "net" THEN {"network"} ELSE {"network", "application"})}
-----------------------------------------------------------------------------
(* The server thread.                                                      *)

\* paSocketDisconnect has event_type 1 and message_type 4: it is an event of
\* the application thread, and no command of the network thread.
DisconnectKind == "app"

\* A recv returned data: the client is copied with its descriptor and a thread
\* begins to post the copy.
Dispatch(m) ==
    /\ <<m>> \in dispatched' \ dispatched
    /\ \E c \in clients : unread'[c] # unread[c] /\ evFd' = [evFd EXCEPT ![m] = cfd[c]]
    /\ Slot!Call(m, Content[m].kind)

\* The messages that a thread was started for.
Handed == {m \in Msgs : <<m>> \in dispatched}

\* memcpy of the client into the exchange, after the close.
CopiedFd(c) == cfd[c]

\* A recv returned 0: the server thread itself begins to post the end of the
\* connection.
Disconnect(c) ==
    /\ conn[c] = "open" /\ conn'[c] = "closed"
    /\ evFd' = [evFd EXCEPT ![c] = CopiedFd(c)]
    /\ Slot!Call(c, DisconnectKind)

\* A step of the thread that posts nothing.
Quiet ==
    /\ dispatched' = dispatched
    /\ Server!Open \subseteq {c \in Conns : conn'[c] = "open"}
    /\ UNCHANGED <<slotVars, evFd>>

\* Mistake to be caught: the server goes on before its event is in the exchange.
PostedLater == TRUE

\* SocketClientDestory returns when the event has been posted.
PostDone == \A c \in posting : post[c] = "done"

ServerStep ==
    /\ Alive
    /\ Server!Loop \/ Server!Fail
    /\ spc = "post" => PostDone
    /\ Quiet \/ (\E m \in Msgs : Dispatch(m)) \/ \E c \in Conns : Disconnect(c)
    /\ UNCHANGED registryVars

PeerStep ==
    /\ Alive
    /\ \E c \in Conns : Server!Peer(c)
    /\ UNCHANGED <<slotVars, registryVars, evFd>>
-----------------------------------------------------------------------------
(* The posting threads and the two threads that serve the exchange.        *)

PostStep ==
    /\ Alive
    /\ \E p \in Posts : Slot!PostStep(p)
    /\ UNCHANGED <<serverVars, registryVars, evFd>>

IsReport(p) == p \in Msgs /\ Content[p].command = "report"

\* Mistake to be caught: the descriptor is read after the exchange was zeroed.
ZeroedFd(p) == 0

\* The descriptor is read under the mutex, before the memset.
EventFd(p) == evFd[p]

\* The network thread takes its event.  A report's handler begins.
TakeByNet ==
    /\ Alive
    /\ Slot!Take("net")
    /\ IF IsReport(slot) THEN Registry!BeginReport(EventFd(slot), Content[slot].descs)
                         ELSE UNCHANGED registryVars
    /\ UNCHANGED <<serverVars, evFd>>

\* One IotcDeviceAdd of a report.
AddNext ==
    /\ Alive
    /\ Registry!AddNext
    /\ UNCHANGED <<serverVars, slotVars, evFd>>

\* The handler returns.  The command of a message may be the disconnect of its
\* own socket.
HandleByNet ==
    /\ Alive
    /\ Slot!Handle("net")
    /\ todo = << >>
    /\ IF current["net"] \in Msgs /\ Content[current["net"]].command = "disconnect"
       THEN Registry!RemoveSocket(evFd[current["net"]])
       ELSE UNCHANGED registryVars
    /\ UNCHANGED <<serverVars, evFd>>

\* Everything else these threads do concerns the exchange only.  The handler
\* of the application thread is empty.
OtherConsumerStep ==
    /\ Alive
    /\ \/ \E c \in Created : Slot!Start(c)
       \/ \E c \in Slot!Consumers :
             \/ Slot!Test(c) \/ Slot!Wait(c) \/ Slot!DropMalformed(c)
             \/ Slot!SeeExit(c) \/ Slot!PassOver(c) \/ Slot!SpuriousWakeup(c)
       \/ Slot!Take("app") \/ Slot!Handle("app")
    /\ UNCHANGED <<serverVars, registryVars, evFd>>
-----------------------------------------------------------------------------
(* main.                                                                   *)

StopServer ==
    /\ Alive
    /\ Server!Quit \/ (boot = "up" /\ Server!Stop)
    /\ UNCHANGED <<slotVars, registryVars, evFd>>

\* Mistake to be caught: main does not wait for the server thread.
WithoutJoin == main \in {"join", "joined"}

ServerJoined == main = "joined"

\* IotcNetworkFinished begins: IotcDeviceFinished comes before anything else.
StopNetwork ==
    /\ Alive
    /\ ServerJoined
    /\ Slot!BeginShutdown
    /\ Registry!Finished
    /\ UNCHANGED <<serverVars, evFd>>

StopConsumers ==
    /\ Alive
    /\ Slot!Finish \/ Slot!Ended
    /\ UNCHANGED <<serverVars, registryVars, evFd>>
-----------------------------------------------------------------------------
ConsumerSteps == TakeByNet \/ AddNext \/ HandleByNet \/ OtherConsumerStep

Next ==
    \/ Boot \/ BootFails
    \/ PeerStep \/ ServerStep \/ PostStep
    \/ ConsumerSteps
    \/ StopServer \/ StopNetwork \/ StopConsumers

\* Each thread, and main while it starts them, keeps running, as in the components.
NetStep ==
    /\ TakeByNet \/ AddNext \/ HandleByNet \/ OtherConsumerStep
    /\ Slot!ConsumerStep("net") \/ Registry!AddNext

AppStep == OtherConsumerStep /\ Slot!ConsumerStep("app")

Fairness ==
    /\ WF_vars(Boot)
    /\ WF_vars(ServerStep) /\ WF_vars(PostStep) /\ WF_vars(NetStep) /\ WF_vars(AppStep)

Spec == Init /\ [][Next]_vars

FairSpec == Spec /\ Fairness
-----------------------------------------------------------------------------
TypeOK ==
    /\ boot \in DOMAIN AfterBoot \cup {"up", "failed"}
    /\ Server!TypeOK
    /\ Slot!TypeOK
    /\ Registry!TypeOK
    /\ evFd \in [Posts -> Fds \cup {0}]

\* The socket of a lost client is closed before its event is posted, but no
\* other connection can have its descriptor until the event is in the
\* exchange: the thread that accepts is the thread that posts.
PostedBeforeReuse ==
    \A c \in Conns : post[c] = "lock" => \A d \in Server!Open : cfd[d] # evFd[c]

\* A listed device was named by one message that the network thread handled,
\* and has the descriptor that this message came in by: text and descriptor
\* of different events are never mixed.
DeviceFromMessage ==
    \A n \in listed :
        \E m \in Handed :
            /\ handler[m] = "net"
            /\ IsReport(m)
            /\ dev[n].fd = evFd[m] /\ evFd[m] # 0
            /\ \E j \in DOMAIN Content[m].descs : Content[m].descs[j].index = dev[n].index

\* When main begins to stop the threads that serve the exchange, every disconnect
\* event that was begun has been posted: the server thread posts them itself, waiting
\* for the exchange if it must, and main has joined it (main.c:131).  Only the detached
\* thread of a message may still post, and may replace the request to stop.
DisconnectsPosted ==
    mpc # "run" => \A c \in Conns : post[c] \in {"idle", "done"}

\* A report whose posting began reaches the device list, also one that arrives
\* before the network thread exists (main.c:106), unless another event replaces it,
\* an allocation fails, a device is removed, or main stops or cannot start.
Replaced(m) == post[m] \in {"signal", "done"} /\ handler[m] = "none" /\ ~(flag_data /\ slot = m)

ReportReachesList ==
    \A m \in Msgs :
        (m \in Handed /\ Content[m].kind = "device" /\ IsReport(m))
            ~> \/ \A j \in DOMAIN Content[m].descs : Registry!Exists(Content[m].descs[j].index)
               \/ Replaced(m)
               \/ ~intact
               \/ main # "run"
               \/ boot = "failed"

\* Nothing is on its way from the sockets to the device list.
Settled ==
    /\ ~flag_data
    /\ \A p \in Posts : post[p] \in {"idle", "done"}
    /\ \A t \in Slot!Consumers : cpc[t] # "handle"

\* "Remove The Devices detch This Socket, brocast the envet to device thread"
\* (socket_server.c:222): once the event of a lost client and everything else
\* has been handled, no device of its socket is left in the list.
NoOrphanDevice ==
    \A c \in Conns :
        (Settled /\ handler[c] # "none" /\ \A d \in Server!Open : cfd[d] # evFd[c])
            => \A n \in listed : dev[n].fd # evFd[c]
=============================================================================
