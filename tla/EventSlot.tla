----------------------------- MODULE EventSlot -----------------------------
(***************************************************************************)
(* The event exchange of the master daemon: the global sSocketEventQuene   *)
(* (socket_server.h), the code that posts to it (socket_server.c), the two *)
(* threads that take from it (iotc_network.c, iotc_application.c) and the  *)
(* part of main.c that stops these threads.                                *)
(*                                                                         *)
(* Every access to the exchange is under its mutex, so a critical section  *)
(* is one action.  The broadcast that follows the unlock is an action of   *)
(* its own: other threads run in between.                                  *)
(***************************************************************************)
CONSTANTS
    Posts,  \* the calls that post an event: one per received message or lost client
    Exit,   \* the event IotcNetworkFinished and IotcApplicationFinished write
    Empty   \* the zeroed sSocketClient

ASSUME SlotAssumption == Exit # Empty /\ Exit \notin Posts /\ Empty \notin Posts

Consumers == {"net", "app"}

\* The value of "event_type" in a posted text: E_IOTC_EVENT_APP, _DEVICE and
\* _EXIT, any other number, and a text that does not parse or has no event_type.
EventKinds == {"app", "device", "exit", "other", "malformed"}

\* The kind of event that each thread keeps for itself.
OwnKind == [net |-> "device", app |-> "app"]

VARIABLES
    flag_data,  \* an event is pending
    flag_space, \* the exchange may be written
    slot,       \* sSocketClient: whose event it holds
    kind,       \* the kind of event each call posts
    post,       \* where each posting call is
    cpc,        \* where each thread is
    running,    \* eThreadState of each thread is E_THREAD_RUNNING
    current,    \* the event each thread handles after having unlocked
    handler,    \* history: who removed each event from the exchange
    mpc,        \* where main is: "run" until SocketServerFinished returned
    target      \* the thread main is stopping

postVars == <<kind, post>>
consumerVars == <<cpc, running, current, handler>>
mainVars == <<mpc, target>>
slotVars == <<flag_data, flag_space, slot>>
vars == <<slotVars, postVars, consumerVars, mainVars>>

Init ==
    /\ flag_data = FALSE
    /\ flag_space = TRUE
    /\ slot = Empty
    /\ kind = [p \in Posts |-> "none"]
    /\ post = [p \in Posts |-> "idle"]
    /\ cpc = [c \in Consumers |-> "start"]
    /\ running = [c \in Consumers |-> FALSE]
    /\ current = [c \in Consumers |-> Empty]
    /\ handler = [p \in Posts |-> "none"]
    /\ mpc = "run"
    /\ target = "net"

-----------------------------------------------------------------------------
(* Posting: SocketServerHandleRecvMessage in a detached thread, or the end *)
(* of SocketClientDestory in the server thread.                            *)

\* A call begins.  Only the server thread and the threads it starts make one.
Call(p, k) ==
    /\ mpc = "run"
    /\ post[p] = "idle"
    /\ post' = [post EXCEPT ![p] = "lock"]
    /\ kind' = [kind EXCEPT ![p] = k]
    /\ UNCHANGED <<slotVars, consumerVars, mainVars>>

\* The critical section.  It waits for flag_space, and for nothing else.
Post(p) ==
    /\ post[p] = "lock"
    /\ flag_space
    /\ slot' = p
    /\ flag_data' = TRUE
    /\ post' = [post EXCEPT ![p] = "signal"]
    /\ UNCHANGED <<flag_space, kind, consumerVars, mainVars>>

\* Mistake to be caught: pthread_cond_signal instead of pthread_cond_broadcast.
WakeOne ==
    IF \E c \in Consumers : cpc[c] = "wait"
    THEN \E c \in Consumers : cpc[c] = "wait" /\ cpc' = [cpc EXCEPT ![c] = "lock"]
    ELSE UNCHANGED cpc

\* pthread_cond_broadcast on cond_data_available: every waiter goes back to
\* the mutex.
Broadcast == cpc' = [c \in Consumers |-> IF cpc[c] = "wait" THEN "lock" ELSE cpc[c]]

SignalData(p) ==
    /\ post[p] = "signal"
    /\ post' = [post EXCEPT ![p] = "done"]
    /\ Broadcast
    /\ UNCHANGED <<slotVars, kind, running, current, handler, mainVars>>

-----------------------------------------------------------------------------
(* IotcNetworkHandleThread and IotcApplicationHandleThread.                *)

\* The text in the exchange, as the threads read it.
IsExit == slot = Exit \/ (slot \in Posts /\ kind[slot] = "exit")
IsMalformed == slot \in Posts /\ kind[slot] = "malformed"
IsOwn(c) == slot \in Posts /\ kind[slot] = OwnKind[c]

\* Mistake to be caught: eThreadState is left as memset made it.
LeaveState(c) == UNCHANGED running

\* eThreadState = E_THREAD_RUNNING
SetRunning(c) == running' = [running EXCEPT ![c] = TRUE]

Start(c) ==
    /\ cpc[c] = "start"
    /\ SetRunning(c)
    /\ cpc' = [cpc EXCEPT ![c] = "test"]
    /\ UNCHANGED <<slotVars, postVars, current, handler, mainVars>>

\* while(eThreadState)
Test(c) ==
    /\ cpc[c] = "test"
    /\ cpc' = [cpc EXCEPT ![c] = IF running[c] THEN "lock" ELSE "exited"]
    /\ UNCHANGED <<slotVars, postVars, running, current, handler, mainVars>>

\* The mutex is held and nothing is pending: pthread_cond_wait.
Wait(c) ==
    /\ cpc[c] = "lock"
    /\ ~flag_data
    /\ cpc' = [cpc EXCEPT ![c] = "wait"]
    /\ UNCHANGED <<slotVars, postVars, running, current, handler, mainVars>>

\* pthread_cond_wait may return without a broadcast.
SpuriousWakeup(c) ==
    /\ cpc[c] = "wait"
    /\ cpc' = [cpc EXCEPT ![c] = "lock"]
    /\ UNCHANGED <<slotVars, postVars, running, current, handler, mainVars>>

\* Mistake to be caught: the flags are not reset.
StayPending == UNCHANGED <<flag_data, flag_space>>

\* The exchange is marked as free.
Release == flag_data' = FALSE /\ flag_space' = TRUE

\* The text is no JSON, or has no event_type: it is dropped.
DropMalformed(c) ==
    /\ cpc[c] = "lock"
    /\ flag_data
    /\ IsMalformed
    /\ Release
    /\ handler' = [handler EXCEPT ![slot] = c]
    /\ cpc' = [cpc EXCEPT ![c] = "test"]
    /\ UNCHANGED <<slot, postVars, running, current, mainVars>>

\* The stop request ends the thread and stays for the other one.
SeeExit(c) ==
    /\ cpc[c] = "lock"
    /\ flag_data
    /\ IsExit
    /\ cpc' = [cpc EXCEPT ![c] = "exited"]
    /\ UNCHANGED <<slotVars, postVars, running, current, handler, mainVars>>

\* An event of another kind is left where it is.
PassOver(c) ==
    /\ cpc[c] = "lock"
    /\ flag_data
    /\ ~IsMalformed /\ ~IsExit /\ ~IsOwn(c)
    /\ cpc' = [cpc EXCEPT ![c] = "test"]
    /\ UNCHANGED <<slotVars, postVars, running, current, handler, mainVars>>

\* The thread's own event is copied out and the exchange is zeroed.  The
\* broadcast on cond_space_available wakes nobody: no call ever waits for it.
Take(c) ==
    /\ cpc[c] = "lock"
    /\ flag_data
    /\ IsOwn(c)
    /\ Release
    /\ slot' = Empty
    /\ current' = [current EXCEPT ![c] = slot]
    /\ handler' = [handler EXCEPT ![slot] = c]
    /\ cpc' = [cpc EXCEPT ![c] = "handle"]
    /\ UNCHANGED <<postVars, running, mainVars>>

\* The event is handled without the mutex.
Handle(c) ==
    /\ cpc[c] = "handle"
    /\ current' = [current EXCEPT ![c] = Empty]
    /\ cpc' = [cpc EXCEPT ![c] = "test"]
    /\ UNCHANGED <<slotVars, postVars, running, handler, mainVars>>

-----------------------------------------------------------------------------
(* main after SocketServerFinished: IotcNetworkFinished, then              *)
(* IotcApplicationFinished.                                                *)

BeginShutdown ==
    /\ mpc = "run"
    /\ mpc' = "stop"
    /\ UNCHANGED <<slotVars, postVars, consumerVars, target>>

\* eThreadState = E_THREAD_STOPPED
StopConsumer ==
    /\ mpc = "stop"
    /\ running' = [running EXCEPT ![target] = FALSE]
    /\ mpc' = "lock"
    /\ UNCHANGED <<slotVars, postVars, cpc, current, handler, target>>

PostExit ==
    /\ mpc = "lock"
    /\ flag_space
    /\ slot' = Exit
    /\ flag_data' = TRUE
    /\ mpc' = "signal"
    /\ UNCHANGED <<flag_space, postVars, consumerVars, target>>

\* The broadcast.  pthread_kill follows: a wait it ends is a spurious wakeup.
SignalExit ==
    /\ mpc = "signal"
    /\ Broadcast
    /\ mpc' = "join"
    /\ UNCHANGED <<slotVars, postVars, running, current, handler, target>>

\* pthread_join returns; main goes on to the next thread.
Join ==
    /\ mpc = "join"
    /\ cpc[target] = "exited"
    /\ mpc' = IF target = "net" THEN "stop" ELSE "end"
    /\ target' = "app"
    /\ UNCHANGED <<slotVars, postVars, consumerVars>>

\* main returned from its last call: the process ends.
Ended ==
    /\ mpc = "end"
    /\ UNCHANGED vars
-----------------------------------------------------------------------------
PostStep(p) == Post(p) \/ SignalData(p)
Receive(c) == DropMalformed(c) \/ SeeExit(c) \/ PassOver(c) \/ Take(c)
ConsumerStep(c) == Start(c) \/ Test(c) \/ Wait(c) \/ Receive(c) \/ Handle(c)
Finish == StopConsumer \/ PostExit \/ SignalExit \/ Join

Next ==
    \/ \E p \in Posts : (\E k \in EventKinds : Call(p, k)) \/ PostStep(p)
    \/ \E c \in Consumers : ConsumerStep(c) \/ SpuriousWakeup(c)
    \/ BeginShutdown \/ Finish \/ Ended

\* The scheduler runs every thread that can run, and a thread that asks for
\* the mutex gets it in the end.  Nothing makes a client send or main stop,
\* and no wait ends by itself.
Fairness ==
    /\ \A p \in Posts : WF_vars(PostStep(p))
    /\ \A c \in Consumers : WF_vars(ConsumerStep(c))
    /\ WF_vars(Finish)

Spec == Init /\ [][Next]_vars

FairSpec == Spec /\ Fairness
-----------------------------------------------------------------------------
TypeOK ==
    /\ flag_data \in BOOLEAN
    /\ flag_space \in BOOLEAN
    /\ slot \in Posts \cup {Exit, Empty}
    /\ kind \in [Posts -> EventKinds \cup {"none"}]
    /\ post \in [Posts -> {"idle", "lock", "signal", "done"}]
    /\ cpc \in [Consumers -> {"start", "test", "lock", "wait", "handle", "exited"}]
    /\ running \in [Consumers -> BOOLEAN]
    /\ current \in [Consumers -> Posts \cup {Empty}]
    /\ handler \in [Posts -> Consumers \cup {"none"}]
    /\ mpc \in {"run", "stop", "lock", "signal", "join", "end"}
    /\ target \in Consumers

Written(p) == post[p] \in {"signal", "done"}

\* A thread sleeps on cond_data_available while an event is pending only if
\* the broadcast that will wake it is still to come: posting sets the flag
\* under the mutex and broadcasts after the unlock, and this order never
\* leaves a thread asleep on a full exchange.
NoLostWakeup ==
    \A c \in Consumers :
        flag_data /\ cpc[c] = "wait" => mpc = "signal" \/ \E p \in Posts : post[p] = "signal"

\* A pending event has been written by its call and nobody has removed it: the
\* two threads, which both read every event, never both handle one, and an
\* event left by one thread is handled by the thread it is meant for, if by any.
PendingIsFresh ==
    flag_data /\ slot \in Posts => Written(slot) /\ handler[slot] = "none"

\* What a thread handles without the mutex is an event of its own kind that
\* it removed itself: the other thread cannot be working on the same one.
HandledByOwner ==
    \A c \in Consumers :
        cpc[c] = "handle" =>
            /\ current[c] \in Posts
            /\ handler[current[c]] = c
            /\ kind[current[c]] = OwnKind[c]

\* What the exchange keeps true behind these properties: a pending event has a
\* text, events are removed and shown only after they were written, and before
\* main stops the threads no stop request of main lies in the exchange and no
\* thread that started has its eThreadState cleared.
ExchangeInv ==
    /\ flag_data => slot # Empty
    /\ \A p \in Posts : handler[p] # "none" => Written(p)
    /\ slot \in Posts => Written(slot)
    /\ slot = Exit => mpc # "run"
    /\ mpc = "run" => \A c \in Consumers : cpc[c] # "start" => running[c]

\* Both threads serve the exchange for as long as main runs, unless a message
\* carried the event type of the stop request: a loop that ends early leaves
\* every later event without a reader.
ServedUntilShutdown ==
    \A c \in Consumers :
        cpc[c] = "exited" => mpc # "run" \/ \E p \in Posts : Written(p) /\ kind[p] = "exit"

\* An event that one of the threads wants or drops leaves the exchange while
\* the daemon runs: it is removed, or another call replaces it.
EventLeaves ==
    \A p \in Posts :
        (flag_data /\ slot = p /\ kind[p] # "other")
            ~> \/ ~(flag_data /\ slot = p)
               \/ mpc # "run"
               \/ \E q \in Posts : Written(q) /\ kind[q] = "exit"

\* If no posting call is before its critical section when main begins to stop
\* the threads, main joins both of them.  A call that is there may replace the
\* stop request, and then main can wait for a thread that sleeps for ever.
CleanShutdown ==
    (mpc = "stop" /\ target = "net" /\ \A p \in Posts : post[p] # "lock") ~> mpc = "end"

\* The exchange is a one-place mailbox.
Mail == INSTANCE Mailbox WITH
    box <- IF flag_data THEN slot ELSE Empty,
    posted <- {p \in Posts : post[p] \in {"signal", "done"}},
    taken <- {p \in Posts : handler[p] # "none"}

\* Every behaviour of the exchange is one of the mailbox: at most one removal
\* per event, no event that was not posted, only the latest event is pending.
ImplementsMailbox == Mail!MailSpec

\* "Brodcast This Data to Other Thread" (socket_server.c:250): a pending event
\* that one of the threads wants is not replaced before the thread removed it.
NoOverwrite ==
    [][\A c \in Consumers : flag_data /\ IsOwn(c) /\ slot' # slot => handler'[slot] = c]_vars
=============================================================================
