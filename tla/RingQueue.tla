----------------------------- MODULE RingQueue -----------------------------
(***************************************************************************)
(* The message queue of the threads library (iotc_net/mthread.c): a ring   *)
(* of u32Length buffers under one mutex with two condition variables.      *)
(*                                                                         *)
(* mQueueEnqueue copies its data into a buffer of the ring.  mQueueDequeue *)
(* copies nothing: it returns a pointer to the buffer.  The mutex protects *)
(* everything up to the unlock, so a critical section is one action; the   *)
(* broadcast that follows the unlock is another one.                       *)
(*                                                                         *)
(* The queue exists from the start: QueueMemory has its creation and its   *)
(* end.  An item is the part of the data that fits into a buffer.          *)
(***************************************************************************)
EXTENDS Naturals, Sequences

CONSTANTS
    Producers, \* threads that call mQueueEnqueue
    Consumers, \* threads that call mQueueDequeue or mQueueDequeueTimed
    Timed,     \* those that call mQueueDequeueTimed
    Items,     \* data, each enqueued at most once
    NoItem,    \* a buffer nothing has been written to
    u32Length, \* number of buffers
    Second,    \* parts a second is divided into, 10^9 in the code
    Fraction   \* the part of the waiting time below a second

ASSUME QueueAssumption ==
    /\ u32Length \in Nat \ {0}
    /\ Producers \cap Consumers = {}
    /\ Timed \subseteq Consumers
    /\ NoItem \notin Items
    /\ Second \in Nat \ {0} /\ Fraction \in 0 .. Second - 1

Threads == Producers \cup Consumers
Slots == 0 .. u32Length - 1

VARIABLES
    apvBuffer, \* what each buffer of the ring contains
    u32Front,  \* the buffer to read next
    u32Rear,   \* the buffer to write next
    pc,        \* where each thread is
    pvData,    \* what each producer enqueues
    sent,      \* history: the items that were enqueued
    last,      \* history: the buffer the latest dequeue returned
    got        \* history: what it contained then

ringVars == <<apvBuffer, u32Front, u32Rear, sent, last, got>>
vars == <<ringVars, pc, pvData>>

Init ==
    /\ apvBuffer = [i \in Slots |-> NoItem]
    /\ u32Front = 0
    /\ u32Rear = 0
    /\ pc = [t \in Threads |-> "out"]
    /\ pvData = [p \in Producers |-> NoItem]
    /\ sent = {}
    /\ last = 0
    /\ got = NoItem

Goto(t, place) == pc' = [pc EXCEPT ![t] = place]

\* The buffer after buffer i.
After(i) == (i + 1) % u32Length

\* Mistake to be caught: a full ring is not noticed.
NeverFull == FALSE

Full == After(u32Rear) = u32Front
Nothing == u32Front = u32Rear

\* Every thread of a set that waits goes back to the mutex.
Wake(ts) == [t \in Threads |-> IF t \in ts /\ pc[t] = "wait" THEN "lock" ELSE pc[t]]

\* pthread_cond_broadcast on cond_data_available, and on cond_space_available.
\* WakeOther are the mistakes to be caught: the other condition is signalled.
DataWakesOther == Producers
DataWakes == Consumers
SpaceWakesOther == Consumers
SpaceWakes == Producers
-----------------------------------------------------------------------------
(* mQueueEnqueue.                                                          *)

CallEnqueue(p, x) ==
    /\ pc[p] = "out"
    /\ x \notin sent /\ \A q \in Producers : pvData[q] # x
    /\ pvData' = [pvData EXCEPT ![p] = x]
    /\ Goto(p, "lock")
    /\ UNCHANGED ringVars

\* pthread_cond_wait on cond_space_available.
AwaitSpace(p) ==
    /\ pc[p] = "lock"
    /\ Full
    /\ Goto(p, "wait")
    /\ UNCHANGED <<ringVars, pvData>>

\* The data is copied into the buffer at the rear.
Enqueue(p) ==
    /\ pc[p] = "lock"
    /\ ~Full
    /\ apvBuffer' = [apvBuffer EXCEPT ![u32Rear] = pvData[p]]
    /\ u32Rear' = After(u32Rear)
    /\ sent' = sent \cup {pvData[p]}
    /\ Goto(p, "signal")
    /\ UNCHANGED <<u32Front, last, got, pvData>>

SignalData(p) ==
    /\ pc[p] = "signal"
    /\ pc' = [Wake(DataWakes) EXCEPT ![p] = "out"]
    /\ pvData' = [pvData EXCEPT ![p] = NoItem]
    /\ UNCHANGED ringVars
-----------------------------------------------------------------------------
(* mQueueDequeue and mQueueDequeueTimed.                                   *)

CallDequeue(c) ==
    /\ pc[c] = "out"
    /\ Goto(c, "lock")
    /\ UNCHANGED <<ringVars, pvData>>

Moments == 0 .. Second - 1

\* When a wait that begins at a moment of a second is to end, in seconds from the
\* beginning of that second and parts of a second.  There is a carry only beyond a
\* whole second.
Deadline(now, wait) ==
    IF now + wait > Second THEN [sec |-> 1, nsec |-> now + wait - Second]
    ELSE [sec |-> 0, nsec |-> now + wait]

\* pthread_cond_timedwait refuses a tv_nsec of a whole second.
Accepted(deadline) == deadline.nsec < Second

\* Mistake to be caught: mQueueDequeueTimed waits as mQueueDequeue does.
Endless(c) == FALSE

HasDeadline(c) == c \in Timed

\* pthread_cond_wait, or pthread_cond_timedwait, on cond_data_available.
AwaitData(c) ==
    /\ pc[c] = "lock"
    /\ Nothing
    /\ HasDeadline(c) => \E now \in Moments : Accepted(Deadline(now, Fraction))
    /\ Goto(c, "wait")
    /\ UNCHANGED <<ringVars, pvData>>

\* EINVAL: mQueueDequeueTimed returns E_QUEUE_ERROR_FAILED at once.
TimedFails(c) ==
    /\ pc[c] = "lock"
    /\ Nothing
    /\ HasDeadline(c) /\ \E now \in Moments : ~Accepted(Deadline(now, Fraction))
    /\ Goto(c, "out")
    /\ UNCHANGED <<ringVars, pvData>>

\* ETIMEDOUT: mQueueDequeueTimed returns without looking at the queue again.
TimedOut(c) ==
    /\ pc[c] = "wait"
    /\ HasDeadline(c)
    /\ Goto(c, "out")
    /\ UNCHANGED <<ringVars, pvData>>

\* The buffer at the front is the result; its contents stay where they are.
Dequeue(c) ==
    /\ pc[c] = "lock"
    /\ ~Nothing
    /\ u32Front' = After(u32Front)
    /\ last' = u32Front
    /\ got' = apvBuffer[u32Front]
    /\ Goto(c, "signal")
    /\ UNCHANGED <<apvBuffer, u32Rear, sent, pvData>>

SignalSpace(c) ==
    /\ pc[c] = "signal"
    /\ pc' = [Wake(SpaceWakes) EXCEPT ![c] = "out"]
    /\ UNCHANGED <<ringVars, pvData>>

\* A wait may end without a broadcast.
SpuriousWakeup(t) ==
    /\ pc[t] = "wait"
    /\ Goto(t, "lock")
    /\ UNCHANGED <<ringVars, pvData>>
-----------------------------------------------------------------------------
ProducerStep(p) == AwaitSpace(p) \/ Enqueue(p) \/ SignalData(p)
ConsumerStep(c) == AwaitData(c) \/ TimedFails(c) \/ Dequeue(c) \/ SignalSpace(c)

Next ==
    \/ \E p \in Producers : ProducerStep(p) \/ \E x \in Items : CallEnqueue(p, x)
    \/ \E c \in Consumers : ConsumerStep(c) \/ CallDequeue(c) \/ TimedOut(c)
    \/ \E t \in Threads : SpuriousWakeup(t)

\* A thread inside a call goes on when it can, and the time of a wait runs out.
\* Nothing makes a thread call.
Fairness ==
    /\ \A p \in Producers : WF_vars(ProducerStep(p))
    /\ \A c \in Consumers : WF_vars(ConsumerStep(c)) /\ WF_vars(TimedOut(c))

Spec == Init /\ [][Next]_vars

FairSpec == Spec /\ Fairness
-----------------------------------------------------------------------------
TypeOK ==
    /\ apvBuffer \in [Slots -> Items \cup {NoItem}]
    /\ u32Front \in Slots
    /\ u32Rear \in Slots
    /\ pc \in [Threads -> {"out", "lock", "wait", "signal"}]
    /\ pvData \in [Producers -> Items \cup {NoItem}]
    /\ sent \subseteq Items
    /\ last \in Slots
    /\ got \in Items \cup {NoItem}

\* A thread sleeps although it could go on only if the broadcast that will
\* wake it is still to come: each call broadcasts after its unlock, on the
\* condition the other side waits for.
NoLostWakeup ==
    /\ \A c \in Consumers :
          pc[c] = "wait" /\ ~Nothing => \E p \in Producers : pc[p] = "signal"
    /\ \A p \in Producers :
          pc[p] = "wait" /\ ~Full => \E c \in Consumers : pc[c] = "signal"

\* The buffer that mQueueDequeue returned last keeps its contents until the
\* next dequeue, although the ring counts it as free: a ring of u32Length
\* buffers is full with one buffer less.  A single consumer may use the data
\* until it calls again; with more, each call takes this away from the others.
LentIsIntact == got # NoItem => apvBuffer[last] = got

\* A consumer inside mQueueDequeue leaves it once there is data, or another
\* one takes the data.
ConsumerServed ==
    \A c \in Consumers :
        (pc[c] \in {"lock", "wait"} /\ ~Nothing) ~> (pc[c] \notin {"lock", "wait"} \/ Nothing)

\* A call of mQueueDequeueTimed ends, unless it begins to wait for ever again: each
\* wakeup that finds no data makes it compute a new deadline from the time of day,
\* so that the time it was given does not bound it (mthread.c:394).
TimedCallEnds == \A c \in Timed : []<>(pc[c] = "out") \/ []<><<AwaitData(c)>>_vars

\* A call of mQueueDequeueTimed that finds no data waits for some before it returns,
\* whatever the time of day: "a dequeue that waits with a delay; the waiting time can
\* be set, and then it returns" (the comment above it, mthread.c:375).
TimedWaits ==
    [][\A c \in Timed : pc[c] = "lock" /\ Nothing /\ pc'[c] # "lock" => pc'[c] = "wait"]_vars

\* A position in the ring, reduced, and the buffer at each position of the queue.
Wrap(a) == a % u32Length
Place(i) == Wrap(u32Front + i - 1)

\* The items in the ring, the oldest first.
Used == Wrap(u32Rear + u32Length - u32Front)
Contents == [i \in 1 .. Used |-> apvBuffer[Place(i)]]

Fifo == INSTANCE BoundedFifo WITH queue <- Contents, Capacity <- u32Length - 1

\* The ring is a queue of u32Length - 1 places: items come out once, in the
\* order they went in, and none is overwritten inside.
ImplementsFifo == Fifo!FifoSpec
=============================================================================
