--------------------------- MODULE ThreadLibrary ---------------------------
(***************************************************************************)
(* The threads of iotc_net/mthread.c together with its message queue: some *)
(* of the queue's consumers are threads that mThreadStart has started and  *)
(* mThreadStop ends, and the queue is destroyed when its users are gone.   *)
(*                                                                         *)
(* What a thread does is up to its prThreadFunction.  The library leaves   *)
(* E_THREAD_RUNNING to it, so it is taken to be what the header and the    *)
(* daemon's own threads suggest: store E_THREAD_RUNNING, go on while it is *)
(* there, call mThreadFinish; a round of the loop takes an item from the   *)
(* queue and makes a system call with it, under a lock of the library that *)
(* other threads use as well.                                              *)
(***************************************************************************)
EXTENDS RingQueue, LibraryLock

CONSTANT Started \* the consumers that mThreadStart starts

ASSUME StartedAssumption == Started \subseteq Consumers \cap LockUsers

VARIABLES
    eState,             \* tsThread.eState
    eThreadDetachState, \* tsThread.eThreadDetachState
    worker,             \* where the thread's function is
    caller,             \* where the user of tsThread is in mThreadStart and mThreadStop
    queue, buffers      \* the queue's existence and its memory, see QueueMemory

Memory == INSTANCE QueueMemory

memoryVars == <<queue, buffers>>
threadVars == <<eState, eThreadDetachState, worker, caller>>
libVars == <<vars, lockVars, threadVars, memoryVars>>

LibInit ==
    /\ Init
    /\ LockCreated
    /\ Memory!NoQueue
    /\ eState = [c \in Started |-> "STOPPED"]
    /\ eThreadDetachState = [c \in Started |-> "JOINABLE"]
    /\ worker = [c \in Started |-> "none"]
    /\ caller = [c \in Started |-> "out"]

Store(c, s) == eState' = [eState EXCEPT ![c] = s]
MoveWorker(c, place) == worker' = [worker EXCEPT ![c] = place]
MoveCaller(c, place) == caller' = [caller EXCEPT ![c] = place]
-----------------------------------------------------------------------------
(* The user of the library.                                                *)

Exists == queue = "created"

\* mQueueCreate, before anything else.
Create ==
    /\ Memory!CreateQueue \/ Memory!CreateFails \/ Memory!CreateBreaks
    /\ UNCHANGED <<vars, lockVars, threadVars>>

\* mThreadStart, also of a thread that was stopped before.  pthread_create may fail;
\* pthread_detach cannot (mthread.c:95), as the thread is joinable and was just created.
Start(c, d) ==
    /\ Exists
    /\ caller[c] \in {"out", "stopped"}
    /\ Store(c, "STOPPED")
    /\ eThreadDetachState' = [eThreadDetachState EXCEPT ![c] = d]
    /\ \/ MoveWorker(c, "begin") /\ MoveCaller(c, "started")
       \/ MoveCaller(c, "out") /\ UNCHANGED worker
    /\ UNCHANGED <<vars, lockVars, memoryVars>>

\* mThreadStop begins.
Stop(c) ==
    /\ caller[c] = "started"
    /\ Store(c, "STOPPING")
    /\ MoveCaller(c, "kill")
    /\ UNCHANGED <<vars, lockVars, eThreadDetachState, worker, memoryVars>>

\* Mistake to be caught: no signal is sent.
NotInterrupted(c) == worker

\* The signal ends the system call a thread is in, and nothing else.
Interrupted(c) == IF worker[c] = "syscall" THEN [worker EXCEPT ![c] = "unlock"] ELSE worker

\* pthread_kill; mThreadStop fails if the thread cannot be joined.
Kill(c) ==
    /\ caller[c] = "kill"
    /\ worker' = Interrupted(c)
    /\ MoveCaller(c, IF eThreadDetachState[c] = "JOINABLE" THEN "join" ELSE "failed")
    /\ UNCHANGED <<vars, lockVars, eState, eThreadDetachState, memoryVars>>

\* Mistake to be caught: the thread is not waited for.
Unawaited(c) == TRUE

\* pthread_join returns.
Joined(c) == worker[c] = "exited"

Join(c) ==
    /\ caller[c] = "join"
    /\ Joined(c)
    /\ Store(c, "STOPPED")
    /\ MoveCaller(c, "stopped")
    /\ UNCHANGED <<vars, lockVars, eThreadDetachState, worker, memoryVars>>

\* mQueueDestroy, by a user who has stopped the threads with success and knows
\* that the others are done.
Destroy ==
    /\ Memory!DestroyQueue
    /\ \A c \in Started : caller[c] \in {"out", "stopped"}
    /\ \A t \in Threads \ Started : pc[t] = "out"
    /\ UNCHANGED <<vars, lockVars, threadVars>>

\* mLockDestroy, by a user who is done with the queue and may be mistaken about the
\* lock's other users.
EndLock ==
    /\ queue = "destroyed"
    /\ LockDestroy
    /\ UNCHANGED <<vars, threadVars, memoryVars>>
-----------------------------------------------------------------------------
(* The thread's function.                                                  *)

Begin(c) ==
    /\ worker[c] = "begin"
    /\ Store(c, "RUNNING")
    /\ MoveWorker(c, "test")
    /\ UNCHANGED <<vars, lockVars, eThreadDetachState, caller, memoryVars>>

Test(c) ==
    /\ worker[c] = "test"
    /\ MoveWorker(c, IF eState[c] = "RUNNING" THEN "call" ELSE "finish")
    /\ UNCHANGED <<vars, lockVars, eState, eThreadDetachState, caller, memoryVars>>

\* A round of the loop: mQueueDequeue is called, and returns; mLockLock; a system
\* call that may last for ever; mLockUnlock.
TakeItem(c) ==
    /\ \/ /\ worker[c] = "call"
          /\ CallDequeue(c)
          /\ MoveWorker(c, "inside")
       \/ /\ worker[c] = "inside" /\ pc[c] = "out"
          /\ MoveWorker(c, "lock")
          /\ UNCHANGED vars
    /\ UNCHANGED <<lockVars, eState, eThreadDetachState, caller, memoryVars>>

UseLock(c) ==
    /\ \/ worker[c] = "lock" /\ LockLock(c) /\ MoveWorker(c, "syscall")
       \/ worker[c] = "unlock" /\ LockUnlock(c) /\ MoveWorker(c, "test")
    /\ UNCHANGED <<vars, eState, eThreadDetachState, caller, memoryVars>>

SyscallReturns(c) ==
    /\ worker[c] = "syscall"
    /\ MoveWorker(c, "unlock")
    /\ UNCHANGED <<vars, lockVars, eState, eThreadDetachState, caller, memoryVars>>

\* mThreadFinish: the state is stored and the thread ends.
Finish(c) ==
    /\ worker[c] = "finish"
    /\ Store(c, "STOPPED")
    /\ MoveWorker(c, "exited")
    /\ UNCHANGED <<vars, lockVars, eThreadDetachState, caller, memoryVars>>
-----------------------------------------------------------------------------
WorkerStep(c) == Begin(c) \/ Test(c) \/ TakeItem(c) \/ UseLock(c) \/ Finish(c)
CallerStep(c) == Kill(c) \/ Join(c)

\* The steps of the queue; only the threads of the library call it by their own rule.
QueueStep ==
    /\ \/ \E p \in Producers : ProducerStep(p) \/ (Exists /\ \E x \in Items : CallEnqueue(p, x))
       \/ \E c \in Consumers : ConsumerStep(c) \/ TimedOut(c)
       \/ Exists /\ \E c \in Consumers \ Started : CallDequeue(c)
       \/ \E t \in Threads : SpuriousWakeup(t)
    /\ UNCHANGED <<lockVars, threadVars, memoryVars>>

\* The lock's other users call its functions in any order.
LockStep ==
    /\ \E t \in LockUsers \ Started : LockLock(t) \/ TryLock(t) \/ LockTimed(t) \/ LockUnlock(t)
    /\ UNCHANGED <<vars, threadVars, memoryVars>>

LibNext ==
    \/ QueueStep \/ LockStep
    \/ \E c \in Started : \/ \E d \in {"JOINABLE", "DETACHED"} : Start(c, d)
                          \/ Stop(c) \/ CallerStep(c)
                          \/ WorkerStep(c) \/ SyscallReturns(c)
    \/ Create \/ Destroy \/ EndLock

LibSpec == LibInit /\ [][LibNext]_libVars

\* The threads run; nobody has to start or stop one, and a system call need not return.
FairLibSpec ==
    /\ LibSpec
    /\ Fairness
    /\ \A c \in Started : WF_libVars(WorkerStep(c)) /\ WF_libVars(CallerStep(c))
-----------------------------------------------------------------------------
LibTypeOK ==
    /\ TypeOK
    /\ LockTypeOK
    /\ eState \in [Started -> {"STOPPED", "RUNNING", "STOPPING"}]
    /\ eThreadDetachState \in [Started -> {"JOINABLE", "DETACHED"}]
    /\ worker \in [Started -> {"none", "begin", "test", "call", "inside", "lock", "syscall", "unlock", "finish", "exited"}]
    /\ caller \in [Started -> {"out", "started", "kill", "join", "failed", "stopped"}]
    /\ Memory!MemoryTypeOK

\* A queue whose consumers were stopped by a successful mThreadStop can be
\* destroyed: no thread is inside it, or will ever be (mthread.c:121).
DestroyedUnused ==
    ~Exists => /\ \A t \in Threads : pc[t] = "out"
               /\ \A c \in Started : worker[c] \in {"none", "exited"}

\* A creation that fails frees what it has allocated and nothing else, so that the
\* program can go on from E_QUEUE_ERROR_NO_MEM (mthread.h:91): the loop at ERR means
\* to free the elements that are not NULL (mthread.c:278).
FreesOnlyAllocated == queue # "broken"

\* A joinable thread that is in a system call when mThreadStop sends its signal
\* is ended: it gets out and sees E_THREAD_STOPPING.  mThreadStop may wait for
\* ever for a thread inside mQueueDequeue or on its way to a system call, and for
\* one that stores E_THREAD_RUNNING over the request (mthread.c:115).
StopInterrupts ==
    \A c \in Started :
        (/\ caller[c] = "kill" /\ eThreadDetachState[c] = "JOINABLE"
         /\ worker[c] = "syscall" /\ eState[c] = "STOPPING") ~> (caller[c] = "stopped")

\* E_THREAD_STOPPED is in tsThread only while its thread has not begun or is over.
StoppedIsOver ==
    \A c \in Started : eState[c] = "STOPPED" => worker[c] \in {"none", "begin", "exited"}
=============================================================================
