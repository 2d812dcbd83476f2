---------------------------- MODULE LibraryLock ----------------------------
(***************************************************************************)
(* The lock functions of iotc_net/mthread.c, around a mutex of the kind    *)
(* PTHREAD_MUTEX_ERRORCHECK: locking it twice and unlocking another's      *)
(* mutex are errors, which mLockLock and mLockUnlock do not report, and    *)
(* neither does mLockDestroy that the mutex is in use.  A call that fails, *)
(* and one that waits, changes nothing.                                    *)
(***************************************************************************)
EXTENDS Naturals

CONSTANTS LockUsers, \* the threads that use the lock
          NoThread,  \* the owner of a mutex that is free
          MaxHeld    \* bound: how often a thread may lock without unlocking

ASSUME LockAssumption == NoThread \notin LockUsers /\ MaxHeld \in Nat

VARIABLES
    owner, \* the thread that has the mutex
    held,  \* how often each thread was told E_LOCK_OK and has not unlocked since
    misled, \* history: threads told so although the mutex refused them
    usable \* the mutex is not destroyed

lockVars == <<owner, held, misled, usable>>

\* mLockCreate
LockCreated ==
    /\ owner = NoThread
    /\ held = [t \in LockUsers |-> 0]
    /\ misled = {}
    /\ usable = TRUE

\* The mutex is free and taken.
Acquire(t) ==
    /\ usable /\ owner = NoThread
    /\ owner' = t
    /\ held' = [held EXCEPT ![t] = @ + 1]
    /\ UNCHANGED <<misled, usable>>

\* pthread_mutex_lock refuses the owner with EDEADLK, and anybody if the mutex is
\* destroyed.
Refused(t) == owner = t \/ ~usable

\* mLockLock: it waits, or reports E_LOCK_OK, also to a thread that is refused.
LockLock(t) ==
    /\ held[t] < MaxHeld
    /\ \/ Acquire(t)
       \/ /\ Refused(t)
          /\ held' = [held EXCEPT ![t] = @ + 1]
          /\ misled' = misled \cup {t}
          /\ UNCHANGED <<owner, usable>>

\* mLockTryLock fails whoever has the mutex.
TryLock(t) == held[t] < MaxHeld /\ Acquire(t)

\* mLockLockTimed takes the mutex if it becomes free in time; it reports an
\* error to the owner.
LockTimed(t) == held[t] < MaxHeld /\ Acquire(t)

\* Mistake to be caught: a mutex of the normal kind is unlocked by anybody.
ByAnybody(t) == owner' = NoThread

\* pthread_mutex_unlock, which refuses everybody but the owner.
Release(t) == owner' = IF owner = t THEN NoThread ELSE owner

\* mLockUnlock reports success in any case.
LockUnlock(t) ==
    /\ held[t] > 0
    /\ held' = [held EXCEPT ![t] = @ - 1]
    /\ Release(t)
    /\ misled' = IF held[t] = 1 THEN misled \ {t} ELSE misled
    /\ UNCHANGED usable

\* mLockDestroy reports success in any case; a mutex that somebody has stays as it is.
LockDestroy ==
    /\ usable' = (usable /\ owner # NoThread)
    /\ UNCHANGED <<owner, held, misled>>
-----------------------------------------------------------------------------
LockTypeOK ==
    /\ owner \in LockUsers \cup {NoThread}
    /\ held \in [LockUsers -> 0 .. MaxHeld]
    /\ misled \subseteq LockUsers
    /\ usable \in BOOLEAN

\* A thread that was told E_LOCK_OK, and never for a mutex that refused it, has
\* the mutex until it unlocks it, however often other threads unlock it too often
\* (mthread.c:161) and whoever calls mLockDestroy.  After a nested mLockLock the
\* first unlock gives it up.
HolderIsOwner == \A t \in LockUsers : held[t] > 0 /\ t \notin misled => owner = t
=============================================================================
