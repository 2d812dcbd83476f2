---------------------------- MODULE QueueMemory ----------------------------
(***************************************************************************)
(* The life of a message queue of the threads library and of the memory it *)
(* owns: mQueueCreate and mQueueDestroy of iotc_net/mthread.c.  The array  *)
(* of buffers comes from malloc and is not cleared.                        *)
(*                                                                         *)
(* The user calls each in its turn: a queue is created once, a failed      *)
(* creation may be repeated, and only a queue that exists is destroyed.    *)
(***************************************************************************)
EXTENDS Naturals

CONSTANT u32Length \* number of buffers

Slots == 0 .. u32Length - 1

VARIABLES
    queue,  \* what the user has: nothing yet, a queue, a destroyed one, a broken heap
    buffers \* the buffers of the array that malloc has returned and nobody has freed

memoryVars == <<queue, buffers>>

NoQueue == queue = "none" /\ buffers = {}

\* The loop of mQueueDestroy, and the one at ERR: all elements of the array that
\* are not NULL are freed.
Freed == Slots

\* Everything is allocated.
CreateQueue ==
    /\ queue = "none"
    /\ queue' = "created"
    /\ buffers' = Slots

\* The array, or its k-th buffer, cannot be allocated: what was allocated is freed.
CreateFails ==
    /\ queue = "none"
    /\ \E k \in Slots : buffers' = (0 .. k - 1) \ Freed
    /\ UNCHANGED queue

\* The elements behind the k-th were never set.  If one of them is not NULL, free
\* is called with it, and nothing is known of the program from there on.
CreateBreaks ==
    /\ queue = "none"
    /\ \E k \in Slots : (k + 1 .. u32Length - 1) \cap Freed # {}
    /\ queue' = "broken"
    /\ UNCHANGED buffers

DestroyQueue ==
    /\ queue = "created"
    /\ queue' = "destroyed"
    /\ buffers' = buffers \ Freed
-----------------------------------------------------------------------------
MemoryTypeOK ==
    /\ queue \in {"none", "created", "destroyed", "broken"}
    /\ buffers \subseteq Slots
=============================================================================
