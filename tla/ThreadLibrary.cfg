\* A producer, a plain consumer that is started and stopped, a timed one that is
\* not, three buffers and enough items to go round the ring; a waiting time that
\* can end on a whole second.  k1 is another user of the lock, who may lock twice.
SPECIFICATION FairLibSpec
CONSTANTS
    Producers = {p1}
    Consumers = {c1, c2}
    Timed = {c2}
    Started = {c1}
    LockUsers = {c1, k1}
    NoThread = nobody
    MaxHeld = 2
    Items = {d1, d2, d3, d4}
    NoItem = none
    u32Length = 3
    Second = 4
    Fraction = 1
INVARIANTS NoLostWakeup LentIsIntact DestroyedUnused HolderIsOwner
PROPERTIES ConsumerServed TimedCallEnds ImplementsFifo StopInterrupts
CHECK_DEADLOCK FALSE
