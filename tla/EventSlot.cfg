\* Two posting calls of any kind, both threads and the whole shutdown, under
\* fairness.  The invariants are proved for any number of calls.
SPECIFICATION FairSpec
CONSTANTS
    Posts = {p1, p2}
    Exit = exit
    Empty = empty
INVARIANTS NoLostWakeup PendingIsFresh ServedUntilShutdown
PROPERTIES EventLeaves CleanShutdown ImplementsMailbox
