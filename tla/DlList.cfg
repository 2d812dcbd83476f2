\* Four nodes: a walk may delete neighbours, the first, the last or all of them.
SPECIFICATION FairSpec
CONSTANTS
    Nodes = {n1, n2, n3, n4}
    List = List
    NULL = NULL
INVARIANTS
    Ring
    HoldsAllocated
    NoUseAfterFree
    WalkDeletesMatching
PROPERTY
    WalkEnds
