\* Two connections, whose descriptors are used again, and two messages that arrive in
\* two parts each; the event list holds two entries; the counter wraps at two.
SPECIFICATION FairSpec
CONSTANTS
    Conns = {c1, c2}
    Resettable = {c1}
    Msgs = {m1, m2}
    Parts = 2
    Fds = {5, 6}
    Listen = 3
    MaxEvents = 2
    RecvCap = 2
    CountMod = 2
INVARIANTS ListMatchesSockets NeverBlocks TextIsMessage
PROPERTIES ReadUnlessMissed StopReachesServer
CHECK_DEADLOCK FALSE
