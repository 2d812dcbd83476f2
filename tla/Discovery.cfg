\* A master of each kind, any of them in the device's group, and a device.
SPECIFICATION FairSpec
CONSTANTS
    Servers = {s1, s2}
    Multicast = {s2}
    Clients = {k1}
    Group = group
    NoClient = nobody
    MaxFailures = 2
INVARIANTS FewUnderWay OneMoreAnswer
PROPERTIES ClientAnswered
\* A client that asked nobody, or a server that is gone, waits for ever.
CHECK_DEADLOCK FALSE
