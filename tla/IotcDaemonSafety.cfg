\* Two connections that follow each other on one descriptor, a report and a
\* disconnect command, and the whole shutdown.
SPECIFICATION Spec
CONSTANTS
    m1 = m1
    m2 = m2
    light = light
    i1 = i1
    i2 = i2
    Conns = {c1, c2}
    Resettable = {}
    Msgs = {m1, m2}
    Parts = 1
    Fds = {5}
    Listen = 3
    MaxEvents = 2
    RecvCap = 1
    CountMod = 256
    Exit = exit
    Empty = empty
    Nodes = {n1}
    Indexes = {i1}
    KnownIds = {light}
    OtherIds = {}
    MaxDescs = 1
    U8Size = 256
    Content <- ReportAndDisconnect
SYMMETRY DaemonSymmetry
INVARIANTS PostedBeforeReuse DeviceFromMessage DisconnectsPosted
CHECK_DEADLOCK FALSE
