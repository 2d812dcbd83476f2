\* One connection that reports two devices and closes or is reset, under fairness.
SPECIFICATION FairSpec
CONSTANTS
    m1 = m1
    m2 = m2
    light = light
    i1 = i1
    i2 = i2
    Conns = {c1}
    Resettable = {c1}
    Msgs = {m1}
    Parts = 1
    Fds = {5}
    Listen = 3
    MaxEvents = 2
    RecvCap = 1
    CountMod = 256
    Exit = exit
    Empty = empty
    Nodes = {n1, n2}
    Indexes = {i1, i2}
    KnownIds = {light}
    OtherIds = {}
    MaxDescs = 2
    U8Size = 256
    Content <- TwoDevices
PROPERTIES ReportReachesList
CHECK_DEADLOCK FALSE
