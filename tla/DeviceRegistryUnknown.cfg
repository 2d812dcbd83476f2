\* One socket reports devices of a known and of an unknown type.
SPECIFICATION Spec
CONSTANTS
    Nodes = {n1, n2}
    Fds = {f1}
    Indexes = {i1, i2}
    KnownIds = {light}
    OtherIds = {unknown}
    MaxDescs = 2
    U8Size = 256
INVARIANTS NoWildFree
