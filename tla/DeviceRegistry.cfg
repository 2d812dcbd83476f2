\* Two devices, of known and of unknown type, on two sockets; reports of up to
\* three descriptors, where the count wraps; memory for three nodes.
SPECIFICATION Spec
CONSTANTS
    Nodes = {n1, n2, n3}
    Fds = {f1, f2}
    Indexes = {i1, i2}
    KnownIds = {light}
    OtherIds = {unknown}
    MaxDescs = 3
    U8Size = 3
SYMMETRY RegistrySymmetry
INVARIANTS UniqueIndex LostOnlyByFailure ReportTakesEffect
