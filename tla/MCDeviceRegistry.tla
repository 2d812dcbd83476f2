------------------------- MODULE MCDeviceRegistry -------------------------
\* Instances of DeviceRegistry for model checking.
EXTENDS DeviceRegistry, TLC

\* Nothing orders addresses, sockets or device indexes.
RegistrySymmetry ==
    Permutations(Nodes) \cup Permutations(Fds) \cup Permutations(Indexes)
=============================================================================
