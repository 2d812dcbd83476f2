--------------------------- MODULE MCIotcDaemon ---------------------------
\* Instances of IotcDaemon for model checking.
EXTENDS IotcDaemon, TLC

CONSTANTS m1, m2, light, i1, i2

Light(i) == [id |-> light, index |-> i]

\* A report of one device, and a disconnect command.
ReportAndDisconnect ==
    (m1 :> [kind |-> "device", command |-> "report", descs |-> <<Light(i1)>>])
    @@ (m2 :> [kind |-> "device", command |-> "disconnect", descs |-> << >>])

\* A report of two devices.
TwoDevices == m1 :> [kind |-> "device", command |-> "report", descs |-> <<Light(i1), Light(i2)>>]

\* Nothing orders connections or addresses; used where no liveness is checked.
DaemonSymmetry == Permutations(Conns) \cup Permutations(Nodes)
=============================================================================
