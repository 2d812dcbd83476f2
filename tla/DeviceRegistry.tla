-------------------------- MODULE DeviceRegistry --------------------------
(***************************************************************************)
(* The device list of the master daemon (iotc_devices.c) and the two       *)
(* handlers of the network thread that change it (iotc_network.c).         *)
(*                                                                         *)
(* The list is modelled with the memory it lives in: nodes come from       *)
(* malloc, are linked into the list and are freed.  Every function of      *)
(* iotc_devices.c holds the list's mutex from start to end, so each is one *)
(* action; the handler of a report calls IotcDeviceAdd once per descriptor *)
(* and other threads run in between.  IotcDeviceFinished destroys the      *)
(* mutex; glibc then lets pthread_mutex_lock fail, and the functions,      *)
(* which ignore its result, work on.                                       *)
(*                                                                         *)
(* The list is a set: no function depends on the order of its nodes.       *)
(* Names, blDeviceOnline (only ever set to true) and the mutex of a node   *)
(* are left out.                                                           *)
(***************************************************************************)
EXTENDS Naturals, Sequences

CONSTANTS
    Nodes,    \* addresses malloc can return for a tsIotcDevice
    Fds,      \* socket descriptors
    Indexes,  \* device_index, the unique id of a device
    KnownIds, \* the values of device_id that IotcDeviceAddService has a case for
    OtherIds, \* further values of device_id
    MaxDescs, \* bound: descriptors in one report
    U8Size    \* number of values of u8DeviceNumber, 256 in the code

ASSUME RegistryAssumption ==
    /\ KnownIds \cap OtherIds = {}
    /\ MaxDescs \in Nat
    /\ U8Size \in Nat \ {0}

Ids == KnownIds \cup OtherIds
Descriptors == [id : Ids, index : Indexes]
Reports == UNION {[1 .. n -> Descriptors] : n \in 0 .. MaxDescs}

\* What psDeviceServer points to: a service malloc returned, or wherever the
\* fresh memory of the node happened to point.
Services == {"allocated", "garbage"}
Devices == [id : Ids, index : Indexes, fd : Fds, server : Services]

VARIABLES
    heap,     \* nodes that are allocated
    listed,   \* nodes linked into sIotcDeviceHead.list
    dev,      \* contents of the listed nodes
    lost,     \* history: nodes whose service could not be allocated
    finished, \* main has called IotcDeviceFinished
    wildFree, \* history: free was given a pointer malloc did not return
    fd,       \* the socket of the report the network thread works on
    todo,     \* the descriptors of this report still to be added
    given,    \* history: all descriptors of this report
    stale,    \* history: devices of this report that were listed under another socket
    intact    \* history: nothing failed and nothing was removed since it began

regVars == <<heap, listed, dev, lost, finished, wildFree>>
reportVars == <<fd, todo, given, stale, intact>>
vars == <<regVars, reportVars>>

Init ==
    /\ heap = {}
    /\ listed = {}
    /\ dev = [n \in {} |-> {}]
    /\ lost = {}
    /\ finished = FALSE
    /\ wildFree = FALSE
    /\ fd \in Fds
    /\ todo = << >>
    /\ given = << >>
    /\ stale = {}
    /\ intact = TRUE
-----------------------------------------------------------------------------
(* IotcNetworkHandleDevicesReport.                                         *)

\* Mistake to be caught: the first descriptor is skipped.
FromSecond(ds) == SubSeq(ds, 2, Len(ds) % U8Size)

\* The number of descriptors is kept in a uint8.
Accepted(ds) == SubSeq(ds, 1, Len(ds) % U8Size)

BeginReport(s, ds) ==
    /\ todo = << >>
    /\ fd' = s
    /\ todo' = Accepted(ds)
    /\ given' = ds
    /\ stale' = {}
    /\ intact' = TRUE
    /\ UNCHANGED regVars

NextDescriptor ==
    /\ todo # << >>
    /\ todo' = Tail(todo)
    /\ UNCHANGED <<fd, given>>

\* The list has the device under the socket of the report.
KnownToSocket(i) == \E n \in listed : dev[n].index = i /\ dev[n].fd = fd

\* The search loop of IotcDeviceAdd.  (Mistake to be caught: the search looks at the
\* devices of the same socket only, as KnownToSocket does.)
Exists(i) == \E n \in listed : dev[n].index = i

\* The index is in the list already: the node is left as it is, and so is the
\* socket it names.
AddExisting ==
    /\ NextDescriptor
    /\ Exists(Head(todo).index)
    /\ stale' = IF KnownToSocket(Head(todo).index) THEN stale ELSE stale \cup {Head(todo).index}
    /\ UNCHANGED <<regVars, intact>>

\* malloc of the node returns NULL.
AddNoMemory ==
    /\ NextDescriptor
    /\ ~Exists(Head(todo).index)
    /\ intact' = FALSE
    /\ UNCHANGED <<regVars, stale>>

\* IotcDeviceAddService returns an error: malloc of the service returned NULL.
\* The node is neither linked nor freed.
AddNoService(n) ==
    /\ NextDescriptor
    /\ ~Exists(Head(todo).index)
    /\ Head(todo).id \in KnownIds
    /\ n \notin heap
    /\ heap' = heap \cup {n}
    /\ lost' = lost \cup {n}
    /\ intact' = FALSE
    /\ UNCHANGED <<listed, dev, finished, wildFree, stale>>

\* The default case of IotcDeviceAddService leaves psDeviceServer unset.
ServiceFor(id) == IF id \in KnownIds THEN "allocated" ELSE "garbage"

\* The members of the new node are set from the descriptor.
Filled(n) ==
    dev' = [m \in listed \cup {n} |->
               IF m = n THEN [id |-> Head(todo).id, index |-> Head(todo).index,
                              fd |-> fd, server |-> ServiceFor(Head(todo).id)]
               ELSE dev[m]]

\* Everything succeeds: the node is linked at the end of the list.
AddNew(n) ==
    /\ NextDescriptor
    /\ ~Exists(Head(todo).index)
    /\ n \notin heap
    /\ heap' = heap \cup {n}
    /\ listed' = listed \cup {n}
    /\ Filled(n)
    /\ UNCHANGED <<lost, finished, wildFree, stale, intact>>
-----------------------------------------------------------------------------
(* The functions that remove devices: unlink, free the service, free the   *)
(* node.                                                                   *)

\* dl_list_del
Unlink(ns) ==
    /\ listed' = listed \ ns
    /\ dev' = [m \in listed \ ns |-> dev[m]]

\* Mistake to be caught: the unlinked nodes are not freed.
KeepMemory(ns) == UNCHANGED heap

\* free
FreeNodes(ns) == heap' = heap \ ns

RemoveAll(ns) ==
    /\ Unlink(ns)
    /\ FreeNodes(ns)
    /\ wildFree' = (wildFree \/ \E n \in ns : dev[n].server = "garbage")
    /\ intact' = FALSE
    /\ UNCHANGED <<lost, fd, todo, given, stale>>

\* IotcNetworkHandleSocketDisconnect, by the network thread between reports.
RemoveSocket(s) ==
    /\ todo = << >>
    /\ RemoveAll({n \in listed : dev[n].fd = s})
    /\ UNCHANGED finished

\* IotcDeviceRemove, exported for any thread; no code of the daemon calls it yet.
\* The node it is given is a node of the list: once that one is freed, the loop goes
\* on comparing with what it reads from the freed memory.
Remove(i, read) ==
    /\ RemoveAll({n \in listed : dev[n].index = i \/ (Exists(i) /\ dev[n].index \in read)})
    /\ UNCHANGED finished

\* IotcDeviceFinished, once, by main at any point of a report.
Finished ==
    /\ ~finished
    /\ RemoveAll(listed)
    /\ finished' = TRUE
-----------------------------------------------------------------------------
AddNext == AddExisting \/ AddNoMemory \/ \E n \in Nodes : AddNoService(n) \/ AddNew(n)

Next ==
    \/ \E s \in Fds, ds \in Reports : BeginReport(s, ds)
    \/ AddNext
    \/ \E s \in Fds : RemoveSocket(s)
    \/ \E i \in Indexes, read \in SUBSET Indexes : Remove(i, read)
    \/ Finished

Spec == Init /\ [][Next]_vars
-----------------------------------------------------------------------------
TypeOK ==
    /\ heap \subseteq Nodes
    /\ listed \subseteq Nodes
    /\ dev \in [listed -> Devices]
    /\ lost \subseteq Nodes
    /\ finished \in BOOLEAN
    /\ wildFree \in BOOLEAN
    /\ fd \in Fds
    /\ todo \in Seq(Descriptors)
    /\ given \in Seq(Descriptors)
    /\ stale \subseteq Indexes
    /\ intact \in BOOLEAN

\* No two listed devices have the same index, whichever sockets reported them
\* and however reports, removals and failures follow each other.
UniqueIndex ==
    \A m, n \in listed : dev[m].index = dev[n].index => m = n

\* The list never contains freed memory.
NoDangling == listed \subseteq heap

\* Memory of a node is unreachable only if the allocation of its service
\* failed; removal and IotcDeviceFinished lose nothing.
LostOnlyByFailure == heap = listed \cup lost /\ listed \cap lost = {}

\* The device is listed under the socket of the report, or was under another one.
Placed(i) == KnownToSocket(i) \/ (Exists(i) /\ i \in stale)

\* When a report is finished, every device it named is in the list, unless
\* there were more descriptors than a uint8 counts, an allocation failed, or
\* devices were removed meanwhile.  It is listed under the socket of the report,
\* unless the list had it under another one: such a device keeps the socket it had
\* when it came, which may be closed (iotc_devices.c:88).
ReportTakesEffect ==
    (todo = << >> /\ intact /\ Len(given) < U8Size) =>
        \A j \in DOMAIN given : Placed(given[j].index)

\* How far a report that meets no obstacle has got: what is left of it is its
\* end, and the devices before this end are in the list.
ReportProgress ==
    (intact /\ Len(given) < U8Size) =>
        /\ Len(todo) <= Len(given)
        /\ \A j \in 1 .. Len(todo) : todo[j] = given[Len(given) - Len(todo) + j]
        /\ \A j \in 1 .. Len(given) - Len(todo) : Placed(given[j].index)

\* Removing a device frees only pointers that malloc returned.
\*
\* The design document (doc/IOTC概要设计文档.docx) lets a device of unknown
\* type join with device_id 0; such a device reaches the default case (iotc_devices.c:321).
NoWildFree == ~wildFree
=============================================================================
