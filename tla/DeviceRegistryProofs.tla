----------------------- MODULE DeviceRegistryProofs -----------------------
(***************************************************************************)
(* The safety properties of the device list, for any memory, any number of *)
(* sockets and devices, and reports of any length.                         *)
(***************************************************************************)
EXTENDS DeviceRegistry, TLAPS

\* The part of the invariant that concerns the list and its memory.
ListInv ==
    /\ UniqueIndex
    /\ NoDangling
    /\ LostOnlyByFailure

IInv ==
    /\ TypeOK
    /\ ListInv
    /\ ReportProgress

-----------------------------------------------------------------------------
\* A report is a sequence of descriptors.
LEMMA ReportsAreSequences == Reports \subseteq Seq(Descriptors)
<1> SUFFICES ASSUME NEW ds \in Reports PROVE ds \in Seq(Descriptors)
  OBVIOUS
<1>1. PICK n \in 0 .. MaxDescs : ds \in [1 .. n -> Descriptors]
  BY DEF Reports
<1>2. n \in Nat
  BY RegistryAssumption
<1> QED BY <1>1, <1>2

\* The accepted part of a report is a prefix of it, and all of it if a uint8
\* can count its descriptors.
LEMMA AcceptedPart ==
    ASSUME NEW ds \in Seq(Descriptors)
    PROVE  /\ Accepted(ds) \in Seq(Descriptors)
           /\ Len(ds) < U8Size => Accepted(ds) = ds
<1>1. Len(ds) % U8Size \in 0 .. Len(ds)
  BY RegistryAssumption
<1>2. Accepted(ds) \in Seq(Descriptors)
  BY <1>1 DEF Accepted
<1>3. ASSUME Len(ds) < U8Size PROVE Accepted(ds) = ds
  <2>1. Len(ds) % U8Size = Len(ds)
    BY <1>3, RegistryAssumption
  <2> QED BY <2>1 DEF Accepted
<1> QED BY <1>2, <1>3

\* The empty list satisfies the invariant.
LEMMA InitIInv == Init => IInv
<1> SUFFICES ASSUME Init PROVE IInv
  OBVIOUS
<1> USE DEF Init
<1>1. TypeOK
  <2>1. dev \in [listed -> Devices]
    OBVIOUS
  <2>2. todo \in Seq(Descriptors) /\ given \in Seq(Descriptors)
    OBVIOUS
  <2> QED BY <2>1, <2>2 DEF TypeOK
<1>2. ListInv
  BY DEF ListInv, UniqueIndex, NoDangling, LostOnlyByFailure
<1>3. ReportProgress
  BY DEF ReportProgress
<1> QED BY <1>1, <1>2, <1>3 DEF IInv

\* A new report leaves the list alone and has made no progress.
LEMMA BeginKeepsIInv ==
    ASSUME IInv, NEW s \in Fds, NEW ds \in Reports, BeginReport(s, ds)
    PROVE  IInv'
<1> USE DEF BeginReport, regVars, IInv
<1>1. ds \in Seq(Descriptors)
  BY ReportsAreSequences
<1>2. TypeOK'
  BY <1>1, AcceptedPart DEF TypeOK
<1>3. ListInv'
  BY DEF ListInv, UniqueIndex, NoDangling, LostOnlyByFailure
<1>4. ReportProgress'
  BY <1>1, AcceptedPart DEF ReportProgress
<1> QED BY <1>2, <1>3, <1>4

\* One descriptor less: the end of the report that is left stays its end.
LEMMA ShorterEnd ==
    ASSUME todo \in Seq(Descriptors), given \in Seq(Descriptors), NextDescriptor,
           ReportProgress, intact, Len(given) < U8Size
    PROVE  /\ Len(todo') <= Len(given)
           /\ \A j \in 1 .. Len(todo') : todo'[j] = given[Len(given) - Len(todo') + j]
           /\ \A j \in 1 .. Len(given) - Len(todo') :
                 Placed(given[j].index) \/ given[j] = Head(todo)
<1> USE DEF NextDescriptor
<1>1. todo' \in Seq(Descriptors) /\ Len(todo') = Len(todo) - 1 /\ Len(todo) \in Nat \ {0}
  OBVIOUS
<1>2. \A j \in 1 .. Len(todo') : todo'[j] = todo[j + 1]
  OBVIOUS
<1>3. Head(todo) = todo[1]
  OBVIOUS
<1>4. /\ Len(todo) <= Len(given)
      /\ \A j \in 1 .. Len(todo) : todo[j] = given[Len(given) - Len(todo) + j]
      /\ \A j \in 1 .. Len(given) - Len(todo) : Placed(given[j].index)
  BY DEF ReportProgress
<1>5. Len(given) \in Nat
  OBVIOUS
<1>6. ASSUME NEW j \in 1 .. Len(todo') PROVE todo'[j] = given[Len(given) - Len(todo') + j]
  <2>1. j + 1 \in 1 .. Len(todo)
    BY <1>1
  <2>2. Len(given) - Len(todo) + (j + 1) = Len(given) - Len(todo') + j
    BY <1>1, <1>5
  <2> QED BY <1>2, <1>4, <2>1, <2>2
<1>7. ASSUME NEW j \in 1 .. Len(given) - Len(todo')
      PROVE  Placed(given[j].index) \/ given[j] = Head(todo)
  <2>1. CASE j \in 1 .. Len(given) - Len(todo)
    BY <2>1, <1>4
  <2>2. CASE j = Len(given) - Len(todo) + 1
    <3>1. 1 \in 1 .. Len(todo)
      BY <1>1
    <3> QED BY <2>2, <3>1, <1>3, <1>4
  <2> QED BY <2>1, <2>2, <1>1, <1>5
<1> QED BY <1>1, <1>4, <1>5, <1>6, <1>7

-----------------------------------------------------------------------------
\* Adding a descriptor of a report keeps the invariant: a new node is linked
\* only if no listed node has its index, under the one lock.
LEMMA AddKeepsIInv ==
    ASSUME IInv, AddNext
    PROVE  IInv'
<1> USE DEF IInv, regVars
<1>0. /\ todo \in Seq(Descriptors) /\ given \in Seq(Descriptors) /\ intact \in BOOLEAN
      /\ NextDescriptor
  BY DEF TypeOK, AddNext, AddExisting, AddNoMemory, AddNoService, AddNew
<1>1. /\ todo' \in Seq(Descriptors) /\ given' = given /\ fd' = fd
      /\ Head(todo) \in Descriptors
  BY <1>0 DEF NextDescriptor
<1>2. CASE AddExisting
  <2> USE <1>2 DEF AddExisting
  <2>1. TypeOK'
    <3>1. Head(todo).index \in Indexes
      BY <1>1 DEF Descriptors
    <3> QED BY <1>1, <3>1 DEF TypeOK
  <2>2. ListInv'
    BY DEF ListInv, UniqueIndex, NoDangling, LostOnlyByFailure
  <2>3. ReportProgress'
    <3>1. \A i : Placed(i) \/ i = Head(todo).index => Placed(i)'
      BY <1>1 DEF Placed, KnownToSocket, Exists
    <3> QED BY <1>0, <1>1, <3>1, ShorterEnd DEF ReportProgress
  <2> QED BY <2>1, <2>2, <2>3
<1>3. CASE AddNoMemory
  BY <1>3, <1>1 DEF AddNoMemory, TypeOK, ListInv, UniqueIndex, NoDangling,
     LostOnlyByFailure, ReportProgress
<1>4. ASSUME NEW n \in Nodes, AddNoService(n) PROVE IInv'
  BY <1>4, <1>1 DEF AddNoService, TypeOK, ListInv, UniqueIndex, NoDangling,
     LostOnlyByFailure, ReportProgress
<1>5. ASSUME NEW n \in Nodes, AddNew(n) PROVE IInv'
  <2> USE <1>5 DEF AddNew, Filled
  <2> DEFINE node == [id |-> Head(todo).id, index |-> Head(todo).index,
                      fd |-> fd, server |-> ServiceFor(Head(todo).id)]
  <2>1. n \notin listed /\ listed' = listed \cup {n}
    BY DEF ListInv, NoDangling
  <2>2. dev'[n] = node /\ \A m \in listed : dev'[m] = dev[m]
    BY <2>1
  <2>3. TypeOK'
    <3>1. node \in Devices
      BY <1>1 DEF Devices, Descriptors, Services, ServiceFor, TypeOK
    <3>2. \A m \in listed : dev[m] \in Devices
      BY DEF TypeOK
    <3>3. dev' \in [listed' -> Devices]
      BY <2>1, <3>1, <3>2
    <3> QED BY <1>1, <3>3 DEF TypeOK
  <2>4. ListInv'
    <3>1. UniqueIndex'
      BY <2>1, <2>2 DEF ListInv, UniqueIndex, Exists
    <3>2. NoDangling' /\ LostOnlyByFailure'
      BY <2>1 DEF ListInv, NoDangling, LostOnlyByFailure
    <3> QED BY <3>1, <3>2 DEF ListInv
  <2>5. ReportProgress'
    <3>1. \A i : Placed(i) \/ i = Head(todo).index => Placed(i)'
      BY <1>1, <2>1, <2>2 DEF Placed, KnownToSocket, Exists
    <3> QED BY <1>0, <1>1, <3>1, ShorterEnd DEF ReportProgress
  <2> QED BY <2>3, <2>4, <2>5
<1> QED BY <1>2, <1>3, <1>4, <1>5 DEF AddNext

\* Removing any part of the list keeps the invariant.
LEMMA RemoveKeepsIInv ==
    ASSUME IInv, NEW ns \in SUBSET listed, RemoveAll(ns), finished' \in BOOLEAN
    PROVE  IInv'
<1> USE DEF RemoveAll, Unlink, FreeNodes, IInv
<1>1. TypeOK'
  BY DEF TypeOK
<1>2. ListInv'
  BY DEF ListInv, UniqueIndex, NoDangling, LostOnlyByFailure
<1>3. ReportProgress'
  BY DEF ReportProgress
<1> QED BY <1>1, <1>2, <1>3

\* The invariant holds in every reachable state.
THEOREM Invariance == Spec => []IInv
<1>1. ASSUME IInv, [Next]_vars PROVE IInv'
  <2>1. ASSUME NEW s \in Fds, RemoveSocket(s) PROVE IInv'
    <3>1. {n \in listed : dev[n].fd = s} \in SUBSET listed
      OBVIOUS
    <3> QED BY <1>1, <2>1, <3>1, RemoveKeepsIInv DEF RemoveSocket, IInv, TypeOK
  <2>2. ASSUME NEW i \in Indexes, NEW read \in SUBSET Indexes, Remove(i, read) PROVE IInv'
    <3>1. {n \in listed : dev[n].index = i \/ (Exists(i) /\ dev[n].index \in read)} \in SUBSET listed
      OBVIOUS
    <3> QED BY <1>1, <2>2, <3>1, RemoveKeepsIInv DEF Remove, IInv, TypeOK
  <2>3. CASE Finished
    BY <1>1, <2>3, RemoveKeepsIInv DEF Finished, IInv, TypeOK
  <2>4. CASE UNCHANGED vars
    BY <1>1, <2>4 DEF vars, regVars, reportVars, IInv, TypeOK, ListInv, UniqueIndex,
       NoDangling, LostOnlyByFailure, ReportProgress, Placed, KnownToSocket, Exists
  <2> QED BY <1>1, <2>1, <2>2, <2>3, <2>4, BeginKeepsIInv, AddKeepsIInv DEF Next
<1> QED BY InitIInv, <1>1, PTL DEF Spec

\* The variables of the list keep their types.
THEOREM TypeCorrect == Spec => []TypeOK
BY Invariance, PTL DEF IInv

\* The device index is a key of the list: the search and the insertion of
\* IotcDeviceAdd are one critical section.
THEOREM IndexIsKey == Spec => []UniqueIndex
BY Invariance, PTL DEF IInv, ListInv

\* The list never links freed memory.
THEOREM NeverDangling == Spec => []NoDangling
BY Invariance, PTL DEF IInv, ListInv

\* The only memory that becomes unreachable is that of a node whose service
\* could not be allocated.
THEOREM OnlyFailureLeaks == Spec => []LostOnlyByFailure
BY Invariance, PTL DEF IInv, ListInv

\* A finished report that met no obstacle has all its devices in the list.
THEOREM ReportsComplete == Spec => []ReportTakesEffect
<1>1. IInv => ReportTakesEffect
  <2> SUFFICES ASSUME IInv, todo = << >>, intact, Len(given) < U8Size
               PROVE  \A j \in DOMAIN given : Placed(given[j].index)
    BY DEF ReportTakesEffect
  <2>1. given \in Seq(Descriptors) /\ Len(todo) = 0
    BY DEF IInv, TypeOK
  <2>2. DOMAIN given = 1 .. Len(given) - Len(todo)
    BY <2>1
  <2> QED BY <2>2 DEF IInv, ReportProgress
<1> QED BY <1>1, Invariance, PTL

=============================================================================
