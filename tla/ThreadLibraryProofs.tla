------------------------ MODULE ThreadLibraryProofs ------------------------
(***************************************************************************)
(* Proofs about the threads library, for any number of threads, items and  *)
(* buffers.  First the message queue alone: its safety properties, and     *)
(* that it implements a bounded FIFO queue.  Then the library: its threads *)
(* use the queue as the queue's own specification allows, so what is       *)
(* proved of the queue holds, and a queue whose threads were stopped can   *)
(* be destroyed.                                                           *)
(***************************************************************************)
EXTENDS ThreadLibrary, TLAPS

-----------------------------------------------------------------------------
(* The message queue.                                                      *)

\* A producer inside mQueueEnqueue brings an item that is new, and that no
\* other producer brings.
NewItem ==
    \A p \in Producers :
        pc[p] \in {"lock", "wait"} =>
            /\ pvData[p] \in Items \ sent
            /\ \A q \in Producers \ {p} : pvData[q] # pvData[p]

\* The buffer that was lent last lies just before the front.
LentBeforeFront == got # NoItem => After(last) = u32Front

IInv == TypeOK /\ NewItem /\ NoLostWakeup /\ LentIsIntact /\ LentBeforeFront

\* Going one buffer further, without a division.
LEMMA AfterValue ==
    \A i \in Slots : After(i) = (IF i + 1 = u32Length THEN 0 ELSE i + 1)
<1>1. SUFFICES ASSUME NEW i \in Slots
               PROVE  After(i) = (IF i + 1 = u32Length THEN 0 ELSE i + 1)
  OBVIOUS
<1>2. CASE i + 1 = u32Length
  BY <1>2, QueueAssumption, Z3 DEF After, Slots
<1>3. CASE i + 1 # u32Length
  <2>1. i + 1 \in 0 .. u32Length - 1
    BY <1>3, QueueAssumption DEF Slots
  <2>2. (i + 1) % u32Length = i + 1
    BY <2>1, QueueAssumption, Z3
  <2> QED
    BY <1>3, <2>2 DEF After
<1> QED
  BY <1>2, <1>3

\* The index stays in the ring, and no two buffers have the same successor.
LEMMA AfterFacts ==
    /\ \A i \in Slots : After(i) \in Slots
    /\ \A i, j \in Slots : After(i) = After(j) => i = j
<1>1. \A i \in Slots : After(i) \in Slots
  BY AfterValue, QueueAssumption DEF Slots
<1>2. ASSUME NEW i \in Slots, NEW j \in Slots, After(i) = After(j)
      PROVE  i = j
  BY <1>2, AfterValue, QueueAssumption DEF Slots
<1> QED
  BY <1>1, <1>2
-----------------------------------------------------------------------------
\* The queue starts in a state that satisfies the invariant.
LEMMA InitInv == Init => IInv
  BY QueueAssumption DEF Init, IInv, TypeOK, NewItem, NoLostWakeup, LentIsIntact,
     LentBeforeFront, Slots, Threads, Nothing

\* A step keeps the types.
LEMMA NextType == IInv /\ [Next]_vars => TypeOK'
<1> SUFFICES ASSUME IInv, [Next]_vars PROVE TypeOK'
  OBVIOUS
<1> USE QueueAssumption, AfterFacts DEF IInv, TypeOK, Threads
<1>1. ASSUME NEW p \in Producers, NEW x \in Items, CallEnqueue(p, x) PROVE TypeOK'
  BY <1>1 DEF CallEnqueue, Goto, ringVars
<1>2. ASSUME NEW p \in Producers, AwaitSpace(p) PROVE TypeOK'
  BY <1>2 DEF AwaitSpace, Goto, ringVars
<1>3. ASSUME NEW p \in Producers, Enqueue(p) PROVE TypeOK'
  BY <1>3 DEF Enqueue, Goto, NewItem
<1>4. ASSUME NEW p \in Producers, SignalData(p) PROVE TypeOK'
  BY <1>4 DEF SignalData, Wake, DataWakes, ringVars
<1>5. ASSUME NEW c \in Consumers, CallDequeue(c) PROVE TypeOK'
  BY <1>5 DEF CallDequeue, Goto, ringVars
<1>6. ASSUME NEW c \in Consumers, AwaitData(c) PROVE TypeOK'
  BY <1>6 DEF AwaitData, Goto, ringVars
<1>7. ASSUME NEW c \in Consumers, TimedFails(c) \/ TimedOut(c) PROVE TypeOK'
  BY <1>7 DEF TimedFails, TimedOut, Goto, ringVars
<1>8. ASSUME NEW c \in Consumers, Dequeue(c) PROVE TypeOK'
  BY <1>8 DEF Dequeue, Goto
<1>9. ASSUME NEW c \in Consumers, SignalSpace(c) PROVE TypeOK'
  BY <1>9 DEF SignalSpace, Wake, SpaceWakes, ringVars
<1>10. ASSUME NEW t \in Threads, SpuriousWakeup(t) PROVE TypeOK'
  BY <1>10 DEF SpuriousWakeup, Goto, ringVars
<1>11. CASE UNCHANGED vars
  BY <1>11 DEF vars, ringVars
<1> QED
  BY <1>1, <1>2, <1>3, <1>4, <1>5, <1>6, <1>7, <1>8, <1>9, <1>10, <1>11
     DEF Next, ProducerStep, ConsumerStep

\* A step keeps the items in the hands of producers new.
LEMMA NextNew == IInv /\ [Next]_vars => NewItem'
<1> SUFFICES ASSUME IInv, [Next]_vars PROVE NewItem'
  OBVIOUS
<1> USE QueueAssumption DEF IInv, TypeOK, Threads, NewItem
<1>1. ASSUME NEW p \in Producers, NEW x \in Items, CallEnqueue(p, x) PROVE NewItem'
  BY <1>1 DEF CallEnqueue, Goto, ringVars
<1>2. ASSUME NEW p \in Producers, AwaitSpace(p) PROVE NewItem'
  BY <1>2 DEF AwaitSpace, Goto, ringVars
<1>3. ASSUME NEW p \in Producers, Enqueue(p) PROVE NewItem'
  BY <1>3 DEF Enqueue, Goto
<1>4. ASSUME NEW p \in Producers, SignalData(p) PROVE NewItem'
  BY <1>4 DEF SignalData, Wake, DataWakes, ringVars
<1>5. ASSUME NEW c \in Consumers, CallDequeue(c) PROVE NewItem'
  BY <1>5 DEF CallDequeue, Goto, ringVars
<1>6. ASSUME NEW c \in Consumers, AwaitData(c) PROVE NewItem'
  BY <1>6 DEF AwaitData, Goto, ringVars
<1>7. ASSUME NEW c \in Consumers, TimedFails(c) \/ TimedOut(c) PROVE NewItem'
  BY <1>7 DEF TimedFails, TimedOut, Goto, ringVars
<1>8. ASSUME NEW c \in Consumers, Dequeue(c) PROVE NewItem'
  BY <1>8 DEF Dequeue, Goto
<1>9. ASSUME NEW c \in Consumers, SignalSpace(c) PROVE NewItem'
  BY <1>9 DEF SignalSpace, Wake, SpaceWakes, ringVars
<1>10. ASSUME NEW t \in Threads, SpuriousWakeup(t) PROVE NewItem'
  BY <1>10 DEF SpuriousWakeup, Goto, ringVars
<1>11. CASE UNCHANGED vars
  BY <1>11 DEF vars, ringVars
<1> QED
  BY <1>1, <1>2, <1>3, <1>4, <1>5, <1>6, <1>7, <1>8, <1>9, <1>10, <1>11
     DEF Next, ProducerStep, ConsumerStep

\* A step leaves no thread asleep without a broadcast to come.
LEMMA NextWakeup == IInv /\ [Next]_vars => NoLostWakeup'
<1> SUFFICES ASSUME IInv, [Next]_vars PROVE NoLostWakeup'
  OBVIOUS
<1> USE QueueAssumption DEF IInv, TypeOK, Threads, NoLostWakeup, Nothing, Full
<1>1. ASSUME NEW p \in Producers, NEW x \in Items, CallEnqueue(p, x) PROVE NoLostWakeup'
  BY <1>1 DEF CallEnqueue, Goto, ringVars
<1>2. ASSUME NEW p \in Producers, AwaitSpace(p) PROVE NoLostWakeup'
  BY <1>2 DEF AwaitSpace, Goto, ringVars
<1>3. ASSUME NEW p \in Producers, Enqueue(p) PROVE NoLostWakeup'
  BY <1>3 DEF Enqueue, Goto
<1>4. ASSUME NEW p \in Producers, SignalData(p) PROVE NoLostWakeup'
  BY <1>4 DEF SignalData, Wake, DataWakes, ringVars
<1>5. ASSUME NEW c \in Consumers, CallDequeue(c) PROVE NoLostWakeup'
  BY <1>5 DEF CallDequeue, Goto, ringVars
<1>6. ASSUME NEW c \in Consumers, AwaitData(c) PROVE NoLostWakeup'
  BY <1>6 DEF AwaitData, Goto, ringVars
<1>7. ASSUME NEW c \in Consumers, TimedFails(c) \/ TimedOut(c) PROVE NoLostWakeup'
  BY <1>7 DEF TimedFails, TimedOut, Goto, ringVars
<1>8. ASSUME NEW c \in Consumers, Dequeue(c) PROVE NoLostWakeup'
  BY <1>8 DEF Dequeue, Goto
<1>9. ASSUME NEW c \in Consumers, SignalSpace(c) PROVE NoLostWakeup'
  BY <1>9 DEF SignalSpace, Wake, SpaceWakes, ringVars
<1>10. ASSUME NEW t \in Threads, SpuriousWakeup(t) PROVE NoLostWakeup'
  BY <1>10 DEF SpuriousWakeup, Goto, ringVars
<1>11. CASE UNCHANGED vars
  BY <1>11 DEF vars, ringVars
<1> QED
  BY <1>1, <1>2, <1>3, <1>4, <1>5, <1>6, <1>7, <1>8, <1>9, <1>10, <1>11
     DEF Next, ProducerStep, ConsumerStep

\* A step does not write to the buffer lent last: the buffer at the rear is
\* another one, or else the ring would be full.
LEMMA NextLent == IInv /\ [Next]_vars => (LentIsIntact /\ LentBeforeFront)'
<1> SUFFICES ASSUME IInv, [Next]_vars PROVE (LentIsIntact /\ LentBeforeFront)'
  OBVIOUS
<1> USE QueueAssumption, AfterFacts DEF IInv, TypeOK, Threads, LentIsIntact, LentBeforeFront
<1>1. ASSUME NEW p \in Producers, NEW x \in Items, CallEnqueue(p, x) PROVE (LentIsIntact /\ LentBeforeFront)'
  BY <1>1 DEF CallEnqueue, Goto, ringVars
<1>2. ASSUME NEW p \in Producers, AwaitSpace(p) PROVE (LentIsIntact /\ LentBeforeFront)'
  BY <1>2 DEF AwaitSpace, Goto, ringVars
<1>3. ASSUME NEW p \in Producers, Enqueue(p) PROVE (LentIsIntact /\ LentBeforeFront)'
  BY <1>3 DEF Enqueue, Full
<1>4. ASSUME NEW p \in Producers, SignalData(p) PROVE (LentIsIntact /\ LentBeforeFront)'
  BY <1>4 DEF SignalData, Wake, DataWakes, ringVars
<1>5. ASSUME NEW c \in Consumers, CallDequeue(c) PROVE (LentIsIntact /\ LentBeforeFront)'
  BY <1>5 DEF CallDequeue, Goto, ringVars
<1>6. ASSUME NEW c \in Consumers, AwaitData(c) PROVE (LentIsIntact /\ LentBeforeFront)'
  BY <1>6 DEF AwaitData, Goto, ringVars
<1>7. ASSUME NEW c \in Consumers, TimedFails(c) \/ TimedOut(c) PROVE (LentIsIntact /\ LentBeforeFront)'
  BY <1>7 DEF TimedFails, TimedOut, Goto, ringVars
<1>8. ASSUME NEW c \in Consumers, Dequeue(c) PROVE (LentIsIntact /\ LentBeforeFront)'
  BY <1>8 DEF Dequeue, Goto
<1>9. ASSUME NEW c \in Consumers, SignalSpace(c) PROVE (LentIsIntact /\ LentBeforeFront)'
  BY <1>9 DEF SignalSpace, Wake, SpaceWakes, ringVars
<1>10. ASSUME NEW t \in Threads, SpuriousWakeup(t) PROVE (LentIsIntact /\ LentBeforeFront)'
  BY <1>10 DEF SpuriousWakeup, Goto, ringVars
<1>11. CASE UNCHANGED vars
  BY <1>11 DEF vars, ringVars
<1> QED
  BY <1>1, <1>2, <1>3, <1>4, <1>5, <1>6, <1>7, <1>8, <1>9, <1>10, <1>11
     DEF Next, ProducerStep, ConsumerStep
-----------------------------------------------------------------------------
\* Every step keeps the invariant.
LEMMA Inductive == IInv /\ [Next]_vars => IInv'
  BY NextType, NextNew, NextWakeup, NextLent DEF IInv

\* The inductive invariant holds in every reachable state.
THEOREM Invariance == Spec => []IInv
  BY InitInv, Inductive, PTL DEF Spec

\* The indexes stay in the ring, and everything has its type.
THEOREM TypeCorrect == Spec => []TypeOK
  BY Invariance, PTL DEF IInv

\* No thread sleeps while it could go on without a broadcast to come: the
\* broadcasts of mQueueEnqueue and mQueueDequeue reach their waiters.
THEOREM WakeupsReach == Spec => []NoLostWakeup
  BY Invariance, PTL DEF IInv

\* The buffer mQueueDequeue returned last is not written before the next
\* dequeue, whatever the number of threads and buffers.
THEOREM LentStaysIntact == Spec => []LentIsIntact
  BY Invariance, PTL DEF IInv
-----------------------------------------------------------------------------
(* The ring implements the bounded queue.                                  *)

\* A position less than twice round the ring is reduced by one subtraction.
LEMMA Reduced ==
    \A a \in 0 .. 2 * u32Length - 1 :
        Wrap(a) = (IF a < u32Length THEN a ELSE a - u32Length)
<1>1. ASSUME NEW a \in 0 .. u32Length - 1
      PROVE  a % u32Length = a
  BY QueueAssumption, Z3
<1>2. ASSUME NEW a \in u32Length .. 2 * u32Length - 1
      PROVE  a % u32Length = a - u32Length
  BY QueueAssumption, Z3
<1> QED
  BY <1>1, <1>2, QueueAssumption DEF Wrap

\* From one buffer of the ring to another, and on from a buffer.
LEMMA Span ==
    \A f \in Slots, r \in Slots :
        /\ Wrap(r + u32Length - f) = (IF f <= r THEN r - f ELSE r + u32Length - f)
        /\ Wrap(r + u32Length - f) \in 0 .. u32Length - 1
<1> SUFFICES ASSUME NEW f \in Slots, NEW r \in Slots
             PROVE  /\ Wrap(r + u32Length - f) = (IF f <= r THEN r - f ELSE r + u32Length - f)
                    /\ Wrap(r + u32Length - f) \in 0 .. u32Length - 1
  OBVIOUS
<1> DEFINE a == r + u32Length - f
<1>1. a \in 0 .. 2 * u32Length - 1
  BY QueueAssumption DEF Slots
<1>2. Wrap(a) = (IF a < u32Length THEN a ELSE a - u32Length)
  BY <1>1, Reduced
<1> QED
  BY <1>2, QueueAssumption DEF Slots

LEMMA Onward ==
    \A f \in Slots : \A i \in 1 .. u32Length :
        /\ Wrap(f + i - 1) = (IF f + i - 1 < u32Length THEN f + i - 1 ELSE f + i - 1 - u32Length)
        /\ Wrap(f + i - 1) \in Slots
<1> SUFFICES ASSUME NEW f \in Slots, NEW i \in 1 .. u32Length
             PROVE  /\ Wrap(f + i - 1) = (IF f + i - 1 < u32Length THEN f + i - 1
                                          ELSE f + i - 1 - u32Length)
                    /\ Wrap(f + i - 1) \in Slots
  OBVIOUS
<1> DEFINE a == f + i - 1
<1>1. a \in 0 .. 2 * u32Length - 1
  BY QueueAssumption DEF Slots
<1>2. Wrap(a) = (IF a < u32Length THEN a ELSE a - u32Length)
  BY <1>1, Reduced
<1> QED
  BY <1>2, QueueAssumption DEF Slots

\* How many items there are.
LEMMA UsedValue ==
    ASSUME TypeOK
    PROVE  /\ Used = (IF u32Front <= u32Rear THEN u32Rear - u32Front
                      ELSE u32Rear + u32Length - u32Front)
           /\ Used \in 0 .. u32Length - 1
  BY Span DEF TypeOK, Used

\* The contents are a sequence as long as the ring is full.
LEMMA ContentsLen ==
    ASSUME TypeOK
    PROVE  Contents \in Seq(Items \cup {NoItem}) /\ Len(Contents) = Used
<1> USE QueueAssumption
<1>1. Used \in Nat /\ Used < u32Length
  BY UsedValue
<1>2. \A i \in 1 .. Used : Place(i) \in Slots
  <2> SUFFICES ASSUME NEW i \in 1 .. Used PROVE Place(i) \in Slots
    OBVIOUS
  <2>1. i \in 1 .. u32Length
    BY <1>1
  <2> QED
    BY <2>1, Onward DEF TypeOK, Place
<1>3. \A i \in 1 .. Used : apvBuffer[Place(i)] \in Items \cup {NoItem}
  BY <1>2 DEF TypeOK
<1> QED
  BY <1>1, <1>3 DEF Contents

\* A sequence is the function of its elements.
LEMMA AsFunction ==
    ASSUME NEW S, NEW s \in Seq(S)
    PROVE  s = [i \in 1 .. Len(s) |-> s[i]]
  OBVIOUS

\* mQueueEnqueue appends.
LEMMA EnqueueInserts ==
    ASSUME TypeOK, TypeOK', NewItem, NEW p \in Producers, Enqueue(p)
    PROVE  Fifo!Insert(pvData[p])
<1>1. pvData[p] \in Items /\ pvData[p] \notin sent
  BY DEF Enqueue, NewItem
<1>2. /\ u32Length \in Nat \ {0}
      /\ u32Front \in 0 .. u32Length - 1 /\ u32Rear \in 0 .. u32Length - 1
      /\ u32Front' = u32Front
      /\ u32Rear' = (IF u32Rear + 1 = u32Length THEN 0 ELSE u32Rear + 1)
      /\ u32Rear' # u32Front
  BY AfterValue, QueueAssumption DEF Enqueue, Full, TypeOK, Slots
<1>3. /\ Used = (IF u32Front <= u32Rear THEN u32Rear - u32Front
                 ELSE u32Rear + u32Length - u32Front)
      /\ Used \in 0 .. u32Length - 1
  BY UsedValue
<1>4. Used' = (IF u32Front' <= u32Rear' THEN u32Rear' - u32Front'
               ELSE u32Rear' + u32Length - u32Front')
  <2>1. Used' = Wrap(u32Rear' + u32Length - u32Front')
    BY Zenon DEF Used, Wrap
  <2>2. u32Rear' \in Slots /\ u32Front' \in Slots
    BY DEF TypeOK
  <2> QED
    BY <2>1, <2>2, Span
<1>5. Used' = Used + 1 /\ Used + 1 \in 1 .. u32Length - 1
  BY <1>2, <1>3, <1>4
<1>6. \A i \in 1 .. Used + 1 :
         /\ Place(i) = (IF u32Front + i - 1 < u32Length THEN u32Front + i - 1
                        ELSE u32Front + i - 1 - u32Length)
         /\ Place(i) \in Slots
  <2> SUFFICES ASSUME NEW i \in 1 .. Used + 1
               PROVE  /\ Place(i) = (IF u32Front + i - 1 < u32Length THEN u32Front + i - 1
                                     ELSE u32Front + i - 1 - u32Length)
                      /\ Place(i) \in Slots
    OBVIOUS
  <2>1. i \in 1 .. u32Length /\ u32Front \in Slots
    BY <1>2, <1>5 DEF Slots
  <2> QED
    BY <2>1, Onward DEF Place
<1>7. \A i \in 1 .. Used : Place(i) # u32Rear
  <2> SUFFICES ASSUME NEW i \in 1 .. Used PROVE Place(i) # u32Rear
    OBVIOUS
  <2>1. Place(i) = (IF u32Front + i - 1 < u32Length THEN u32Front + i - 1
                    ELSE u32Front + i - 1 - u32Length)
    BY <1>3, <1>6
  <2> QED
    BY <2>1, <1>2, <1>3
<1>8. Place(Used + 1) = u32Rear
  <2>1. Place(Used + 1) = (IF u32Front + Used < u32Length THEN u32Front + Used
                           ELSE u32Front + Used - u32Length)
    BY <1>2, <1>3, <1>5, <1>6
  <2> QED
    BY <2>1, <1>2, <1>3
<1>9. Contents' = [i \in 1 .. Used + 1 |-> apvBuffer'[Place(i)]]
  BY <1>2, <1>5 DEF Contents, Place, Wrap
<1>10. Contents' = Append(Contents, pvData[p])
  <2>1. Len(Contents) = Used /\ Contents \in Seq(Items \cup {NoItem})
    BY ContentsLen
  <2>2. Append(Contents, pvData[p]) \in Seq(Items \cup {NoItem})
    BY <2>1, <1>1
  <2>3. Len(Append(Contents, pvData[p])) = Used + 1
    BY <2>1
  <2>4. ASSUME NEW i \in 1 .. Used + 1
        PROVE  apvBuffer'[Place(i)] = Append(Contents, pvData[p])[i]
    <3>1. CASE i = Used + 1
      BY <3>1, <1>8, <2>1 DEF Enqueue, TypeOK
    <3>2. CASE i # Used + 1
      <4>1. i \in 1 .. Used
        BY <3>2, <1>3
      <4>2. apvBuffer'[Place(i)] = apvBuffer[Place(i)]
        BY <4>1, <1>6, <1>7 DEF Enqueue, TypeOK
      <4>3. Append(Contents, pvData[p])[i] = Contents[i]
        BY <4>1, <2>1
      <4>4. Contents[i] = apvBuffer[Place(i)]
        BY <4>1 DEF Contents
      <4> QED
        BY <4>2, <4>3, <4>4
    <3> QED
      BY <3>1, <3>2
  <2>5. Append(Contents, pvData[p]) = [i \in 1 .. Used + 1 |-> Append(Contents, pvData[p])[i]]
    BY <2>2, <2>3
  <2> QED
    BY <2>4, <2>5, <1>9
<1>11. Len(Contents) < u32Length - 1
  BY <1>2, <1>5, <1>3, ContentsLen
<1> QED
  BY <1>1, <1>10, <1>11 DEF Fifo!Insert, Enqueue

\* mQueueDequeue takes the oldest item.
LEMMA DequeueExtracts ==
    ASSUME TypeOK, TypeOK', NEW c \in Consumers, Dequeue(c)
    PROVE  Fifo!Extract
<1>1. /\ u32Length \in Nat \ {0}
      /\ u32Front \in 0 .. u32Length - 1 /\ u32Rear \in 0 .. u32Length - 1
      /\ u32Front' = (IF u32Front + 1 = u32Length THEN 0 ELSE u32Front + 1)
      /\ u32Rear' = u32Rear
      /\ u32Rear # u32Front
  BY AfterValue, QueueAssumption DEF Dequeue, Nothing, TypeOK, Slots
<1>2. /\ Used = (IF u32Front <= u32Rear THEN u32Rear - u32Front
                 ELSE u32Rear + u32Length - u32Front)
      /\ Used \in 0 .. u32Length - 1
  BY UsedValue
<1>3. Used' = (IF u32Front' <= u32Rear' THEN u32Rear' - u32Front'
               ELSE u32Rear' + u32Length - u32Front')
  <2>1. Used' = Wrap(u32Rear' + u32Length - u32Front')
    BY Zenon DEF Used, Wrap
  <2>2. u32Rear' \in Slots /\ u32Front' \in Slots
    BY DEF TypeOK
  <2> QED
    BY <2>1, <2>2, Span
<1>4. Used' = Used - 1 /\ Used \in 1 .. u32Length - 1
  BY <1>1, <1>2, <1>3
<1>5. Len(Contents) = Used /\ Contents \in Seq(Items \cup {NoItem})
  BY ContentsLen
<1>6. Head(Contents) = apvBuffer[u32Front]
  <2>1. u32Front \in Slots /\ 1 \in 1 .. u32Length
    BY <1>1 DEF Slots
  <2>2. Place(1) = (IF u32Front + 1 - 1 < u32Length THEN u32Front + 1 - 1
                    ELSE u32Front + 1 - 1 - u32Length)
    BY <2>1, Onward DEF Place
  <2>3. Place(1) = u32Front
    BY <2>2, <1>1
  <2>4. Contents[1] = apvBuffer[Place(1)]
    BY <1>4 DEF Contents
  <2> QED
    BY <2>3, <2>4, <1>4, <1>5
<1>7. \A i \in 1 .. Used - 1 : Wrap(u32Front' + i - 1) = Place(i + 1)
  <2> SUFFICES ASSUME NEW i \in 1 .. Used - 1
               PROVE  Wrap(u32Front' + i - 1) = Place(i + 1)
    OBVIOUS
  <2>1. /\ i \in 1 .. u32Length /\ i + 1 \in 1 .. u32Length
        /\ u32Front \in Slots /\ u32Front' \in Slots
    BY <1>1, <1>4 DEF Slots
  <2> DEFINE f == u32Front'
  <2>2. Wrap(f + i - 1) = (IF f + i - 1 < u32Length THEN f + i - 1 ELSE f + i - 1 - u32Length)
    <3> HIDE DEF f
    <3>1. f \in Slots
      BY <2>1 DEF f
    <3> QED
      BY <2>1, <3>1, Onward
  <2>3. Place(i + 1) = (IF u32Front + (i + 1) - 1 < u32Length THEN u32Front + (i + 1) - 1
                        ELSE u32Front + (i + 1) - 1 - u32Length)
    BY <2>1, Onward DEF Place
  <2> QED
    BY <2>2, <2>3, <1>1, <1>4
<1>8. Contents' = [i \in 1 .. Used - 1 |-> apvBuffer[Place(i + 1)]]
  <2>1. Contents' = [i \in 1 .. Used - 1 |-> apvBuffer[Wrap(u32Front' + i - 1)]]
    BY <1>4 DEF Contents, Place, Wrap, Dequeue
  <2> QED
    BY <2>1, <1>7
<1>9. Contents # << >>
  BY <1>4, <1>5
<1>10. Contents' = Tail(Contents)
  <2>1. Tail(Contents) = [i \in 1 .. Used - 1 |-> Contents[i + 1]]
    <3>1. Tail(Contents) \in Seq(Items \cup {NoItem}) /\ Len(Tail(Contents)) = Used - 1
      BY <1>4, <1>5, <1>9
    <3>2. Tail(Contents) = [i \in 1 .. Used - 1 |-> Tail(Contents)[i]]
      BY <3>1, AsFunction
    <3>3. \A i \in 1 .. Used - 1 : Tail(Contents)[i] = Contents[i + 1]
      BY <1>4, <1>5, <1>9
    <3> QED
      BY <3>2, <3>3
  <2>2. \A i \in 1 .. Used - 1 : Contents[i + 1] = apvBuffer[Place(i + 1)]
    BY <1>4 DEF Contents
  <2> QED
    BY <2>1, <2>2, <1>8
<1> QED
  BY <1>6, <1>9, <1>10 DEF Fifo!Extract, Dequeue

\* A step that moves no index changes nothing the bounded queue sees.
LEMMA OtherStepsStutter ==
    ASSUME ringVars' = ringVars
    PROVE  UNCHANGED Fifo!fifoVars
  BY DEF ringVars, Fifo!fifoVars, Contents, Used, Place, Wrap

\* The ring of u32Length buffers is a FIFO queue of u32Length - 1 places:
\* what mQueueDequeue returns is what mQueueEnqueue was given, in this order,
\* each item once, and no item is overwritten inside.
THEOREM Implementation == Spec => ImplementsFifo
<1>1. Init => Fifo!FifoInit
  <2> SUFFICES ASSUME Init PROVE Fifo!FifoInit
    OBVIOUS
  <2>1. TypeOK
    BY InitInv DEF IInv
  <2>2. Used = 0
    BY <2>1, UsedValue, QueueAssumption DEF Init
  <2>3. Contents = << >>
    BY <2>1, <2>2, ContentsLen
  <2> QED
    BY <2>3 DEF Init, Fifo!FifoInit
<1>2. IInv /\ TypeOK' /\ [Next]_vars => [Fifo!FifoNext]_Fifo!fifoVars
  <2> SUFFICES ASSUME IInv, TypeOK', [Next]_vars PROVE [Fifo!FifoNext]_Fifo!fifoVars
    OBVIOUS
  <2>1. ASSUME NEW p \in Producers, Enqueue(p) PROVE Fifo!FifoNext
    <3>1. pvData[p] \in Items
      BY <2>1 DEF IInv, NewItem, Enqueue
    <3> QED
      BY <2>1, <3>1, EnqueueInserts DEF IInv, Fifo!FifoNext
  <2>2. ASSUME NEW c \in Consumers, Dequeue(c) PROVE Fifo!FifoNext
    BY <2>2, DequeueExtracts DEF IInv, Fifo!FifoNext
  <2>3. CASE ringVars' = ringVars
    BY <2>3, OtherStepsStutter
  <2> QED
    BY <2>1, <2>2, <2>3 DEF Next, ProducerStep, ConsumerStep, CallEnqueue, AwaitSpace, SignalData,
       CallDequeue, AwaitData, TimedFails, TimedOut, SignalSpace, SpuriousWakeup, vars
<1> QED
  BY <1>1, <1>2, Invariance, TypeCorrect, PTL DEF Spec, ImplementsFifo, Fifo!FifoSpec


-----------------------------------------------------------------------------
(* The library.                                                            *)

WorkerPlaces == {"none", "begin", "test", "call", "inside", "lock", "syscall", "unlock", "finish", "exited"}

ThreadType ==
    /\ eState \in [Started -> {"STOPPED", "RUNNING", "STOPPING"}]
    /\ eThreadDetachState \in [Started -> {"JOINABLE", "DETACHED"}]
    /\ worker \in [Started -> WorkerPlaces]
    /\ caller \in [Started -> {"out", "started", "kill", "join", "failed", "stopped"}]

Gone(c) == worker[c] \in {"none", "exited"}

\* Outside mThreadStart and mThreadStop there is no thread, or it is over.
OutMeansGone == \A c \in Started : caller[c] \in {"out", "stopped"} => Gone(c)

\* A thread calls the queue in its loop only.
InsideLoop == \A c \in Started : pc[c] # "out" => worker[c] = "inside"

\* No thread is, or is about to be, inside a queue that does not exist.
NobodyLeft ==
    ~Exists => /\ \A c \in Started : caller[c] \in {"out", "stopped"}
               /\ \A t \in Threads : pc[t] = "out"

LibInv == /\ pc \in [Threads -> {"out", "lock", "wait", "signal"}]
          /\ ThreadType /\ OutMeansGone /\ InsideLoop /\ NobodyLeft /\ StoppedIsOver

LEMMA StartedAreThreads == Started \subseteq Threads
  BY StartedAssumption DEF Threads

LEMMA LibInitInv == LibInit => LibInv
<1> SUFFICES ASSUME LibInit PROVE LibInv
  OBVIOUS
<1>1. pc = [t \in Threads |-> "out"]
  BY DEF LibInit, Init
<1>2. ThreadType /\ OutMeansGone /\ NobodyLeft /\ StoppedIsOver
  BY <1>1 DEF LibInit, ThreadType, WorkerPlaces, OutMeansGone, Gone, NobodyLeft, StoppedIsOver
<1>3. InsideLoop
  BY <1>1, StartedAreThreads DEF InsideLoop
<1> QED
  BY <1>1, <1>2, <1>3 DEF LibInv
-----------------------------------------------------------------------------
\* A step of the queue moves threads that are inside it, or calls it.
LEMMA QueueStepMoves ==
    ASSUME LibInv, QueueStep
    PROVE  /\ pc' \in [Threads -> {"out", "lock", "wait", "signal"}]
           /\ \A t \in Threads : pc[t] = "out" /\ pc'[t] # "out" => Exists /\ t \notin Started
           /\ UNCHANGED <<lockVars, threadVars, memoryVars>>
<1> USE DEF Threads, Goto, Wake
<1>1. pc \in [Threads -> {"out", "lock", "wait", "signal"}] /\ UNCHANGED <<lockVars, threadVars, memoryVars>>
  BY DEF LibInv, QueueStep
<1>2. CASE \E p \in Producers : ProducerStep(p)
  BY <1>1, <1>2 DEF ProducerStep, AwaitSpace, Enqueue, SignalData
<1>3. CASE Exists /\ \E p \in Producers : \E x \in Items : CallEnqueue(p, x)
  BY <1>1, <1>3, QueueAssumption, StartedAssumption DEF CallEnqueue
<1>4. CASE \E c \in Consumers : ConsumerStep(c) \/ TimedOut(c)
  BY <1>1, <1>4 DEF ConsumerStep, AwaitData, TimedFails, Dequeue, SignalSpace, TimedOut
<1>5. CASE Exists /\ \E c \in Consumers \ Started : CallDequeue(c)
  BY <1>1, <1>5 DEF CallDequeue
<1>6. CASE \E t \in Threads : SpuriousWakeup(t)
  BY <1>1, <1>6 DEF SpuriousWakeup
<1> QED
  BY <1>2, <1>3, <1>4, <1>5, <1>6 DEF QueueStep

LEMMA QueueStepInv == LibInv /\ QueueStep => LibInv'
<1> SUFFICES ASSUME LibInv, QueueStep PROVE LibInv'
  OBVIOUS
<1>1. /\ pc' \in [Threads -> {"out", "lock", "wait", "signal"}]
      /\ \A t \in Threads : pc[t] = "out" /\ pc'[t] # "out" => Exists /\ t \notin Started
      /\ UNCHANGED <<lockVars, threadVars, memoryVars>>
  BY QueueStepMoves
<1>2. ThreadType' /\ OutMeansGone' /\ StoppedIsOver'
  BY <1>1 DEF LibInv, threadVars, ThreadType, OutMeansGone, Gone, StoppedIsOver
<1>3. InsideLoop'
  BY <1>1, StartedAreThreads DEF LibInv, threadVars, InsideLoop
<1>4. NobodyLeft'
  BY <1>1 DEF LibInv, threadVars, memoryVars, NobodyLeft, Exists
<1> QED
  BY <1>1, <1>2, <1>3, <1>4 DEF LibInv

\* What the user does in mThreadStart and mThreadStop keeps the invariant.
LEMMA CallerInv ==
    ASSUME LibInv, NEW c \in Started, NEW d \in {"JOINABLE", "DETACHED"},
           Start(c, d) \/ Stop(c) \/ CallerStep(c)
    PROVE  LibInv'
<1> USE DEF LibInv, ThreadType, WorkerPlaces, Store, MoveWorker, MoveCaller, vars, memoryVars, Exists
<1>1. pc' = pc /\ queue' = queue
  BY DEF Start, Stop, CallerStep, Kill, Join
<1>2. CASE Start(c, d)
  <2>1. Gone(c) /\ Exists
    BY <1>2 DEF Start, OutMeansGone
  <2>2. pc[c] = "out"
    BY <2>1 DEF Gone, InsideLoop
  <2> QED
    BY <1>1, <1>2, <2>1, <2>2 DEF Start, OutMeansGone, Gone, InsideLoop, NobodyLeft, StoppedIsOver
<1>3. CASE Stop(c)
  BY <1>1, <1>3 DEF Stop, OutMeansGone, Gone, InsideLoop, NobodyLeft, StoppedIsOver
<1>4. CASE Kill(c)
  BY <1>1, <1>4 DEF Kill, Interrupted, OutMeansGone, Gone, InsideLoop, NobodyLeft, StoppedIsOver
<1>5. CASE Join(c)
  BY <1>1, <1>5 DEF Join, Joined, OutMeansGone, Gone, InsideLoop, NobodyLeft, StoppedIsOver
<1> QED
  BY <1>2, <1>3, <1>4, <1>5 DEF CallerStep

\* What a thread does in its loop keeps it, too.
LEMMA WorkerInv ==
    ASSUME LibInv, NEW c \in Started, WorkerStep(c) \/ SyscallReturns(c)
    PROVE  LibInv'
<1> USE DEF LibInv, ThreadType, WorkerPlaces, Store, MoveWorker, vars, memoryVars, Exists
<1>1. CASE Begin(c)
  BY <1>1 DEF Begin, OutMeansGone, Gone, InsideLoop, NobodyLeft, StoppedIsOver
<1>2. CASE Test(c)
  BY <1>2 DEF Test, OutMeansGone, Gone, InsideLoop, NobodyLeft, StoppedIsOver
<1>3. CASE TakeItem(c)
  <2>1. ~Gone(c) /\ Exists
    BY <1>3 DEF TakeItem, Gone, NobodyLeft, OutMeansGone
  <2>2. CASE CallDequeue(c) /\ worker[c] = "call"
    BY <1>3, <2>1, <2>2, StartedAreThreads
       DEF TakeItem, CallDequeue, Goto, OutMeansGone, Gone, InsideLoop, NobodyLeft, StoppedIsOver
  <2>3. CASE worker[c] = "inside"
    BY <1>3, <2>1, <2>3 DEF TakeItem, OutMeansGone, Gone, InsideLoop, NobodyLeft, StoppedIsOver
  <2> QED
    BY <1>3, <2>2, <2>3 DEF TakeItem
<1>4. CASE SyscallReturns(c)
  BY <1>4 DEF SyscallReturns, OutMeansGone, Gone, InsideLoop, NobodyLeft, StoppedIsOver
<1>5. CASE UseLock(c)
  BY <1>5 DEF UseLock, OutMeansGone, Gone, InsideLoop, NobodyLeft, StoppedIsOver
<1>6. CASE Finish(c)
  BY <1>6 DEF Finish, OutMeansGone, Gone, InsideLoop, NobodyLeft, StoppedIsOver
<1> QED
  BY <1>1, <1>2, <1>3, <1>4, <1>5, <1>6 DEF WorkerStep

\* The lock's other users do not touch threads and queue.
LEMMA LockStepInv == LibInv /\ (LockStep \/ EndLock) => LibInv'
  BY DEF LibInv, LockStep, EndLock, vars, threadVars, memoryVars, ThreadType, OutMeansGone, Gone,
     InsideLoop, NobodyLeft, StoppedIsOver, Exists

\* The threads come after the queue's creation, and when it is destroyed none is left.
LEMMA LifeInv == LibInv /\ (Create \/ Destroy) => LibInv'
<1> SUFFICES ASSUME LibInv, Create \/ Destroy PROVE LibInv'
  OBVIOUS
<1>1. UNCHANGED <<vars, threadVars>>
  BY DEF Create, Destroy
<1>2. NobodyLeft'
  <2>1. CASE Create
    BY <1>1, <2>1 DEF LibInv, NobodyLeft, Exists, Create, vars, threadVars, Memory!CreateQueue,
       Memory!CreateFails, Memory!CreateBreaks
  <2>2. CASE Destroy
    <3>1. \A t \in Threads : pc[t] = "out"
      BY <2>2 DEF LibInv, Destroy, OutMeansGone, Gone, InsideLoop
    <3> QED
      BY <1>1, <2>2, <3>1 DEF Destroy, NobodyLeft, vars, threadVars
  <2> QED
    BY <2>1, <2>2
<1> QED
  BY <1>1, <1>2 DEF LibInv, vars, threadVars, ThreadType, OutMeansGone, Gone, InsideLoop, StoppedIsOver

THEOREM LibInvariance == LibSpec => []LibInv
<1>1. LibInv /\ [LibNext]_libVars => LibInv'
  <2>1. LibInv /\ UNCHANGED libVars => LibInv'
    BY DEF LibInv, libVars, vars, threadVars, memoryVars, ThreadType, OutMeansGone, Gone, InsideLoop,
       NobodyLeft, StoppedIsOver, Exists
  <2> QED
    BY <2>1, QueueStepInv, LockStepInv, CallerInv, WorkerInv, LifeInv DEF LibNext
<1> QED
  BY <1>1, LibInitInv, PTL DEF LibSpec

\* A queue whose consumers were stopped with success can be destroyed: no thread
\* is inside it, or will be, whatever mThreadStop and the threads' loops raced.
THEOREM QueueSafelyDestroyed == LibSpec => []DestroyedUnused
<1>1. LibInv => DestroyedUnused
  BY DEF LibInv, DestroyedUnused, NobodyLeft, OutMeansGone, Gone
<1> QED
  BY <1>1, LibInvariance, PTL

\* A thread whose state reads E_THREAD_STOPPED has not begun or is over.
THEOREM StateTellsEnd == LibSpec => []StoppedIsOver
<1>1. LibInv => StoppedIsOver
  BY DEF LibInv
<1> QED
  BY <1>1, LibInvariance, PTL
-----------------------------------------------------------------------------
\* Every behaviour of the library is one of the queue: threads that are started
\* and stopped at any time call it as its own specification allows.
THEOREM UsesQueue == LibSpec => Spec
<1>1. LibInit => Init
  BY DEF LibInit
<1>2. [LibNext]_libVars => [Next]_vars
  <2>1. QueueStep => Next
    BY DEF QueueStep, Next
  <2>2. ASSUME NEW c \in Started, WorkerStep(c) PROVE [Next]_vars
    <3>1. c \in Consumers
      BY StartedAssumption
    <3> QED
      BY <2>2, <3>1 DEF WorkerStep, Begin, Test, TakeItem, UseLock, Finish, Next
  <2>3. ASSUME NEW c \in Started, NEW d, Start(c, d) \/ Stop(c) \/ CallerStep(c) \/ SyscallReturns(c)
        PROVE  UNCHANGED vars
    BY <2>3 DEF Start, Stop, CallerStep, Kill, Join, SyscallReturns
  <2>4. Create \/ Destroy => UNCHANGED vars
    BY DEF Create, Destroy
  <2>5. LockStep \/ EndLock => UNCHANGED vars
    BY DEF LockStep, EndLock
  <2>6. UNCHANGED libVars => UNCHANGED vars
    BY DEF libVars
  <2> QED
    BY <2>1, <2>2, <2>3, <2>4, <2>5, <2>6 DEF LibNext
<1> QED
  BY <1>1, <1>2, PTL DEF LibSpec, Spec

\* The buffer that mQueueDequeue returned last keeps its contents in the library, too.
THEOREM LentInLibrary == LibSpec => []LentIsIntact
  BY UsesQueue, LentStaysIntact, PTL
-----------------------------------------------------------------------------
(* The lock.                                                               *)

\* A thread that never locked twice has locked at most once more than it unlocked.
LockInv == /\ LockTypeOK /\ HolderIsOwner
           /\ \A t \in LockUsers \ misled : held[t] <= 1
           /\ ~usable => owner = NoThread

LEMMA LockCreatedInv == LockCreated => LockInv
  BY LockAssumption DEF LockCreated, LockInv, LockTypeOK, HolderIsOwner

LEMMA LockKept ==
    ASSUME LockInv, NEW t \in LockUsers,
           LockLock(t) \/ TryLock(t) \/ LockTimed(t) \/ LockUnlock(t)
    PROVE  LockInv'
<1> USE LockAssumption DEF LockInv, LockTypeOK, HolderIsOwner
<1>1. CASE Acquire(t) /\ held[t] < MaxHeld
  BY <1>1 DEF Acquire
<1>2. CASE LockLock(t) /\ Refused(t) /\ ~Acquire(t)
  BY <1>2 DEF LockLock, Refused
<1>3. CASE LockUnlock(t)
  <2>1. LockTypeOK'
    BY <1>3 DEF LockUnlock, Release
  <2>2. HolderIsOwner'
    BY <1>3 DEF LockUnlock, Release
  <2>3. (\A u \in LockUsers \ misled : held[u] <= 1)' /\ (~usable => owner = NoThread)'
    BY <1>3 DEF LockUnlock, Release
  <2> QED
    BY <2>1, <2>2, <2>3
<1> QED
  BY <1>1, <1>2, <1>3 DEF LockLock, TryLock, LockTimed

\* Only a mutex that nobody has is destroyed.
LEMMA LockDestroyKept == LockInv /\ LockDestroy => LockInv'
  BY DEF LockInv, LockTypeOK, HolderIsOwner, LockDestroy

\* What a thread was told about the lock is so, for all its users.
THEOREM LockInvariance == LibSpec => []LockInv
<1>1. LibInit => LockInv
  BY LockCreatedInv DEF LibInit
<1>2. LockInv /\ [LibNext]_libVars => LockInv'
  <2>1. LockInv /\ UNCHANGED lockVars => LockInv'
    BY DEF LockInv, LockTypeOK, HolderIsOwner, lockVars
  <2>2. LockInv /\ LockStep => LockInv'
    BY LockKept DEF LockStep
  <2>3. ASSUME LockInv, NEW c \in Started, WorkerStep(c) PROVE LockInv'
    <3>1. c \in LockUsers
      BY StartedAssumption
    <3>2. UNCHANGED lockVars \/ LockLock(c) \/ LockUnlock(c)
      BY <2>3 DEF WorkerStep, Begin, Test, TakeItem, UseLock, Finish
    <3> QED
      BY <2>1, <2>3, <3>1, <3>2, LockKept
  <2>4. ASSUME NEW c \in Started, NEW d, Start(c, d) \/ Stop(c) \/ CallerStep(c) \/ SyscallReturns(c)
        PROVE  UNCHANGED lockVars
    BY <2>4 DEF Start, Stop, CallerStep, Kill, Join, SyscallReturns
  <2>5. QueueStep \/ Create \/ Destroy \/ UNCHANGED libVars => UNCHANGED lockVars
    BY DEF QueueStep, Create, Destroy, libVars
  <2> QED
    BY <2>1, <2>2, <2>3, <2>4, <2>5, LockDestroyKept DEF LibNext, EndLock
<1> QED
  BY <1>1, <1>2, PTL DEF LibSpec

\* A lock reported to a thread that never locks twice is its own until it unlocks,
\* whatever other threads do with the lock, for any number of them.
THEOREM LockIsKept == LibSpec => []HolderIsOwner
<1>1. LockInv => HolderIsOwner
  BY DEF LockInv
<1> QED
  BY <1>1, LockInvariance, PTL

(* The memory of the queue.                                                *)

MemoryInv == Memory!MemoryTypeOK

\* The memory of the queue keeps its types.
LEMMA MemoryInvariance == LibSpec => []MemoryInv
<1> USE DEF MemoryInv, Memory!MemoryTypeOK, Memory!Slots
<1>1. LibInit => MemoryInv
  BY DEF LibInit, Memory!NoQueue
<1>2. MemoryInv /\ [LibNext]_libVars => MemoryInv'
  <2>1. MemoryInv /\ UNCHANGED memoryVars => MemoryInv'
    BY DEF memoryVars
  <2>2. ASSUME MemoryInv, Create PROVE MemoryInv'
    <3>1. CASE Memory!CreateQueue
      BY <3>1 DEF Memory!CreateQueue
    <3>2. CASE Memory!CreateFails
      <4>1. \A k \in 0 .. u32Length - 1 : (0 .. k - 1) \ (0 .. u32Length - 1) = {}
        BY QueueAssumption
      <4> QED
        BY <2>2, <3>2, <4>1 DEF Memory!CreateFails, Memory!Freed
    <3>3. CASE Memory!CreateBreaks
      BY <2>2, <3>3 DEF Memory!CreateBreaks
    <3> QED
      BY <2>2, <3>1, <3>2, <3>3 DEF Create
  <2>3. ASSUME MemoryInv, Destroy PROVE MemoryInv'
    BY <2>3 DEF Destroy, Memory!DestroyQueue, Memory!Freed
  <2>4. ASSUME NEW c \in Started, NEW d, Start(c, d) \/ Stop(c) \/ CallerStep(c) \/ SyscallReturns(c)
        PROVE  UNCHANGED memoryVars
    BY <2>4 DEF Start, Stop, CallerStep, Kill, Join, SyscallReturns
  <2>5. ASSUME NEW c \in Started, WorkerStep(c) PROVE UNCHANGED memoryVars
    BY <2>5 DEF WorkerStep, Begin, Test, TakeItem, UseLock, Finish
  <2>6. QueueStep \/ LockStep \/ EndLock \/ UNCHANGED libVars => UNCHANGED memoryVars
    BY DEF QueueStep, LockStep, EndLock, libVars
  <2> QED
    BY <2>1, <2>2, <2>3, <2>4, <2>5, <2>6 DEF LibNext
<1> QED
  BY <1>1, <1>2, PTL DEF LibSpec

\* The queue, the lock and the threads keep their types.
THEOREM LibTypeCorrect == LibSpec => []LibTypeOK
<1>1. TypeOK /\ LibInv /\ LockInv /\ MemoryInv => LibTypeOK
  BY DEF LibInv, ThreadType, WorkerPlaces, LockInv, MemoryInv, LibTypeOK
<1> QED
  BY <1>1, UsesQueue, TypeCorrect, LibInvariance, LockInvariance, MemoryInvariance, PTL
=============================================================================
