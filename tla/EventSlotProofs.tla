-------------------------- MODULE EventSlotProofs --------------------------
(***************************************************************************)
(* The safety properties of the event exchange, for every set of posting   *)
(* calls.                                                                  *)
(***************************************************************************)
EXTENDS EventSlot, TLAPS

\* The inductive invariant: the types, the bookkeeping of the exchange, and
\* the properties themselves.
IInv ==
    /\ TypeOK
    /\ ExchangeInv
    /\ NoLostWakeup
    /\ PendingIsFresh
    /\ HandledByOwner
    /\ ServedUntilShutdown

\* The exchange starts in a state that satisfies the invariant.
LEMMA InitIInv == Init => IInv
<1> SUFFICES ASSUME Init PROVE IInv
  OBVIOUS
<1> USE DEF Init
<1>1. TypeOK
  BY DEF TypeOK, Consumers, EventKinds
<1>2. ExchangeInv
  BY SlotAssumption DEF ExchangeInv
<1>3. NoLostWakeup /\ PendingIsFresh /\ HandledByOwner /\ ServedUntilShutdown
  BY DEF NoLostWakeup, PendingIsFresh, HandledByOwner, ServedUntilShutdown
<1> QED BY <1>1, <1>2, <1>3 DEF IInv

\* The entry of an event nobody removed names no thread.
LEMMA NoneIsNoConsumer == \A c \in Consumers : c # "none"
BY DEF Consumers

\* A posting call that begins, or that writes its event, keeps the invariant:
\* what it writes was never in the exchange before.
LEMMA PostingKeepsIInv ==
    ASSUME IInv, NEW p \in Posts,
           (\E k \in EventKinds : Call(p, k)) \/ Post(p) \/ SignalData(p)
    PROVE  IInv'
<1> USE SlotAssumption, NoneIsNoConsumer DEF IInv, TypeOK, ExchangeInv, NoLostWakeup, PendingIsFresh,
        HandledByOwner, ServedUntilShutdown, Written, slotVars, consumerVars, mainVars
<1>1. ASSUME NEW k \in EventKinds, Call(p, k) PROVE IInv'
  <2> USE <1>1 DEF Call
  <2>1. TypeOK'
    BY DEF TypeOK
  <2>2. ExchangeInv'
    OBVIOUS
  <2>3. NoLostWakeup'
    OBVIOUS
  <2>4. PendingIsFresh'
    OBVIOUS
  <2>5. HandledByOwner'
    OBVIOUS
  <2>6. ServedUntilShutdown'
    OBVIOUS
  <2> QED BY <2>1, <2>2, <2>3, <2>4, <2>5, <2>6
<1>2. CASE Post(p)
  BY <1>2 DEF Post
<1>3. CASE SignalData(p)
  BY <1>3 DEF SignalData, Broadcast
<1> QED BY <1>1, <1>2, <1>3

\* A step of a thread keeps the invariant.
LEMMA ConsumerKeepsIInv ==
    ASSUME IInv, NEW c \in Consumers, ConsumerStep(c) \/ SpuriousWakeup(c)
    PROVE  IInv'
<1> USE SlotAssumption, NoneIsNoConsumer DEF IInv, TypeOK, ExchangeInv, NoLostWakeup, PendingIsFresh,
        HandledByOwner, ServedUntilShutdown, Written, slotVars, postVars, mainVars
<1>1. CASE Start(c)
  BY <1>1 DEF Start, SetRunning
<1>2. CASE Test(c)
  BY <1>2 DEF Test
<1>3. CASE Wait(c)
  BY <1>3 DEF Wait
<1>4. CASE SpuriousWakeup(c)
  BY <1>4 DEF SpuriousWakeup
<1>5. CASE DropMalformed(c)
  <2> USE <1>5 DEF DropMalformed, IsMalformed, Release
  <2>1. TypeOK'
    BY DEF TypeOK
  <2>2. ExchangeInv'
    OBVIOUS
  <2>3. NoLostWakeup'
    OBVIOUS
  <2>4. PendingIsFresh'
    OBVIOUS
  <2>5. HandledByOwner'
    OBVIOUS
  <2>6. ServedUntilShutdown'
    OBVIOUS
  <2> QED BY <2>1, <2>2, <2>3, <2>4, <2>5, <2>6
<1>6. CASE SeeExit(c)
  BY <1>6 DEF SeeExit, IsExit
<1>7. CASE PassOver(c)
  BY <1>7 DEF PassOver
<1>8. CASE Take(c)
  <2> USE <1>8 DEF Take, IsOwn, Release
  <2>1. TypeOK'
    BY DEF TypeOK
  <2>2. ExchangeInv'
    OBVIOUS
  <2>3. NoLostWakeup'
    OBVIOUS
  <2>4. PendingIsFresh'
    OBVIOUS
  <2>5. HandledByOwner'
    OBVIOUS
  <2>6. ServedUntilShutdown'
    OBVIOUS
  <2> QED BY <2>1, <2>2, <2>3, <2>4, <2>5, <2>6
<1>9. CASE Handle(c)
  BY <1>9 DEF Handle
<1> QED BY <1>1, <1>2, <1>3, <1>4, <1>5, <1>6, <1>7, <1>8, <1>9 DEF ConsumerStep, Receive

\* A step of main keeps the invariant.
LEMMA MainKeepsIInv ==
    ASSUME IInv, BeginShutdown \/ Finish \/ Ended
    PROVE  IInv'
<1> USE SlotAssumption, NoneIsNoConsumer DEF IInv, TypeOK, ExchangeInv, NoLostWakeup, PendingIsFresh,
        HandledByOwner, ServedUntilShutdown, Written, slotVars, postVars, consumerVars
<1>1. CASE BeginShutdown
  BY <1>1 DEF BeginShutdown
<1>2. CASE StopConsumer
  BY <1>2 DEF StopConsumer
<1>3. CASE PostExit
  BY <1>3 DEF PostExit
<1>4. CASE SignalExit
  BY <1>4 DEF SignalExit, Broadcast
<1>5. CASE Join
  BY <1>5 DEF Join, Consumers
<1>6. CASE Ended
  BY <1>6 DEF Ended, vars, mainVars
<1> QED BY <1>1, <1>2, <1>3, <1>4, <1>5, <1>6 DEF Finish

\* The invariant holds in every reachable state.
THEOREM Invariance == Spec => []IInv
<1>1. ASSUME IInv, [Next]_vars PROVE IInv'
  <2>1. CASE Next
    BY <1>1, <2>1, PostingKeepsIInv, ConsumerKeepsIInv, MainKeepsIInv DEF Next, PostStep
  <2>2. CASE UNCHANGED vars
    BY <1>1, <2>2 DEF vars, slotVars, postVars, consumerVars, mainVars, IInv, TypeOK,
       ExchangeInv, NoLostWakeup, PendingIsFresh, HandledByOwner, ServedUntilShutdown,
       Written
  <2> QED BY <1>1, <2>1, <2>2
<1> QED BY InitIInv, <1>1, PTL DEF Spec

\* The variables of the exchange keep their types.
THEOREM TypeCorrect == Spec => []TypeOK
BY Invariance, PTL DEF IInv

\* A thread never sleeps on a full exchange without a broadcast to come: the
\* order of flag, unlock and broadcast in socket_server.c:252-262 is enough
\* for any number of posting calls.
THEOREM WakeupsReach == Spec => []NoLostWakeup
BY Invariance, PTL DEF IInv

\* A pending event was written and was not removed yet.
THEOREM PendingFresh == Spec => []PendingIsFresh
BY Invariance, PTL DEF IInv

\* A thread handles only an event of its own kind that it removed itself.
THEOREM OwnerHandles == Spec => []HandledByOwner
BY Invariance, PTL DEF IInv

\* The two threads serve the exchange until main stops them or a message
\* carries the event type of the stop request.
THEOREM Served == Spec => []ServedUntilShutdown
BY Invariance, PTL DEF IInv

-----------------------------------------------------------------------------
(* The exchange implements the mailbox.                                    *)

\* The initial state of the exchange is the empty mailbox.
LEMMA MailInitMapped == Init => Mail!MailInit
BY DEF Init, Mail!MailInit

\* The exchange changes the mailbox only by writing and by removing an event;
\* each such step is a step of the mailbox, every other one a stutter.
LEMMA MailStepMapped ==
    ASSUME IInv, [Next]_vars
    PROVE  [Mail!MailNext]_(Mail!mvars)
<1> USE DEF Mail!mvars, slotVars, postVars, consumerVars, mainVars
<1> DEFINE Same == /\ (IF flag_data' THEN slot' ELSE Empty) = (IF flag_data THEN slot ELSE Empty)
                   /\ {q \in Posts : post'[q] \in {"signal", "done"}}
                          = {q \in Posts : post[q] \in {"signal", "done"}}
                   /\ {q \in Posts : handler'[q] # "none"}
                          = {q \in Posts : handler[q] # "none"}
<1>1. Same => [Mail!MailNext]_(Mail!mvars)
  OBVIOUS
<1>2. ASSUME NEW p \in Posts, NEW k \in EventKinds, Call(p, k) PROVE Same
  BY <1>2 DEF Call, IInv, TypeOK
<1>3. ASSUME NEW p \in Posts, Post(p) PROVE Mail!Put(p)
  BY <1>3 DEF Post, Mail!Put, IInv, TypeOK
<1>4. ASSUME NEW p \in Posts, SignalData(p) PROVE Same
  BY <1>4 DEF SignalData, IInv, TypeOK
<1>5. ASSUME NEW c \in Consumers, DropMalformed(c) \/ Take(c) PROVE Mail!Remove
  BY <1>5, NoneIsNoConsumer
     DEF DropMalformed, Take, IsMalformed, IsOwn, Release, Mail!Remove, IInv, TypeOK, PendingIsFresh
<1>6. ASSUME NEW c \in Consumers,
             Start(c) \/ Test(c) \/ Wait(c) \/ SpuriousWakeup(c) \/ SeeExit(c)
                \/ PassOver(c) \/ Handle(c)
      PROVE  Same
  BY <1>6 DEF Start, SetRunning, Test, Wait, SpuriousWakeup, SeeExit, PassOver, Handle
<1>7. CASE PostExit
  BY <1>7 DEF PostExit, Mail!PutExit, Mail!MailNext
<1>8. CASE BeginShutdown \/ StopConsumer \/ SignalExit \/ Join \/ Ended \/ UNCHANGED vars
  BY <1>8, <1>1 DEF BeginShutdown, StopConsumer, SignalExit, Join, Ended, vars
<1> QED
  BY <1>1, <1>2, <1>3, <1>4, <1>5, <1>6, <1>7, <1>8
     DEF Next, PostStep, ConsumerStep, Receive, Finish, Mail!MailNext

\* Every behaviour of the exchange is a behaviour of the one-place mailbox:
\* an event is removed at most once, and only after it was posted.
THEOREM Implementation == Spec => ImplementsMailbox
<1>1. Spec => []IInv
  BY Invariance
<1> QED BY MailInitMapped, MailStepMapped, <1>1, PTL DEF Spec, ImplementsMailbox, Mail!MailSpec
=============================================================================
