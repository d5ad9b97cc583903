------------------------- MODULE OutboxDeliveryProofs -------------------------
(***************************************************************************)
(* What follows from OutboxDelivery alone.  DomainEventOutboxProofs shows  *)
(* that the outbox implements it, so that these consequences hold of the   *)
(* outbox without another look at its leases and workers.                  *)
(***************************************************************************)
EXTENDS OutboxDelivery, TLAPS

deliveryVars == <<state, stream, delivered, buried>>

\* The invariant: order is kept because a serialised aggregate never gets an
\* event in front of one it has.
DeliveryInv ==
    /\ DeliveryTypeOK
    /\ \A s \in Seqs : state[s] = "absent" <=> stream[s] = None
    /\ ClosedWasServed
    /\ OnlyCommittedIsServed
    /\ ServedInOrder

\* The promise starts with no event at all.
LEMMA DeliveryInitInv == DeliveryInit => DeliveryInv
  BY DEF DeliveryInit, DeliveryInv, DeliveryTypeOK, EventState, ClosedWasServed,
         OnlyCommittedIsServed, ServedInOrder

\* A new event is the last of its aggregate, so that it precedes no delivered one.
LEMMA StageKeepsOrder ==
  ASSUME None \notin Aggregate, DeliveryInv,
         NEW s \in Seqs, NEW a \in Aggregate, StageEvent(s, a)
  PROVE  DeliveryInv'
  <1> USE DEF DeliveryInv, DeliveryTypeOK
  <1>1. /\ state[s] = "absent" /\ state'[s] = "staged" /\ stream'[s] = a
        /\ \A q \in Seqs : q # s => state'[q] = state[q] /\ stream'[q] = stream[q]
        /\ delivered' = delivered /\ buried' = buried
    BY DEF StageEvent, Move
  <1>2. DeliveryTypeOK'
    BY DEF StageEvent, Move, EventState
  <1>3. s \notin delivered
    BY <1>1 DEF OnlyCommittedIsServed
  <1>4. ClosedWasServed' /\ OnlyCommittedIsServed'
    BY <1>1, <1>3 DEF ClosedWasServed, OnlyCommittedIsServed
  <1>5. ServedInOrder'
    <2> SUFFICES ASSUME NEW d \in delivered, NEW p \in Seqs, stream'[d] \in Serialised,
                        p < d, stream'[p] = stream'[d]
                 PROVE  p \in delivered \cup buried \/ state'[p] = "withdrawn"
      BY <1>1 DEF ServedInOrder, Predecessors, Answered
    <2>1. d # s /\ stream'[d] = stream[d] /\ d \in Seqs
      BY <1>1, <1>3
    <2>2. p # s
      BY <1>1, <2>1 DEF StageEvent, Seqs
    <2>3. p \in Predecessors(d)
      BY <1>1, <2>1, <2>2 DEF Predecessors
    <2>4. QED
      BY <1>1, <2>2, <2>3 DEF ServedInOrder, Answered
  <1>6. \A q \in Seqs : state'[q] = "absent" <=> stream'[q] = None
    BY <1>1
  <1>7. QED
    BY <1>2, <1>4, <1>5, <1>6

\* The life of events goes on without reopening what was answered.
LEMMA MoveKeepsOrder ==
  ASSUME DeliveryInv, DeliveryTypeOK', stream' = stream, delivered' = delivered, buried \subseteq buried',
         \A s \in Seqs :
            \/ state'[s] = state[s]
            \/ state[s] = "staged" /\ state'[s] \in {"open", "withdrawn"}
            \/ state[s] = "open" /\ state'[s] = "closed" /\ s \in delivered
            \/ state[s] = "open" /\ state'[s] = "dead"
            \/ state[s] = "dead" /\ state'[s] = "open"
            \/ state[s] = "closed" /\ state'[s] = "forgotten"
  PROVE  DeliveryInv'
  <1> USE DEF DeliveryInv, DeliveryTypeOK
  <1>1. ClosedWasServed' /\ OnlyCommittedIsServed'
    BY DEF ClosedWasServed, OnlyCommittedIsServed
  <1>2. \A s \in Seqs : state'[s] = "absent" <=> stream'[s] = None
    OBVIOUS
  <1>3. \A s : Predecessors(s)' = Predecessors(s)
    BY DEF Predecessors
  <1>4. \A p \in Seqs : Answered(p) => Answered(p)'
    BY DEF Answered
  <1>5. \A s : Predecessors(s) \subseteq Seqs
    BY DEF Predecessors
  <1>6. ServedInOrder'
    BY <1>3, <1>4, <1>5 DEF ServedInOrder
  <1>7. QED
    BY <1>1, <1>2, <1>6

\* A first delivery waits for the earlier events; a repeated one changes nothing.
LEMMA DeliverKeepsOrder ==
  ASSUME DeliveryInv, NEW s \in Seqs, DeliverEvent(s)
  PROVE  DeliveryInv'
  <1> USE DEF DeliveryInv
  <1>1. UNCHANGED <<state, stream, buried>> /\ delivered' = delivered \cup {s}
    BY DEF DeliverEvent
  <1>2. DeliveryTypeOK' /\ ClosedWasServed' /\ OnlyCommittedIsServed'
    BY <1>1 DEF DeliverEvent, DeliveryTypeOK, ClosedWasServed, OnlyCommittedIsServed
  <1>3. \A d : Predecessors(d)' = Predecessors(d)
    BY <1>1 DEF Predecessors
  <1>4. \A p : Answered(p) => Answered(p)'
    BY <1>1 DEF Answered
  <1>5. ServedInOrder'
    BY <1>1, <1>3, <1>4 DEF DeliverEvent, ServedInOrder
  <1>6. QED
    BY <1>1, <1>2, <1>5

\* The types, and with them the consequences, are kept by every step.
LEMMA DeliveryStep ==
  ASSUME None \notin Aggregate, DeliveryInv, [DeliveryNext]_deliveryVars
  PROVE  DeliveryInv'
  <1>1. ASSUME NEW s \in Seqs, CommitEvent(s) \/ WithdrawEvent(s) \/ CloseEvent(s) \/ BuryEvent(s)
        PROVE  DeliveryInv'
    <2>1. DeliveryTypeOK'
      BY <1>1 DEF DeliveryInv, DeliveryTypeOK, CommitEvent, WithdrawEvent, CloseEvent, BuryEvent,
                  Move, EventState
    <2>2. QED
      BY <1>1, <2>1, MoveKeepsOrder
         DEF DeliveryInv, DeliveryTypeOK, CommitEvent, WithdrawEvent, CloseEvent, BuryEvent, Move
  <1>2. ASSUME NEW S \in SUBSET Seqs, ReviveEvents(S) \/ ForgetEvents(S)
        PROVE  DeliveryInv'
    <2>1. DeliveryTypeOK'
      BY <1>2 DEF DeliveryInv, DeliveryTypeOK, ReviveEvents, ForgetEvents, EventState
    <2>2. QED
      BY <1>2, <2>1, MoveKeepsOrder DEF ReviveEvents, ForgetEvents
  <1>3. CASE UNCHANGED deliveryVars
    BY <1>3 DEF deliveryVars, DeliveryInv, DeliveryTypeOK, ClosedWasServed, OnlyCommittedIsServed,
                ServedInOrder, Predecessors, Answered
  <1>4. QED
    BY <1>1, <1>2, <1>3, StageKeepsOrder, DeliverKeepsOrder DEF DeliveryNext

\* What OutboxDelivery promises, step by step, adds up to what a consumer relies
\* on: nothing is closed undelivered, only committed events are delivered, and
\* each first delivery of a serialised aggregate follows all earlier events.
THEOREM PromiseIsEnough ==
  ASSUME None \notin Aggregate
  PROVE  DeliverySpec => [](ClosedWasServed /\ OnlyCommittedIsServed /\ ServedInOrder)
  <1>1. DeliveryInv /\ [DeliveryNext]_deliveryVars => DeliveryInv'
    BY DeliveryStep
  <1>2. DeliveryInv => ClosedWasServed /\ OnlyCommittedIsServed /\ ServedInOrder
    BY DEF DeliveryInv
  <1>3. QED
    BY <1>1, <1>2, DeliveryInitInv, PTL DEF DeliverySpec, deliveryVars

=============================================================================
