------------------------- MODULE ReviewReceiptProofs -------------------------
(***************************************************************************)
(* The receipts of ReviewReceipt keep their types and the inductive        *)
(* invariant ReceiptInv, for any number of confirmations, reviewees,       *)
(* handlers, revisions and faults; the safety properties follow from it,   *)
(* and so does that the receipts implement EffectPlan.                     *)
(*                                                                         *)
(* Each conjunct of ReceiptInv has a lemma XStep, with a step per action   *)
(* that can disturb the conjunct; Invariant puts them together.            *)
(***************************************************************************)
EXTENDS ReviewReceipt, TLAPS

\* A plan has its invalidation and, last, its projection.
LEMMA PlanLengths ==
    \A c \in Confirmation :
        PlanLength(c) \in Nat /\ PlanLength(c) >= 2 /\ TalentOrdinal(c) = PlanLength(c) - 1
  BY ReceiptAssumption DEF PlanLength, TalentOrdinal

\* ReceiptInv is inductive together with the types.
Inv == TypeOK /\ ReceiptInv

\* The type of work: most actions change it, in the same few ways.
WorkOK == work \in [Handler -> Work]

\* An idle handler has a place of its type.
LEMMA IdleType == Idle \in Work
  BY ReceiptAssumption DEF Idle, Work, Place, Revision, InDatabase, Locked, Delivering

\* The fields of a handler.
LEMMA WorkFields ==
    ASSUME TypeOK, NEW d \in Handler
    PROVE  /\ work[d] \in Work
           /\ work[d].at \in Place /\ work[d].of \in Confirmation \cup {None}
           /\ work[d].next \in Nat /\ work[d].seen \in Revision /\ work[d].drawn \in Revision
  BY DEF TypeOK, Work

\* Giving one handler a value of the type keeps the type.
LEMMA WorkUpdate ==
    ASSUME TypeOK, NEW d \in Handler, NEW w \in Work, work' = [work EXCEPT ![d] = w]
    PROVE  WorkOK'
  BY DEF WorkOK, TypeOK

\* Going to another place keeps the rest of the work.
LEMMA GoType ==
    ASSUME TypeOK, NEW d \in Handler, NEW p \in Place, Go(d, p)
    PROVE  WorkOK'
<1>1. [work[d] EXCEPT !.at = p] \in Work
  BY WorkFields DEF Work
<1> QED
  BY <1>1, WorkUpdate DEF Go

\* Every action gives handlers values of type Work.
LEMMA WorkStep == Inv /\ [Next]_vars => WorkOK'
<1> SUFFICES ASSUME Inv, [Next]_vars PROVE WorkOK'
  OBVIOUS
<1> USE DEF Inv
<1>0. WorkOK /\ 0 \in Revision
  BY ReceiptAssumption DEF TypeOK, WorkOK, Revision
<1>1. ASSUME NEW d \in Handler, Leave(d) PROVE WorkOK'
  BY <1>1, IdleType, WorkUpdate DEF Leave
<1>2. ASSUME NEW d \in Handler, NEW c \in Confirmation, InsertReceipt(d, c) PROVE WorkOK'
  <2>1. [Idle EXCEPT !.at = "locking", !.of = c] \in Work
    BY IdleType DEF Work, Place, InDatabase, Idle
  <2> QED
    BY <1>2, <2>1, WorkUpdate DEF InsertReceipt
<1>3. ASSUME NEW d \in Handler, NEW c \in Confirmation, LoadReceipt(d, c) PROVE WorkOK'
  <2>1. [Idle EXCEPT !.at = "effect", !.of = c, !.next = cursor[c]] \in Work
    BY IdleType DEF Work, Place, Delivering, Idle, TypeOK
  <2> QED
    BY <1>3, <2>1, WorkUpdate DEF LoadReceipt
<1>4. ASSUME NEW d \in Handler, NEW p \in {"scoring", "projecting", "effect", "reindex", "checkpoint"},
             Go(d, p)
      PROVE  WorkOK'
  BY <1>4, GoType DEF Place, InDatabase, Locked, Delivering
<1>5. ASSUME NEW d \in Handler, ReadTrustData(d) PROVE WorkOK'
  <2>1. work[d].of \in Confirmation
    BY <1>5, WorkFields DEF ReadTrustData, At, TypeOK, ReceiptInv, HandlerInv
  <2>2. projection[Subject(d)] \in Revision
    BY <2>1, ReceiptAssumption DEF TypeOK, Subject
  <2>3. [work[d] EXCEPT !.at = "merging", !.seen = projection[Subject(d)]] \in Work
    BY <2>2, WorkFields DEF Work, Place, InDatabase, Locked
  <2> QED
    BY <1>5, <2>3, WorkUpdate DEF ReadTrustData
<1>6. ASSUME NEW d \in Handler, SaveExternalEffects(d) PROVE WorkOK'
  <2>1. [work[d] EXCEPT !.at = "committing", !.drawn = lastRevision + 1] \in Work
    <3>1. lastRevision + 1 \in Revision
      BY <1>6, ReceiptAssumption DEF SaveExternalEffects, TypeOK, Revision
    <3> QED
      BY <3>1, WorkFields DEF Work, Place, InDatabase, Locked
  <2> QED
    BY <1>6, <2>1, WorkUpdate DEF SaveExternalEffects
<1>7. ASSUME NEW d \in Handler, AdvanceCursor(d) PROVE WorkOK'
  <2>1. work[d].next + 1 \in Nat
    BY WorkFields
  <2>2. [work[d] EXCEPT !.at = "effect", !.next = work[d].next + 1] \in Work
    BY <2>1, WorkFields DEF Work, Place, Delivering
  <2>3. CASE Leave(d)
    BY <1>1, <2>3
  <2>4. CASE work' = [work EXCEPT ![d] = [work[d] EXCEPT !.at = "effect", !.next = work[d].next + 1]]
    BY <2>2, <2>4, WorkUpdate
  <2> QED
    BY <1>7, <2>3, <2>4 DEF AdvanceCursor, Proceed
<1>8. ASSUME UNCHANGED work PROVE WorkOK'
  BY <1>0, <1>8 DEF WorkOK
<1> QED
  BY <1>1, <1>2, <1>3, <1>4, <1>5, <1>6, <1>7, <1>8
  DEF Next, Step, Quiet, Confirm, AcquireProjectionLock, WriteTrustData, CommitDatabasePhase,
      DeliverEffect, ApplyProjection, StageReindex, RollbackDatabasePhase, FailDelivery, vars


\* Every action keeps the types; the bounds of cursors and ordinals come from what
\* HandlerInv says of the handler that takes the step.
LEMMA TypeStep == Inv /\ [Next]_vars => TypeOK'
<1> SUFFICES ASSUME Inv, [Next]_vars PROVE TypeOK'
  OBVIOUS
<1>0. WorkOK'
  BY WorkStep
<1> USE <1>0, PlanLengths, ReceiptAssumption DEF Inv, ReceiptInv, TypeOK
<1>1. ASSUME NEW c \in Confirmation, Confirm(c) PROVE TypeOK'
  BY <1>1 DEF Confirm, receiptVars, userVars, history
<1>2. ASSUME NEW d \in Handler, NEW c \in Confirmation, InsertReceipt(d, c) PROVE TypeOK'
  BY <1>2 DEF InsertReceipt, WorkOK, receiptVars, userVars, factVars, history
<1>3. ASSUME NEW d \in Handler, NEW c \in Confirmation, LoadReceipt(d, c) PROVE TypeOK'
  BY <1>3 DEF LoadReceipt, WorkOK, receiptVars, userVars, factVars, history
<1>4. ASSUME NEW d \in Handler, AcquireProjectionLock(d) PROVE TypeOK'
  BY <1>4 DEF AcquireProjectionLock, WorkOK, receiptVars, userVars, factVars, history
<1>5. ASSUME NEW d \in Handler, ReadTrustData(d) PROVE TypeOK'
  BY <1>5 DEF ReadTrustData, WorkOK, receiptVars, userVars, factVars, history
<1>6. ASSUME NEW d \in Handler, WriteTrustData(d) PROVE TypeOK'
  BY <1>6 DEF WriteTrustData, WorkOK, receiptVars, userVars, factVars, history
<1>7. ASSUME NEW d \in Handler, SaveExternalEffects(d) PROVE TypeOK'
  BY <1>7 DEF SaveExternalEffects, WorkOK, Revision, receiptVars, userVars, history
<1>8. ASSUME NEW d \in Handler, CommitDatabasePhase(d) PROVE TypeOK'
  <2>1. work[d].of \in Confirmation
    BY <1>8, WorkFields DEF CommitDatabasePhase, At, HandlerInv
  <2>2. work[d].drawn \in Revision /\ work[d].seen \in Revision
    BY WorkFields
  <2>3. /\ receipt' \in [Confirmation -> {"none", "database_applied", "completed"}]
        /\ revision' \in [Confirmation -> Revision]
        /\ applied' \in [Confirmation -> Nat]
    BY <1>8, <2>1, <2>2 DEF CommitDatabasePhase
  <2>4. projection' \in [Reviewee -> Revision]
    BY <1>8, <2>1, <2>2 DEF CommitDatabasePhase
  <2> QED
    BY <1>8, <2>3, <2>4 DEF CommitDatabasePhase, WorkOK, factVars
<1>9. ASSUME NEW d \in Handler, DeliverEffect(d) PROVE TypeOK'
  <2>1. work[d].of \in Confirmation /\ work[d].next \in Ordinals(work[d].of)
    BY <1>9, WorkFields DEF DeliverEffect, At, HandlerInv, Delivering
  <2>2. /\ delivered' \in [Confirmation -> SUBSET Nat]
        /\ \A c \in Confirmation : delivered'[c] \subseteq Ordinals(c)
    BY <1>9, <2>1 DEF DeliverEffect, Reached, Ordinals
  <2>3. reindexed' \subseteq Revision
    BY <1>9, <2>1 DEF DeliverEffect, userVars
  <2> QED
    BY <1>9, <2>2, <2>3 DEF DeliverEffect, WorkOK, receiptVars, userVars, factVars
<1>10. ASSUME NEW d \in Handler, ApplyProjection(d) PROVE TypeOK'
  BY <1>10 DEF ApplyProjection, At, HandlerInv, WorkOK, receiptVars, factVars, history
<1>11. ASSUME NEW d \in Handler, StageReindex(d) PROVE TypeOK'
  <2>1. work[d].of \in Confirmation /\ work[d].next \in Ordinals(work[d].of)
    BY <1>11, WorkFields DEF StageReindex, At, HandlerInv, Delivering
  <2>2. /\ delivered' \in [Confirmation -> SUBSET Nat]
        /\ \A c \in Confirmation : delivered'[c] \subseteq Ordinals(c)
    BY <1>11, <2>1 DEF StageReindex, Reached, Ordinals
  <2>3. reindexed' \subseteq Revision
    BY <1>11, <2>1 DEF StageReindex
  <2> QED
    BY <1>11, <2>2, <2>3 DEF StageReindex, WorkOK, receiptVars, factVars
<1>12. ASSUME NEW d \in Handler, AdvanceCursor(d) PROVE TypeOK'
  <2>1. work[d].of \in Confirmation /\ work[d].next \in Ordinals(work[d].of)
    BY <1>12, WorkFields DEF AdvanceCursor, At, HandlerInv
  <2>2. /\ cursor' \in [Confirmation -> Nat]
        /\ \A c \in Confirmation : cursor'[c] \in 0..PlanLength(c)
    BY <1>12, <2>1 DEF AdvanceCursor, Ordinals
  <2>3. /\ receipt' \in [Confirmation -> {"none", "database_applied", "completed"}]
        /\ errorCode' \in [Confirmation -> BOOLEAN]
    BY <1>12, <2>1 DEF AdvanceCursor
  <2> QED
    BY <1>12, <2>2, <2>3 DEF AdvanceCursor, WorkOK, userVars, factVars, history
<1>13. ASSUME NEW d \in Handler, RollbackDatabasePhase(d) PROVE TypeOK'
  BY <1>13 DEF RollbackDatabasePhase, Fault, Leave, WorkOK, receiptVars, userVars, factVars,
     history
<1>14. ASSUME NEW d \in Handler, FailDelivery(d) PROVE TypeOK'
  <2>1. errorCode' \in [Confirmation -> BOOLEAN]
    BY <1>14 DEF FailDelivery, RecordFailure
  <2>2. faults' \in 0..MaxFaults
    BY <1>14 DEF FailDelivery, Fault
  <2> QED
    BY <1>14, <2>1, <2>2 DEF FailDelivery, WorkOK, userVars, factVars, history
<1>15. CASE UNCHANGED vars
  BY <1>15 DEF vars, receiptVars, userVars, factVars, history
<1> QED
  BY <1>1, <1>2, <1>3, <1>4, <1>5, <1>6, <1>7, <1>8, <1>9, <1>10, <1>11, <1>12, <1>13, <1>14,
     <1>15 DEF Next, Step, Quiet

\* What a handler knows of its receipt stays true of it, whatever the others do.
LEMMA HandlerStep == Inv /\ [Next]_vars => HandlerInv'
<1> SUFFICES ASSUME Inv, [Next]_vars PROVE HandlerInv'
  OBVIOUS
<1> USE PlanLengths, ReceiptAssumption DEF Inv, ReceiptInv, TypeOK
<1>1. ASSUME NEW c \in Confirmation, Confirm(c) PROVE HandlerInv'
  BY <1>1 DEF Confirm, HandlerInv, Work, Place, LockInv, PlanInv, CheckpointsAreDelivered,
     receiptVars, history
<1>2. ASSUME NEW d \in Handler, NEW c \in Confirmation, InsertReceipt(d, c) PROVE HandlerInv'
  BY <1>2 DEF InsertReceipt, Idle, HandlerInv, Work, Place, Delivering, LockInv, PlanInv,
     CheckpointsAreDelivered, receiptVars, factVars, history
<1>3. ASSUME NEW d \in Handler, NEW c \in Confirmation, LoadReceipt(d, c) PROVE HandlerInv'
  <2>1. receipt[c] # "none" /\ receipt[c] # "completed" /\ c \in confirmed /\ cursor[c] \in Ordinals(c)
    <3>1. receipt[c] = "database_applied"
      BY <1>3 DEF LoadReceipt
    <3>2. cursor[c] \in 0..PlanLength(c) /\ cursor[c] # PlanLength(c) /\ PlanLength(c) \in Nat
      BY <3>1 DEF CheckpointsAreDelivered
    <3>3. cursor[c] \in 0..(PlanLength(c) - 1)
      BY <3>2
    <3> QED
      BY <3>1, <3>3 DEF PlanInv, Ordinals
  <2>2. /\ work'[d].at = "effect" /\ work'[d].of = c /\ work'[d].next = cursor[c]
        /\ \A e \in Handler : e # d => work'[e] = work[e]
    <3>1. work' = [work EXCEPT ![d] = [Idle EXCEPT !.at = "effect", !.of = c, !.next = cursor[c]]]
      BY <1>3 DEF LoadReceipt
    <3> DEFINE w == [Idle EXCEPT !.at = "effect", !.of = c, !.next = cursor[c]]
    <3>2. w.at = "effect" /\ w.of = c /\ w.next = cursor[c]
      BY DEF Idle
    <3>3. work'[d] = w /\ \A e \in Handler : e # d => work'[e] = work[e]
      BY <3>1
    <3> HIDE DEF w
    <3> QED
      BY <3>2, <3>3
  <2> QED
    BY <1>3, <2>1, <2>2 DEF LoadReceipt, HandlerInv, InDatabase, Locked, receiptVars, factVars,
       history
<1>4. ASSUME NEW d \in Handler, AcquireProjectionLock(d) PROVE HandlerInv'
  BY <1>4 DEF AcquireProjectionLock, At, Go, HandlerInv, Work, Place, Delivering, LockInv,
     PlanInv, CheckpointsAreDelivered, receiptVars, factVars, history
<1>5. ASSUME NEW d \in Handler, ReadTrustData(d) PROVE HandlerInv'
  BY <1>5 DEF ReadTrustData, At, HandlerInv, Work, Place, Delivering, LockInv, PlanInv,
     CheckpointsAreDelivered, receiptVars, factVars, history
<1>6. ASSUME NEW d \in Handler, WriteTrustData(d) PROVE HandlerInv'
  BY <1>6 DEF WriteTrustData, At, Go, HandlerInv, Work, Place, Delivering, LockInv, PlanInv,
     CheckpointsAreDelivered, receiptVars, factVars, history
<1>7. ASSUME NEW d \in Handler, SaveExternalEffects(d) PROVE HandlerInv'
  BY <1>7 DEF SaveExternalEffects, At, HandlerInv, Work, Place, Delivering, LockInv, PlanInv,
     CheckpointsAreDelivered, receiptVars, userVars, history
<1>8. ASSUME NEW d \in Handler, CommitDatabasePhase(d) PROVE HandlerInv'
  BY <1>8 DEF CommitDatabasePhase, At, Go, HandlerInv, Work, Place, InDatabase, Locked,
     Ordinals, LockInv, PlanInv, CheckpointsAreDelivered, factVars
<1>9. ASSUME NEW d \in Handler, DeliverEffect(d) PROVE HandlerInv'
  BY <1>9 DEF DeliverEffect, At, Go, Reached, HandlerInv, Work, Place, InDatabase, Locked,
     LockInv, PlanInv, CheckpointsAreDelivered, receiptVars, factVars
<1>10. ASSUME NEW d \in Handler, ApplyProjection(d) PROVE HandlerInv'
  BY <1>10 DEF ApplyProjection, At, Go, HandlerInv, Work, Place, InDatabase, Locked, LockInv,
     PlanInv, CheckpointsAreDelivered, receiptVars, factVars, history
<1>11. ASSUME NEW d \in Handler, StageReindex(d) PROVE HandlerInv'
  BY <1>11 DEF StageReindex, At, Go, Reached, HandlerInv, Work, Place, InDatabase, Locked,
     LockInv, PlanInv, CheckpointsAreDelivered, receiptVars, factVars
<1>12. ASSUME NEW d \in Handler, AdvanceCursor(d) PROVE HandlerInv'
  <2> DEFINE k == work[d].of
  <2>1. /\ k \in confirmed /\ k \in Confirmation /\ receipt[k] # "none"
        /\ work[d].next \in Ordinals(k) /\ work[d].next <= cursor[k] /\ cursor[k] \in Nat
    BY <1>12, WorkFields DEF AdvanceCursor, At, HandlerInv, Delivering
  <2>2. /\ UNCHANGED <<confirmed, delivered>>
        /\ \A c \in Confirmation : /\ receipt'[c] = "none" <=> receipt[c] = "none"
                                  /\ cursor[c] <= cursor'[c]
    BY <1>12, <2>1 DEF AdvanceCursor, factVars, history
  <2>3. ASSUME NEW e \in Handler, e # d
        PROVE  /\ work'[e] = work[e]
               /\ work[e].at \in Delivering =>
                     /\ work[e].of \in Confirmation /\ cursor[work[e].of] \in Nat
                     /\ cursor'[work[e].of] \in Nat
    <3>1. work'[e] = work[e]
      BY <1>12, <2>3, WorkFields DEF AdvanceCursor, Proceed, Leave
    <3>2. work[e].at \in Delivering => work[e].of \in Confirmation
      BY WorkFields DEF HandlerInv, Delivering
    <3>3. \A c \in Confirmation : cursor[c] \in Nat /\ cursor'[c] \in Nat
      BY <1>12, <2>1 DEF AdvanceCursor
    <3> QED
      BY <3>1, <3>2, <3>3
  <2>4. CASE work' = [work EXCEPT ![d] = Idle]
    <3>1. work'[d].at = "idle"
      BY <2>4 DEF Idle
    <3>2. ASSUME NEW e \in Handler, e # d
          PROVE  /\ work'[e].at # "idle" => work'[e].of \in confirmed'
                 /\ work'[e].at \in InDatabase =>
                       receipt'[work'[e].of] = "none" /\ work'[e].next = 0
                 /\ work'[e].at \in Delivering => receipt'[work'[e].of] # "none"
      BY <2>2, <2>3, <3>2 DEF HandlerInv, InDatabase, Locked, Delivering
    <3>3. ASSUME NEW e \in Handler, e # d, work'[e].at \in Delivering
          PROVE  /\ work'[e].next \in Ordinals(work'[e].of)
                 /\ work'[e].next <= cursor'[work'[e].of]
      <4>1. /\ work[e].next \in Nat /\ work[e].next <= cursor[work[e].of]
            /\ work[e].next \in Ordinals(work[e].of) /\ work'[e] = work[e]
        BY <2>3, <3>3, WorkFields DEF HandlerInv
      <4> QED
        BY <2>2, <2>3, <3>3, <4>1
    <3> QED
      BY <2>2, <2>3, <3>1, <3>2, <3>3 DEF HandlerInv, InDatabase, Locked, Delivering
  <2>5. CASE /\ work' = [work EXCEPT ![d].at = "effect", ![d].next = work[d].next + 1]
             /\ work[d].next + 1 # PlanLength(work[d].of)
    BY <1>12, <2>5 DEF AdvanceCursor, HandlerInv, Work
  <2> QED
    BY <1>12, <2>4, <2>5 DEF AdvanceCursor, Proceed, Leave
<1>13. ASSUME NEW d \in Handler, RollbackDatabasePhase(d) PROVE HandlerInv'
  BY <1>13 DEF RollbackDatabasePhase, Fault, Leave, Idle, HandlerInv, Work, Place, InDatabase,
     Locked, Delivering, LockInv, PlanInv, CheckpointsAreDelivered, receiptVars, factVars,
     history
<1>14. ASSUME NEW d \in Handler, FailDelivery(d) PROVE HandlerInv'
  BY <1>14 DEF FailDelivery, Fault, Leave, Idle, RecordFailure, HandlerInv, Work, Place,
     InDatabase, Locked, Delivering, LockInv, PlanInv, CheckpointsAreDelivered, factVars,
     history
<1>15. CASE UNCHANGED vars
  BY <1>15 DEF HandlerInv, Work, Place, LockInv, PlanInv, CheckpointsAreDelivered, vars,
     receiptVars, factVars, history
<1> QED
  BY <1>1, <1>2, <1>3, <1>4, <1>5, <1>6, <1>7, <1>8, <1>9, <1>10, <1>11, <1>12, <1>13, <1>14,
     <1>15 DEF Next, Step, Quiet

\* The insert excludes a second transaction of a receipt, the advisory lock a
\* second one of a reviewee.
LEMMA LockStep == Inv /\ [Next]_vars => LockInv'
<1> SUFFICES ASSUME Inv, [Next]_vars PROVE LockInv'
  OBVIOUS
<1> USE PlanLengths, ReceiptAssumption DEF Inv, ReceiptInv, TypeOK
<1>1. ASSUME NEW c \in Confirmation, Confirm(c) PROVE LockInv'
  BY <1>1 DEF Confirm, LockInv, Work, Place, Subject, LockTaken
<1>2. ASSUME NEW d \in Handler, NEW c \in Confirmation, InsertReceipt(d, c) PROVE LockInv'
  BY <1>2 DEF InsertReceipt, LockInv, Work, Place, Locked, Subject, LockTaken
<1>3. ASSUME NEW d \in Handler, NEW c \in Confirmation, LoadReceipt(d, c) PROVE LockInv'
  BY <1>3 DEF LoadReceipt, LockInv, Work, Place, InDatabase, Locked, Subject, LockTaken
<1>4. ASSUME NEW d \in Handler, AcquireProjectionLock(d) PROVE LockInv'
  BY <1>4 DEF AcquireProjectionLock, At, Go, LockInv, Work, Place, InDatabase, Subject, LockTaken
<1>5. ASSUME NEW d \in Handler, ReadTrustData(d) PROVE LockInv'
  BY <1>5 DEF ReadTrustData, At, LockInv, Work, Place, InDatabase, Locked, Subject, LockTaken
<1>6. ASSUME NEW d \in Handler, WriteTrustData(d) PROVE LockInv'
  BY <1>6 DEF WriteTrustData, At, Go, LockInv, Work, Place, InDatabase, Locked, Subject, LockTaken
<1>7. ASSUME NEW d \in Handler, SaveExternalEffects(d) PROVE LockInv'
  BY <1>7 DEF SaveExternalEffects, At, LockInv, Work, Place, InDatabase, Locked, Subject,
     LockTaken
<1>8. ASSUME NEW d \in Handler, CommitDatabasePhase(d) PROVE LockInv'
  BY <1>8 DEF CommitDatabasePhase, Go, LockInv, Work, Place, InDatabase, Locked, Subject,
     LockTaken
<1>9. ASSUME NEW d \in Handler, DeliverEffect(d) PROVE LockInv'
  BY <1>9 DEF DeliverEffect, Go, Reached, LockInv, Work, Place, InDatabase, Locked, Subject,
     LockTaken
<1>10. ASSUME NEW d \in Handler, ApplyProjection(d) PROVE LockInv'
  BY <1>10 DEF ApplyProjection, Go, LockInv, Work, Place, InDatabase, Locked, Subject, LockTaken
<1>11. ASSUME NEW d \in Handler, StageReindex(d) PROVE LockInv'
  BY <1>11 DEF StageReindex, Go, Reached, LockInv, Work, Place, InDatabase, Locked, Subject,
     LockTaken
<1>12. ASSUME NEW d \in Handler, AdvanceCursor(d) PROVE LockInv'
  <2>1. CASE work' = [work EXCEPT ![d] = Idle]
    BY <1>12, <2>1 DEF AdvanceCursor, Idle, LockInv, InDatabase, Locked, Subject
  <2>2. CASE /\ work' = [work EXCEPT ![d].at = "effect", ![d].next = work[d].next + 1]
             /\ work[d].next + 1 # PlanLength(work[d].of)
    BY <1>12, <2>2 DEF AdvanceCursor, LockInv, InDatabase, Locked, Subject
  <2> QED
    BY <1>12, <2>1, <2>2 DEF AdvanceCursor, Proceed, Leave
<1>13. ASSUME NEW d \in Handler, RollbackDatabasePhase(d) PROVE LockInv'
  BY <1>13 DEF RollbackDatabasePhase, Fault, Leave, Idle, LockInv, Work, Place, InDatabase,
     Locked, Subject, LockTaken
<1>14. ASSUME NEW d \in Handler, FailDelivery(d) PROVE LockInv'
  BY <1>14 DEF FailDelivery, Fault, Leave, Idle, RecordFailure, LockInv, Work, Place,
     InDatabase, Locked, Subject, LockTaken
<1>15. CASE UNCHANGED vars
  BY <1>15 DEF LockInv, Work, Place, Subject, LockTaken, vars
<1> QED
  BY <1>1, <1>2, <1>3, <1>4, <1>5, <1>6, <1>7, <1>8, <1>9, <1>10, <1>11, <1>12, <1>13, <1>14,
     <1>15 DEF Next, Step, Quiet

\* What the columns of a receipt say together.
LEMMA PlanStep == Inv /\ [Next]_vars => PlanInv'
<1> SUFFICES ASSUME Inv, [Next]_vars PROVE PlanInv'
  OBVIOUS
<1> USE PlanLengths DEF Inv, ReceiptInv, TypeOK, PlanInv
<1>1. ASSUME NEW c \in Confirmation, Confirm(c) PROVE PlanInv'
  BY <1>1 DEF Confirm, receiptVars, history
<1>2. ASSUME NEW d \in Handler, CommitDatabasePhase(d) PROVE PlanInv'
  BY <1>2 DEF CommitDatabasePhase, At, HandlerInv, DrawnInv, InDatabase, Locked, factVars
<1>3. ASSUME NEW d \in Handler, DeliverEffect(d) \/ StageReindex(d) PROVE PlanInv'
  <2> DEFINE k == work[d].of
  <2>1. /\ k \in Confirmation /\ receipt[k] # "none" /\ work[d].next \in Ordinals(k)
        /\ \A j \in 0..(work[d].next - 1) : j \in delivered[k]
    <3>1. work[d].at \in Delivering
      BY <1>3 DEF DeliverEffect, StageReindex, At, Delivering
    <3>2. /\ k \in Confirmation /\ receipt[k] # "none"
          /\ work[d].next \in Ordinals(k) /\ work[d].next <= cursor[k]
      BY <3>1, WorkFields DEF HandlerInv, Delivering
    <3>3. \A j \in 0..(cursor[k] - 1) : j \in delivered[k]
      BY <3>2 DEF CheckpointsAreDelivered
    <3>4. cursor[k] \in Nat /\ work[d].next \in Nat
      BY <3>2, WorkFields
    <3> QED
      BY <3>2, <3>3, <3>4
  <2>2. /\ UNCHANGED <<receiptVars, confirmed>>
        /\ delivered' = [delivered EXCEPT ![k] = @ \cup {work[d].next}]
    BY <1>3 DEF DeliverEffect, StageReindex, Reached, factVars
  <2> HIDE DEF k
  <2>3. UNCHANGED <<receipt, cursor, revision, errorCode, confirmed>>
    BY <2>2 DEF receiptVars
  <2>4. /\ delivered'[k] = delivered[k] \cup {work[d].next}
        /\ \A c \in Confirmation : c # k => delivered'[c] = delivered[c]
    BY <2>1, <2>2
  <2>5. \A i \in delivered'[k] : \A j \in 0..(i - 1) : j \in delivered'[k]
    BY <2>1, <2>4
  <2> QED
    BY <2>1, <2>3, <2>4, <2>5
<1>4. ASSUME NEW d \in Handler, AdvanceCursor(d) PROVE PlanInv'
  BY <1>4 DEF AdvanceCursor, At, HandlerInv, Delivering, factVars, history
<1>5. ASSUME NEW d \in Handler, FailDelivery(d) PROVE PlanInv'
  BY <1>5 DEF FailDelivery, RecordFailure, factVars, history
<1>6. CASE UNCHANGED <<receiptVars, confirmed, delivered>>
  BY <1>6 DEF receiptVars
<1>7. ASSUME NEW d \in Handler, Step(d) PROVE PlanInv'
  BY <1>2, <1>3, <1>4, <1>6, <1>7
  DEF Step, factVars, history, AcquireProjectionLock, ReadTrustData, WriteTrustData,
      SaveExternalEffects, ApplyProjection
<1> QED
  BY <1>1, <1>5, <1>6, <1>7
  DEF Next, Quiet, vars, factVars, history, InsertReceipt, LoadReceipt, RollbackDatabasePhase

\* applied counts the database phases that committed, one for every receipt.
LEMMA OnceStep == Inv /\ [Next]_vars => DatabasePhaseOnce'
<1> SUFFICES ASSUME Inv, [Next]_vars PROVE DatabasePhaseOnce'
  OBVIOUS
<1> USE DEF Inv, ReceiptInv, TypeOK
<1>1. ASSUME NEW d \in Handler, CommitDatabasePhase(d) PROVE DatabasePhaseOnce'
  BY <1>1 DEF CommitDatabasePhase, At, HandlerInv, DatabasePhaseOnce, InDatabase, Locked
<1>2. ASSUME NEW d \in Handler, AdvanceCursor(d) PROVE DatabasePhaseOnce'
  BY <1>2 DEF AdvanceCursor, At, HandlerInv, DatabasePhaseOnce, Delivering, history
<1>3. CASE UNCHANGED <<receipt, applied>>
  BY <1>3 DEF DatabasePhaseOnce
<1>4. ASSUME NEW d \in Handler, Step(d) PROVE DatabasePhaseOnce'
  BY <1>1, <1>2, <1>3, <1>4
  DEF Step, receiptVars, history, AcquireProjectionLock, ReadTrustData, WriteTrustData,
      SaveExternalEffects, DeliverEffect, ApplyProjection, StageReindex
<1> QED
  BY <1>3, <1>4
  DEF Next, Quiet, vars, receiptVars, history, Confirm, InsertReceipt, LoadReceipt,
      RollbackDatabasePhase, FailDelivery

\* The cursor passes an effect that its handler has just delivered.
LEMMA CheckpointStep == Inv /\ [Next]_vars => CheckpointsAreDelivered'
<1> SUFFICES ASSUME Inv, [Next]_vars PROVE CheckpointsAreDelivered'
  OBVIOUS
<1> USE PlanLengths DEF Inv, ReceiptInv, TypeOK, CheckpointsAreDelivered
<1>1. ASSUME NEW d \in Handler, CommitDatabasePhase(d) PROVE CheckpointsAreDelivered'
  BY <1>1 DEF CommitDatabasePhase, At, HandlerInv, PlanInv, InDatabase, Locked
<1>2. ASSUME NEW d \in Handler, DeliverEffect(d) \/ StageReindex(d) PROVE CheckpointsAreDelivered'
  BY <1>2 DEF DeliverEffect, StageReindex, Reached, receiptVars
<1>3. ASSUME NEW d \in Handler, AdvanceCursor(d) PROVE CheckpointsAreDelivered'
  BY <1>3 DEF AdvanceCursor, At, HandlerInv, Delivering, Ordinals, history
<1>4. CASE UNCHANGED <<receipt, cursor, delivered>>
  BY <1>4
<1>5. ASSUME NEW d \in Handler, Step(d) PROVE CheckpointsAreDelivered'
  BY <1>1, <1>2, <1>3, <1>4, <1>5
  DEF Step, receiptVars, history, AcquireProjectionLock, ReadTrustData, WriteTrustData,
      SaveExternalEffects, ApplyProjection
<1> QED
  BY <1>4, <1>5
  DEF Next, Quiet, vars, receiptVars, history, Confirm, InsertReceipt, LoadReceipt,
      RollbackDatabasePhase, FailDelivery

\* A confirmation stays confirmed, and a revision is computed from confirmed ones.
LEMMA CoverStep == Inv /\ [Next]_vars => CoverInv'
<1> SUFFICES ASSUME Inv, [Next]_vars PROVE CoverInv'
  OBVIOUS
<1> USE DEF Inv, ReceiptInv, TypeOK, CoverInv
<1>1. ASSUME NEW c \in Confirmation, Confirm(c) PROVE CoverInv'
  BY <1>1 DEF Confirm
<1>2. ASSUME NEW d \in Handler, SaveExternalEffects(d) PROVE CoverInv'
  BY <1>2 DEF SaveExternalEffects, Revision
<1>3. CASE UNCHANGED <<confirmed, covers>>
  BY <1>3
<1>4. ASSUME NEW d \in Handler, Step(d) PROVE CoverInv'
  BY <1>2, <1>3, <1>4
  DEF Step, factVars, AcquireProjectionLock, ReadTrustData, WriteTrustData, CommitDatabasePhase,
      DeliverEffect, ApplyProjection, StageReindex, AdvanceCursor
<1> QED
  BY <1>1, <1>3, <1>4
  DEF Next, Quiet, vars, factVars, InsertReceipt, LoadReceipt, RollbackDatabasePhase, FailDelivery


\* A receipt once recorded keeps its revision.
RecordedStays ==
    \A c \in Confirmation :
        receipt[c] # "none" => receipt'[c] # "none" /\ revision'[c] = revision[c]

\* A plan, once saved, keeps its revision and its receipt never disappears.
LEMMA RecordedStep == Inv /\ [Next]_vars => RecordedStays
<1> SUFFICES ASSUME Inv, [Next]_vars PROVE RecordedStays
  OBVIOUS
<1> USE DEF Inv, ReceiptInv, TypeOK, RecordedStays
<1>1. ASSUME NEW d \in Handler, CommitDatabasePhase(d) PROVE RecordedStays
  BY <1>1 DEF CommitDatabasePhase, At, HandlerInv, InDatabase, Locked
<1>2. ASSUME NEW d \in Handler, AdvanceCursor(d) PROVE RecordedStays
  BY <1>2 DEF AdvanceCursor
<1>3. CASE UNCHANGED <<receipt, revision>>
  BY <1>3
<1>4. ASSUME NEW d \in Handler, Step(d) PROVE RecordedStays
  BY <1>1, <1>2, <1>3, <1>4
  DEF Step, receiptVars, AcquireProjectionLock, ReadTrustData, WriteTrustData,
      SaveExternalEffects, DeliverEffect, ApplyProjection, StageReindex
<1> QED
  BY <1>3, <1>4
  DEF Next, Quiet, vars, receiptVars, Confirm, InsertReceipt, LoadReceipt,
      RollbackDatabasePhase, FailDelivery


RevisionsStay ==
    /\ UNCHANGED <<revision, lastRevision, covers>>
    /\ \A c \in Confirmation : receipt'[c] = "none" <=> receipt[c] = "none"
    /\ \A e \in Handler : work'[e].at = "committing" =>
          work[e].at = "committing" /\ work'[e].of = work[e].of /\ work'[e].drawn = work[e].drawn

\* Only drawing a revision and committing it change what OrderInv and DrawnInv say.
LEMMA FrameStep ==
    Inv /\ [Next]_vars =>
        RevisionsStay \/ \E e \in Handler : SaveExternalEffects(e) \/ CommitDatabasePhase(e)
<1> SUFFICES ASSUME Inv, [Next]_vars
             PROVE  RevisionsStay \/ \E e \in Handler : SaveExternalEffects(e) \/ CommitDatabasePhase(e)
  OBVIOUS
<1> DEFINE Goal == RevisionsStay \/ \E e \in Handler : SaveExternalEffects(e) \/ CommitDatabasePhase(e)
           Drawn(e) == work'[e].at = "committing" =>
              work[e].at = "committing" /\ work'[e].of = work[e].of /\ work'[e].drawn = work[e].drawn
<1> USE DEF Inv, ReceiptInv, TypeOK, RevisionsStay
<1>1. ASSUME NEW d \in Handler, NEW p \in Place \ {"committing"}, Go(d, p)
      PROVE  \A e \in Handler : Drawn(e)
  BY <1>1 DEF Go
<1>2. ASSUME NEW d \in Handler, Leave(d) PROVE \A e \in Handler : Drawn(e)
  BY <1>2 DEF Leave, Idle
<1>3. ASSUME NEW d \in Handler, NEW c \in Confirmation, InsertReceipt(d, c) \/ LoadReceipt(d, c)
      PROVE  Goal
  BY <1>3 DEF InsertReceipt, LoadReceipt, Idle, receiptVars, factVars
<1>4. ASSUME NEW d \in Handler, ReadTrustData(d) PROVE Goal
  BY <1>4 DEF ReadTrustData, receiptVars, factVars
<1>5. ASSUME NEW d \in Handler, AdvanceCursor(d) PROVE Goal
  <2>1. UNCHANGED <<revision, lastRevision, covers>>
    BY <1>5 DEF AdvanceCursor, factVars
  <2>2. \A c \in Confirmation : receipt'[c] = "none" <=> receipt[c] = "none"
    <3>1. receipt[work[d].of] # "none"
      BY <1>5 DEF AdvanceCursor, At, HandlerInv, Delivering
    <3> QED
      BY <1>5, <3>1 DEF AdvanceCursor
  <2>3. CASE work' = [work EXCEPT ![d].at = "effect", ![d].next = work[d].next + 1]
    BY <2>1, <2>2, <2>3
  <2> QED
    BY <1>2, <1>5, <2>1, <2>2, <2>3 DEF AdvanceCursor, Proceed
<1>6. ASSUME NEW d \in Handler, AcquireProjectionLock(d) \/ WriteTrustData(d) PROVE Goal
  BY <1>1, <1>6 DEF AcquireProjectionLock, WriteTrustData, Place, InDatabase, Locked,
     receiptVars, factVars
<1>7. ASSUME NEW d \in Handler, DeliverEffect(d) \/ ApplyProjection(d) \/ StageReindex(d) PROVE Goal
  BY <1>1, <1>7 DEF DeliverEffect, ApplyProjection, StageReindex, Place, Delivering,
     receiptVars, factVars
<1>8. ASSUME NEW d \in Handler, RollbackDatabasePhase(d) \/ FailDelivery(d) PROVE Goal
  BY <1>2, <1>8 DEF RollbackDatabasePhase, FailDelivery, receiptVars, factVars
<1>9. CASE UNCHANGED <<receiptVars, lastRevision, covers, work>>
  BY <1>9 DEF receiptVars
<1> QED
  BY <1>3, <1>4, <1>5, <1>6, <1>7, <1>8, <1>9 DEF Next, Step, Quiet, Confirm, vars, factVars


\* The revision that commits covers at least what the recorded ones of its reviewee do.
LEMMA OrderStep == Inv /\ [Next]_vars => OrderInv'
<1> SUFFICES ASSUME Inv, [Next]_vars PROVE OrderInv'
  OBVIOUS
<1> USE PlanLengths, ReceiptAssumption DEF Inv, ReceiptInv, TypeOK
<1>1. CASE RevisionsStay
  BY <1>1 DEF RevisionsStay, OrderInv, Recorded, CoversFor
<1>2. ASSUME NEW d \in Handler, SaveExternalEffects(d) PROVE OrderInv'
  <2>1. \A c \in Confirmation : revision[c] \in Revision /\ revision[c] <= lastRevision
    BY DEF OrderInv
  <2>2. \A c \in Confirmation : covers'[revision[c]] = covers[revision[c]]
    BY <1>2, <2>1 DEF SaveExternalEffects, Revision
  <2>3. UNCHANGED <<receipt, revision>> /\ lastRevision' >= lastRevision
    <3>1. lastRevision' = lastRevision + 1 /\ UNCHANGED receiptVars
      BY <1>2, Zenon DEF SaveExternalEffects
    <3>2. lastRevision \in Nat
      BY DEF Revision
    <3> QED
      BY <3>1, <3>2 DEF receiptVars
  <2>4. ASSUME NEW c \in Confirmation
        PROVE  revision'[c] <= lastRevision' /\ (receipt'[c] # "none" => CoversFor(revision[c], c)')
    <3>1. revision[c] \in Nat /\ lastRevision \in Nat /\ lastRevision' \in Nat
      BY <1>2 DEF SaveExternalEffects, Revision
    <3>2. revision'[c] <= lastRevision'
      BY <2>1, <2>3, <3>1
    <3>3. receipt[c] # "none" => CoversFor(revision[c], c)
      BY DEF OrderInv
    <3>4. CoversFor(revision[c], c)' <=> CoversFor(revision[c], c)
      BY <2>2, <2>3 DEF CoversFor
    <3> QED
      BY <2>3, <3>2, <3>3, <3>4
  <2>5. ASSUME NEW c \in Confirmation, NEW k \in Recorded(RevieweeOf[c]),
               revision[k] <= revision[c], receipt[c] # "none"
        PROVE  covers'[revision[k]] \subseteq covers'[revision[c]]
    <3>1. covers[revision[k]] \subseteq covers[revision[c]] /\ k \in Confirmation
      BY <2>5 DEF OrderInv, Recorded
    <3> QED
      BY <2>2, <3>1
  <2>6. \A r : Recorded(r)' = Recorded(r)
    BY <2>3 DEF Recorded
  <2> QED
    BY <2>3, <2>4, <2>5, <2>6 DEF OrderInv
<1>3. ASSUME NEW d \in Handler, CommitDatabasePhase(d) PROVE OrderInv'
  <2> DEFINE c == work[d].of
  <2>1. c \in Confirmation /\ receipt[c] = "none" /\ work[d].at = "committing"
    BY <1>3, WorkFields DEF CommitDatabasePhase, At, HandlerInv, InDatabase, Locked
  <2>2. /\ \A k \in Confirmation : k # c => revision'[k] = revision[k] /\ receipt'[k] = receipt[k]
        /\ revision'[c] = work[d].drawn /\ receipt'[c] # "none"
        /\ covers' = covers /\ lastRevision' = lastRevision
    BY <1>3, <2>1 DEF CommitDatabasePhase, factVars
  <2>3. /\ work[d].drawn <= lastRevision /\ CoversFor(work[d].drawn, c)
        /\ \A k \in Recorded(RevieweeOf[c]) :
              revision[k] < work[d].drawn /\ covers[revision[k]] \subseteq covers[work[d].drawn]
    BY <2>1 DEF DrawnInv, Subject
  <2>4. ASSUME NEW k \in Confirmation
        PROVE  revision'[k] <= lastRevision' /\ (receipt'[k] # "none" => CoversFor(revision[k], k)')
    BY <2>1, <2>2, <2>3 DEF OrderInv, CoversFor
  <2>5. ASSUME NEW j \in Confirmation, NEW k \in Confirmation, RevieweeOf[k] = RevieweeOf[j],
               receipt'[k] # "none", receipt'[j] # "none", revision'[k] <= revision'[j]
        PROVE  covers'[revision'[k]] \subseteq covers'[revision'[j]]
    <3>1. CASE j = c /\ k # c
      BY <2>1, <2>2, <2>3, <2>5, <3>1 DEF Recorded
    <3>2. CASE k = c /\ j # c
      <4>1. revision[j] < work[d].drawn
        BY <2>2, <2>3, <2>5, <3>2 DEF Recorded
      <4>2. work[d].drawn \in Nat /\ revision[j] \in Nat
        <5>1. work[d].drawn \in Revision /\ revision[j] \in Revision
          <6>1. work[d].drawn \in Revision
            BY WorkFields
          <6> QED
            BY <6>1
        <5> QED
          BY <5>1 DEF Revision
      <4> QED
        BY <2>2, <2>5, <3>2, <4>1, <4>2
    <3>3. CASE j # c /\ k # c
      BY <2>2, <2>5, <3>3 DEF OrderInv, Recorded
    <3> QED
      BY <3>1, <3>2, <3>3
  <2> QED
    BY <2>4, <2>5 DEF OrderInv, Recorded
<1> QED
  BY <1>1, <1>2, <1>3, FrameStep

\* A revision is drawn under the lock, after every recorded one of the reviewee.
LEMMA DrawnStep == Inv /\ [Next]_vars => DrawnInv'
<1> SUFFICES ASSUME Inv, [Next]_vars PROVE DrawnInv'
  OBVIOUS
<1> USE PlanLengths, ReceiptAssumption DEF Inv, ReceiptInv, TypeOK
<1>1. CASE RevisionsStay
  BY <1>1 DEF RevisionsStay, DrawnInv, Recorded, CoversFor, Subject
<1>2. ASSUME NEW d \in Handler, SaveExternalEffects(d) PROVE DrawnInv'
  <2> DEFINE v == lastRevision + 1
  <2>1. \A c \in Confirmation : revision[c] \in Revision /\ revision[c] <= lastRevision
    BY DEF OrderInv
  <2>2. /\ v \in Revision /\ v \in Nat
        /\ covers'[v] = Confirmations(Subject(d))
        /\ \A u \in Revision : u # v => covers'[u] = covers[u]
        /\ lastRevision \in Nat /\ lastRevision' = v
    BY <1>2 DEF SaveExternalEffects, Revision, Confirmations
  <2>3. work[d].of \in Confirmation /\ work[d].of \in confirmed
    BY <1>2, WorkFields DEF SaveExternalEffects, At, HandlerInv
  <2>4. \A c \in Recorded(Subject(d)) : covers[revision[c]] \subseteq covers'[v]
    BY <2>1, <2>2 DEF Recorded, OrderInv, CoversFor, CoverInv, Confirmations
  <2>5. ASSUME NEW e \in Handler, work'[e].at = "committing", e # d
        PROVE  /\ work[e] = work'[e]
               /\ work[e].drawn \in 1..lastRevision
    BY <1>2, <2>5 DEF SaveExternalEffects, DrawnInv
  <2>6. ASSUME NEW e \in Handler, work'[e].at = "committing", e # d
        PROVE  /\ work'[e].drawn \in 1..lastRevision'
               /\ CoversFor(work[e].drawn, work[e].of)'
               /\ \A c \in Recorded(Subject(e)) :
                     revision[c] < work[e].drawn /\ covers'[revision[c]] \subseteq covers'[work[e].drawn]
    <3>1. covers'[work[e].drawn] = covers[work[e].drawn]
      <4>1. work[e].drawn \in Revision
        BY WorkFields
      <4>2. work[e].drawn # v
        BY <2>2, <2>5, <2>6
      <4> QED
        BY <2>2, <4>1, <4>2
    <3>2. \A c \in Confirmation : covers'[revision[c]] = covers[revision[c]]
      BY <2>1, <2>2 DEF Revision
    <3>3. /\ CoversFor(work[e].drawn, work[e].of)
          /\ \A c \in Recorded(Subject(e)) :
                revision[c] < work[e].drawn /\ covers[revision[c]] \subseteq covers[work[e].drawn]
      BY <2>5, <2>6 DEF DrawnInv
    <3>4. work'[e].drawn \in 1..lastRevision'
      BY <2>2, <2>5, <2>6
    <3>5. CoversFor(work[e].drawn, work[e].of)'
      BY <2>5, <2>6, <3>1, <3>3 DEF CoversFor
    <3> QED
      BY <3>1, <3>2, <3>3, <3>4, <3>5 DEF Recorded
  <2>7. /\ work'[d].drawn = v /\ work'[d].of = work[d].of
        /\ receipt' = receipt /\ revision' = revision /\ lastRevision' = v
    BY <1>2 DEF SaveExternalEffects, receiptVars
  <2>8. work[d].of \in covers'[v] /\ \A k \in covers'[v] : RevieweeOf[k] = RevieweeOf[work[d].of]
    BY <2>2, <2>3 DEF Confirmations, Subject
  <2>9. \A c \in Recorded(Subject(d)) : covers'[revision[c]] \subseteq covers'[v] /\ revision[c] < v
    <3>1. \A c \in Confirmation : covers'[revision[c]] = covers[revision[c]]
      BY <2>1, <2>2 DEF Revision
    <3> QED
      BY <2>1, <2>4, <3>1 DEF Recorded, Revision
  <2>10. ASSUME NEW e \in Handler, work'[e].at = "committing"
         PROVE  /\ work'[e].drawn \in 1..lastRevision'
                /\ CoversFor(work[e].drawn, work[e].of)'
                /\ \A c \in Recorded(Subject(e))' :
                      revision'[c] < work'[e].drawn /\ covers'[revision'[c]] \subseteq covers'[work'[e].drawn]
    <3>1. CASE e = d
      BY <2>2, <2>7, <2>8, <2>9, <3>1 DEF CoversFor, Recorded, Subject
    <3>2. CASE e # d
      BY <2>5, <2>6, <2>7, <2>10, <3>2 DEF Recorded, Subject
    <3> QED
      BY <3>1, <3>2
  <2> QED
    BY <2>10 DEF DrawnInv
<1>3. ASSUME NEW d \in Handler, CommitDatabasePhase(d) PROVE DrawnInv'
  <2> DEFINE c == work[d].of
  <2>1. c \in Confirmation /\ receipt[c] = "none" /\ work[d].at = "committing"
    BY <1>3, WorkFields DEF CommitDatabasePhase, At, HandlerInv, InDatabase, Locked
  <2>2. /\ \A k \in Confirmation : k # c => revision'[k] = revision[k] /\ receipt'[k] = receipt[k]
        /\ covers' = covers /\ lastRevision' = lastRevision
    BY <1>3, <2>1 DEF CommitDatabasePhase, factVars
  <2>3. ASSUME NEW e \in Handler, work'[e].at = "committing"
        PROVE  e # d /\ work'[e] = work[e] /\ Subject(e) # Subject(d)
    BY <1>3, <2>1, <2>3 DEF CommitDatabasePhase, Go, LockInv, Locked
  <2>4. ASSUME NEW e \in Handler, work'[e].at = "committing"
        PROVE  \A k \in Recorded(Subject(e))' : k # c /\ k \in Recorded(Subject(e))
    BY <2>1, <2>2, <2>3, <2>4 DEF Recorded, Subject
  <2> QED
    BY <2>2, <2>3, <2>4 DEF DrawnInv, Recorded, Subject, CoversFor
<1> QED
  BY <1>1, <1>2, <1>3, FrameStep

\* What a database phase knows of the trust_data it read stays in its memory.
SeenStays ==
    \A e \in Handler : work'[e].at \in InDatabase =>
        \/ work'[e].seen = 0
        \/ /\ work[e].at \in InDatabase /\ work'[e].of = work[e].of
           /\ work'[e].seen \in {work[e].seen, projection[Subject(e)]}

\* The projection a transaction read is not changed by the rest of its steps.
LEMMA SeenStep == Inv /\ [Next]_vars => SeenStays
<1> SUFFICES ASSUME Inv, [Next]_vars PROVE SeenStays
  OBVIOUS
<1> USE DEF Inv, ReceiptInv, TypeOK
<1>1. ASSUME NEW d \in Handler, Leave(d) PROVE SeenStays
  BY <1>1 DEF Leave, Idle, SeenStays, InDatabase, Locked
<1>2. ASSUME NEW d \in Handler, NEW p \in Place, p \in InDatabase => work[d].at \in InDatabase, Go(d, p)
      PROVE  SeenStays
  BY <1>2 DEF Go, SeenStays
<1>3. ASSUME NEW d \in Handler, NEW c \in Confirmation, InsertReceipt(d, c) \/ LoadReceipt(d, c)
      PROVE  SeenStays
  <2>1. [Idle EXCEPT !.at = "locking", !.of = c].seen = 0
    BY DEF Idle
  <2>2. [Idle EXCEPT !.at = "effect", !.of = c, !.next = cursor[c]].seen = 0
    BY DEF Idle
  <2>3. work'[d].seen = 0 /\ \A e \in Handler : e # d => work'[e] = work[e]
    BY <1>3, <2>1, <2>2 DEF InsertReceipt, LoadReceipt
  <2> QED
    BY <2>3 DEF SeenStays
<1>4. ASSUME NEW d \in Handler, ReadTrustData(d) PROVE SeenStays
  BY <1>4 DEF ReadTrustData, At, SeenStays, InDatabase, Locked
<1>5. ASSUME NEW d \in Handler, SaveExternalEffects(d) PROVE SeenStays
  BY <1>5 DEF SaveExternalEffects, At, SeenStays, InDatabase, Locked
<1>6. ASSUME NEW d \in Handler, AdvanceCursor(d) PROVE SeenStays
  <2>1. CASE work' = [work EXCEPT ![d].at = "effect", ![d].next = work[d].next + 1]
    BY <2>1 DEF SeenStays, InDatabase, Locked
  <2> QED
    BY <1>1, <1>6, <2>1 DEF AdvanceCursor, Proceed
<1>7. CASE UNCHANGED work
  BY <1>7 DEF SeenStays
<1>8. ASSUME NEW d \in Handler, AcquireProjectionLock(d) PROVE SeenStays
  BY <1>2, <1>8 DEF AcquireProjectionLock, At, Place, InDatabase, Locked
<1>9. ASSUME NEW d \in Handler, WriteTrustData(d) PROVE SeenStays
  BY <1>2, <1>9 DEF WriteTrustData, At, Place, InDatabase, Locked
<1>10. ASSUME NEW d \in Handler,
             CommitDatabasePhase(d) \/ DeliverEffect(d) \/ ApplyProjection(d) \/ StageReindex(d)
       PROVE SeenStays
  <2>1. PICK p \in {"effect", "reindex", "checkpoint"} : Go(d, p)
    BY <1>10 DEF CommitDatabasePhase, DeliverEffect, ApplyProjection, StageReindex
  <2> QED
    BY <1>2, <2>1 DEF Place, InDatabase, Locked, Delivering
<1> QED
  BY <1>1, <1>3, <1>4, <1>5, <1>6, <1>7, <1>8, <1>9, <1>10
  DEF Next, Step, Quiet, Confirm, RollbackDatabasePhase, FailDelivery, vars

\* Where a new value of the trust_data column comes from.
ProjectionMoves ==
    \/ projection' = projection
    \/ \E d \in Handler : ApplyProjection(d) \/ CommitDatabasePhase(d)

\* The users row is written by a commit or by the projection listener.
LEMMA ProjectionMoveStep == [Next]_vars => ProjectionMoves
<1> SUFFICES ASSUME [Next]_vars PROVE ProjectionMoves
  OBVIOUS
<1>1. ASSUME NEW d \in Handler, Step(d) PROVE ProjectionMoves
  BY <1>1 DEF Step, ProjectionMoves, userVars, AcquireProjectionLock, ReadTrustData,
     WriteTrustData,
     SaveExternalEffects, DeliverEffect, StageReindex, AdvanceCursor
<1> QED
  BY <1>1 DEF Next, Quiet, ProjectionMoves, userVars, vars, Confirm, InsertReceipt, LoadReceipt,
     RollbackDatabasePhase, FailDelivery

\* What is written to the users row, or read from it, is the revision of a saved plan.
LEMMA StoredStep == Inv /\ [Next]_vars => StoredInv'
<1> SUFFICES ASSUME Inv, [Next]_vars PROVE StoredInv'
  OBVIOUS
<1> USE DEF Inv, ReceiptInv
<1>1. ASSUME NEW v, NEW r \in Reviewee, Stored(v, r)
      PROVE  v = 0 \/ \E c \in Recorded(r)' : revision'[c] = v
  BY <1>1, RecordedStep DEF Stored, RecordedStays, Recorded
<1>2. ASSUME NEW r \in Reviewee PROVE Stored(projection[r], r)'
  <2>1. CASE projection' = projection
    BY <1>1, <2>1 DEF StoredInv, Stored
  <2>2. ASSUME NEW d \in Handler, ApplyProjection(d), projection'[r] # projection[r]
        PROVE  Stored(projection[r], r)'
    <3>1. /\ work[d].of \in Recorded(r) /\ projection'[r] = revision[work[d].of]
      BY <2>2, WorkFields DEF ApplyProjection, At, TypeOK, HandlerInv, Delivering, Recorded
    <3> QED
      BY <3>1, RecordedStep DEF RecordedStays, Recorded, Stored
  <2>3. ASSUME NEW d \in Handler, CommitDatabasePhase(d), projection'[r] # projection[r]
        PROVE  Stored(projection[r], r)'
    <3>1. r = Subject(d) /\ projection'[r] = work[d].seen /\ work[d].at \in InDatabase
      BY <2>3 DEF CommitDatabasePhase, At, TypeOK, Subject, InDatabase, Locked
    <3> QED
      BY <1>1, <3>1 DEF StoredInv, Stored
  <2>4. CASE projection'[r] = projection[r]
    BY <1>1, <2>4 DEF StoredInv, Stored
  <2> QED
    BY <2>1, <2>2, <2>3, <2>4, ProjectionMoveStep DEF ProjectionMoves
<1>3. ASSUME NEW e \in Handler, work'[e].at \in InDatabase
      PROVE  Stored(work[e].seen, Subject(e))'
  <2>1. CASE work'[e].seen = 0
    BY <2>1 DEF Stored
  <2>2. CASE /\ work[e].at \in InDatabase /\ work'[e].of = work[e].of
             /\ work'[e].seen \in {work[e].seen, projection[Subject(e)]}
    <3>1. Subject(e) \in Reviewee
      BY <2>2, WorkFields, ReceiptAssumption DEF Subject, HandlerInv, InDatabase, Locked, TypeOK
    <3>2. Stored(work'[e].seen, Subject(e))
      BY <2>2, <3>1 DEF StoredInv
    <3> QED
      BY <1>1, <2>2, <3>1, <3>2 DEF Stored, Subject
  <2> QED
    BY <1>3, <2>1, <2>2, SeenStep DEF SeenStays
<1> QED
  BY <1>2, <1>3 DEF StoredInv, InDatabase, Locked

\* The projection effect counts as delivered when its reindex request is staged.
LEMMA ReindexStep == Inv /\ [Next]_vars => ReindexInv'
<1> SUFFICES ASSUME Inv, [Next]_vars, NEW c \in Confirmation, TalentOrdinal(c) \in delivered'[c]
             PROVE  revision'[c] \in reindexed'
  BY DEF ReindexInv
<1> USE PlanLengths DEF Inv, ReceiptInv, TypeOK
<1>1. ASSUME NEW d \in Handler, DeliverEffect(d) PROVE revision'[c] \in reindexed'
  BY <1>1 DEF DeliverEffect, Reached, ReindexInv, receiptVars, userVars
<1>2. ASSUME NEW d \in Handler, StageReindex(d) PROVE revision'[c] \in reindexed'
  BY <1>2 DEF StageReindex, Reached, ReindexInv, receiptVars
<1>3. CASE reindexed' = reindexed /\ delivered' = delivered
  <2>1. receipt[c] # "none" /\ revision[c] \in reindexed
    BY <1>3 DEF PlanInv, ReindexInv
  <2> QED
    BY <1>3, <2>1, RecordedStep DEF RecordedStays
<1>4. ASSUME NEW d \in Handler, Step(d) PROVE revision'[c] \in reindexed'
  BY <1>1, <1>2, <1>3, <1>4 DEF Step, userVars, history, AcquireProjectionLock, ReadTrustData,
     WriteTrustData, SaveExternalEffects, CommitDatabasePhase, ApplyProjection, AdvanceCursor
<1> QED
  BY <1>3, <1>4 DEF Next, Quiet, userVars, history, vars, Confirm, InsertReceipt, LoadReceipt,
     RollbackDatabasePhase, FailDelivery

\* A projection lands by ApplyProjection; delivering it later changes nothing.
LandsByApply ==
    \A c \in Confirmation :
        Landed(c)' => Landed(c) \/ \E d \in Handler : ApplyProjection(d) /\ work[d].of = c

\* A projection lands only by ApplyProjection of a handler of its receipt.
LEMMA LandStep == Inv /\ [Next]_vars => LandsByApply
<1> SUFFICES ASSUME Inv, [Next]_vars, NEW c \in Confirmation, Landed(c)'
             PROVE  Landed(c) \/ \E d \in Handler : ApplyProjection(d) /\ work[d].of = c
  BY DEF LandsByApply
<1> USE PlanLengths DEF Inv, ReceiptInv, TypeOK
<1> DEFINE Goal == Landed(c) \/ \E d \in Handler : ApplyProjection(d) /\ work[d].of = c
<1>1. CASE TalentOrdinal(c) \in delivered'[c]
  <2>1. ASSUME NEW d \in Handler, DeliverEffect(d) PROVE Goal
    BY <1>1, <2>1 DEF DeliverEffect, Reached, Landed
  <2>2. ASSUME NEW d \in Handler, StageReindex(d) PROVE Goal
    BY <1>1, <2>2 DEF StageReindex, Reached, Landed, At
  <2>3. CASE delivered' = delivered
    BY <1>1, <2>3 DEF Landed
  <2>4. ASSUME NEW d \in Handler, Step(d) PROVE Goal
    BY <2>1, <2>2, <2>3, <2>4 DEF Step, history, AcquireProjectionLock, ReadTrustData,
       WriteTrustData, SaveExternalEffects, CommitDatabasePhase, ApplyProjection, AdvanceCursor
  <2> QED
    BY <2>3, <2>4 DEF Next, Quiet, history, vars, Confirm, InsertReceipt, LoadReceipt,
       RollbackDatabasePhase, FailDelivery
<1>2. ASSUME NEW e \in Handler, work'[e].at = "reindex", work'[e].of = c PROVE Goal
  <2>1. CASE work'[e] = work[e]
    BY <1>2, <2>1 DEF Landed, At
  <2>2. ASSUME NEW d \in Handler, ApplyProjection(d) PROVE Goal
    <3>1. CASE e = d
      <4>1. work'[d].of = work[d].of
        BY <2>2, WorkFields DEF ApplyProjection, Go, Work
      <4> QED
        BY <1>2, <2>2, <3>1, <4>1
    <3>2. CASE e # d
      BY <2>1, <2>2, <3>2 DEF ApplyProjection, Go
    <3> QED
      BY <3>1, <3>2
  <2>3. ASSUME NEW d \in Handler, NEW p \in Place \ {"reindex"}, Go(d, p) PROVE Goal
    BY <1>2, <2>1, <2>3 DEF Go
  <2>4. ASSUME NEW d \in Handler, Leave(d) PROVE Goal
    BY <1>2, <2>1, <2>4 DEF Leave, Idle
  <2>5. ASSUME NEW d \in Handler, NEW k \in Confirmation, InsertReceipt(d, k) \/ LoadReceipt(d, k)
        PROVE  Goal
    <3>1. [Idle EXCEPT !.at = "locking", !.of = k].at = "locking"
      BY DEF Idle
    <3>2. [Idle EXCEPT !.at = "effect", !.of = k, !.next = cursor[k]].at = "effect"
      BY DEF Idle
    <3> QED
      BY <1>2, <2>1, <2>5, <3>1, <3>2 DEF InsertReceipt, LoadReceipt
  <2>6. ASSUME NEW d \in Handler, AdvanceCursor(d) PROVE Goal
    <3>1. CASE work' = [work EXCEPT ![d].at = "effect", ![d].next = work[d].next + 1]
      BY <1>2, <2>1, <3>1
    <3> QED
      BY <2>4, <2>6, <3>1 DEF AdvanceCursor, Proceed
  <2>7. ASSUME NEW d \in Handler, ReadTrustData(d) \/ SaveExternalEffects(d) PROVE Goal
    <3>1. CASE e = d
      BY <1>2, <2>7, <3>1 DEF ReadTrustData, SaveExternalEffects, Work
    <3>2. CASE e # d
      BY <2>1, <2>7, <3>2 DEF ReadTrustData, SaveExternalEffects
    <3> QED
      BY <3>1, <3>2
  <2>8. ASSUME NEW d \in Handler, AcquireProjectionLock(d) \/ WriteTrustData(d) \/ CommitDatabasePhase(d)
                 \/ DeliverEffect(d) \/ StageReindex(d)
        PROVE  Goal
    BY <2>3, <2>8 DEF AcquireProjectionLock, WriteTrustData, CommitDatabasePhase, DeliverEffect,
       StageReindex, Place, InDatabase, Locked, Delivering
  <2>9. CASE UNCHANGED work
    BY <1>2, <2>1, <2>9
  <2> QED
    BY <2>2, <2>4, <2>5, <2>6, <2>7, <2>8, <2>9
    DEF Next, Step, Quiet, Confirm, RollbackDatabasePhase, FailDelivery, vars
<1> QED
  BY <1>1, <1>2 DEF Landed, At

\* A landed projection belongs to a saved plan.
LEMMA LandedRecorded ==
    ASSUME Inv, NEW c \in Confirmation, Landed(c)
    PROVE  receipt[c] # "none"
<1>1. CASE TalentOrdinal(c) \in delivered[c]
  BY <1>1 DEF Inv, ReceiptInv, PlanInv
<1>2. CASE \E d \in Handler : At(d, "reindex") /\ work[d].of = c
  BY <1>2 DEF At, Inv, ReceiptInv, HandlerInv, Delivering
<1> QED
  BY <1>1, <1>2 DEF Landed

\* The handler that completes a receipt has seen its projection land.
LEMMA CompletesLanded ==
    ASSUME Inv, NEW d \in Handler, AdvanceCursor(d), receipt' # receipt
    PROVE  /\ work[d].of \in Confirmation /\ Landed(work[d].of)
           /\ receipt' = [receipt EXCEPT ![work[d].of] = "completed"]
<1> USE PlanLengths DEF Inv, ReceiptInv
<1>1. /\ work[d].of \in Confirmation /\ work[d].next \in Nat
      /\ work[d].next \in delivered[work[d].of]
  BY WorkFields DEF AdvanceCursor, At, HandlerInv, TypeOK
<1>2. /\ work[d].next + 1 = PlanLength(work[d].of)
      /\ receipt' = [receipt EXCEPT ![work[d].of] = "completed"]
  BY DEF AdvanceCursor
<1>3. TalentOrdinal(work[d].of) = work[d].next
  BY <1>1, <1>2
<1> QED
  BY <1>1, <1>2, <1>3 DEF Landed

\* The steps that replace a projection or complete a receipt.
LEMMA OutcomeStep ==
    [Next]_vars =>
        \/ UNCHANGED <<projection, receipt>>
        \/ \E d \in Handler : ApplyProjection(d) \/ CommitDatabasePhase(d) \/ AdvanceCursor(d)
<1> SUFFICES ASSUME [Next]_vars PROVE \/ UNCHANGED <<projection, receipt>>
        \/ \E d \in Handler : ApplyProjection(d) \/ CommitDatabasePhase(d) \/ AdvanceCursor(d)
  OBVIOUS
<1>1. ASSUME NEW d \in Handler, Step(d)
      PROVE  \/ UNCHANGED <<projection, receipt>>
             \/ ApplyProjection(d) \/ CommitDatabasePhase(d) \/ AdvanceCursor(d)
  BY <1>1 DEF Step, userVars, receiptVars, AcquireProjectionLock, ReadTrustData, WriteTrustData,
     SaveExternalEffects, DeliverEffect, StageReindex
<1> QED
  BY <1>1 DEF Next, Quiet, userVars, receiptVars, vars, Confirm, InsertReceipt, LoadReceipt,
     RollbackDatabasePhase, FailDelivery

\* A transaction that overwrites a landed projection has a newer one of its own to land;
\* by the time its plan is completed, that one has.
LEMMA LandedStep == Inv /\ [Next]_vars => LandedInv'
<1> SUFFICES ASSUME Inv, [Next]_vars, NEW c \in Confirmation, Landed(c)'
             PROVE  \/ revision'[c] <= projection'[RevieweeOf[c]]
                    \/ \E k \in Recorded(RevieweeOf[c])' :
                          receipt'[k] = "database_applied" /\ revision'[c] < revision'[k]
  BY DEF LandedInv
<1> DEFINE r == RevieweeOf[c]
           Newer(k) == k \in Recorded(r) /\ receipt[k] = "database_applied" /\ revision[c] < revision[k]
           Goal == \/ revision'[c] <= projection'[r]
                   \/ \E k \in Recorded(r)' :
                         receipt'[k] = "database_applied" /\ revision'[c] < revision'[k]
<1>0. /\ r \in Reviewee /\ projection[r] \in Nat
      /\ \A k \in Confirmation : revision[k] \in Nat
  BY ReceiptAssumption DEF Inv, TypeOK, Revision
<1>1. Landed(c) => revision'[c] = revision[c] /\ receipt[c] # "none"
  BY LandedRecorded, RecordedStep DEF RecordedStays
<1>2. Landed(c) => revision[c] <= projection[r] \/ \E k \in Confirmation : Newer(k)
  BY DEF Inv, ReceiptInv, LandedInv, Recorded
<1>3. ASSUME NEW k \in Confirmation, Newer(k), Landed(c), receipt'[k] = receipt[k]
      PROVE  Goal
  BY <1>1, <1>3, RecordedStep DEF RecordedStays, Recorded
<1>4. ASSUME NEW d \in Handler, ApplyProjection(d) PROVE Goal
  <2>1. work[d].of \in Confirmation /\ receipt' = receipt /\ revision' = revision
    BY <1>4, WorkFields DEF ApplyProjection, At, Inv, ReceiptInv, HandlerInv, TypeOK, receiptVars
  <2>2. CASE work[d].of = c
    BY <1>0, <1>4, <2>1, <2>2 DEF ApplyProjection, Inv, TypeOK
  <2>3. projection'[r] \in Nat /\ projection[r] <= projection'[r]
    BY <1>0, <1>4, <2>1 DEF ApplyProjection, Inv, TypeOK
  <2>4. CASE Landed(c)
    BY <1>0, <1>2, <1>3, <2>1, <2>3, <2>4
  <2>5. CASE \E e \in Handler : ApplyProjection(e) /\ work[e].of = c
    <3>1. PICK e \in Handler : ApplyProjection(e) /\ work[e].of = c
      BY <2>5
    <3> QED
      BY <1>0, <2>1, <3>1 DEF ApplyProjection, Inv, TypeOK
  <2> QED
    BY <2>4, <2>5, LandStep DEF LandsByApply
<1>5. CASE ~Landed(c)
  BY <1>4, <1>5, LandStep DEF LandsByApply
<1>6. CASE Landed(c) /\ UNCHANGED <<projection, receipt>>
  BY <1>1, <1>2, <1>3, <1>6
<1>7. ASSUME NEW d \in Handler, CommitDatabasePhase(d), Landed(c) PROVE Goal
  <2> DEFINE k == work[d].of
  <2>1. k \in Confirmation /\ receipt[k] = "none" /\ At(d, "committing")
    BY <1>7, WorkFields DEF CommitDatabasePhase, At, Inv, ReceiptInv, HandlerInv, InDatabase,
       Locked,
       TypeOK
  <2>2. /\ receipt' = [receipt EXCEPT ![k] = "database_applied"]
        /\ revision' = [revision EXCEPT ![k] = work[d].drawn]
    BY <1>7 DEF CommitDatabasePhase
  <2>3. CASE RevieweeOf[k] = r
    <3>1. revision[c] < work[d].drawn
      BY <1>1, <1>7, <2>1, <2>3 DEF Inv, ReceiptInv, DrawnInv, At, Recorded, Subject
    <3>2. receipt'[k] = "database_applied" /\ revision'[k] = work[d].drawn
      BY <2>1, <2>2 DEF Inv, TypeOK
    <3> QED
      BY <1>1, <1>7, <2>1, <2>3, <3>1, <3>2 DEF Recorded
  <2>4. CASE RevieweeOf[k] # r
    <3>1. projection'[r] = projection[r]
      BY <1>7, <2>4 DEF CommitDatabasePhase, Inv, TypeOK
    <3>2. \A j \in Confirmation : j # k => receipt'[j] = receipt[j]
      BY <2>2 DEF Inv, TypeOK
    <3> QED
      BY <1>1, <1>2, <1>3, <1>7, <2>4, <3>1, <3>2 DEF Recorded
  <2> QED
    BY <2>3, <2>4
<1>8. ASSUME NEW d \in Handler, AdvanceCursor(d), Landed(c), receipt' # receipt PROVE Goal
  <2> DEFINE k == work[d].of
  <2>1. /\ k \in Confirmation /\ Landed(k)
        /\ receipt' = [receipt EXCEPT ![k] = "completed"] /\ projection' = projection
    BY <1>8, CompletesLanded DEF AdvanceCursor, userVars
  <2>2. ASSUME NEW j \in Confirmation, Newer(j), j # k PROVE Goal
    BY <1>3, <1>8, <2>1, <2>2 DEF Inv, TypeOK
  <2>3. CASE Newer(k)
    <3>1. \/ revision[k] <= projection[r]
          \/ \E j \in Recorded(r) : receipt[j] = "database_applied" /\ revision[k] < revision[j]
      BY <2>1, <2>3 DEF Inv, ReceiptInv, LandedInv, Recorded
    <3>2. CASE revision[k] <= projection[r]
      BY <1>0, <1>1, <1>8, <2>1, <2>3, <3>2
    <3>3. ASSUME NEW j \in Recorded(r), receipt[j] = "database_applied", revision[k] < revision[j]
          PROVE  Newer(j) /\ j # k
      BY <1>0, <2>1, <2>3, <3>3 DEF Recorded
    <3> QED
      BY <2>2, <3>1, <3>2, <3>3 DEF Recorded
  <2>4. CASE revision[c] <= projection[r]
    BY <1>1, <1>8, <2>1, <2>4
  <2> QED
    BY <1>2, <1>8, <2>2, <2>3, <2>4
<1>9. ASSUME NEW d \in Handler, AdvanceCursor(d), Landed(c), receipt' = receipt PROVE Goal
  BY <1>6, <1>9 DEF AdvanceCursor, userVars
<1> QED
  BY <1>4, <1>5, <1>6, <1>7, <1>8, <1>9, OutcomeStep

\* Before the first review nothing is recorded, delivered or locked.
LEMMA InitInv == Init => Inv
<1> SUFFICES ASSUME Init PROVE Inv
  OBVIOUS
<1> USE PlanLengths, ReceiptAssumption
<1>1. 0 \in Revision /\ Idle \in Work /\ Idle.at = "idle"
  BY IdleType DEF Revision, Idle
<1>2. TypeOK
  BY <1>1 DEF Init, TypeOK
<1>3. DatabasePhaseOnce /\ CheckpointsAreDelivered /\ PlanInv
  BY DEF Init, DatabasePhaseOnce, CheckpointsAreDelivered, PlanInv
<1>4. HandlerInv /\ LockInv /\ DrawnInv
  BY <1>1 DEF Init, HandlerInv, LockInv, DrawnInv, InDatabase, Locked, Delivering
<1>5. CoverInv /\ OrderInv /\ ReindexInv
  BY DEF Init, CoverInv, OrderInv, ReindexInv
<1>6. StoredInv /\ LandedInv
  BY <1>1 DEF Init, StoredInv, Stored, LandedInv, Landed, At, InDatabase, Locked
<1> QED
  BY <1>2, <1>3, <1>4, <1>5, <1>6 DEF Inv, ReceiptInv

\* ReceiptInv is inductive, with the types.
LEMMA Invariant == Spec => []Inv
<1>1. Inv /\ [Next]_vars => Inv'
  <2> SUFFICES ASSUME Inv, [Next]_vars PROVE Inv'
    OBVIOUS
  <2>1. TypeOK' /\ HandlerInv' /\ LockInv' /\ PlanInv'
    BY TypeStep, HandlerStep, LockStep, PlanStep
  <2>2. DatabasePhaseOnce' /\ CheckpointsAreDelivered' /\ CoverInv' /\ OrderInv' /\ DrawnInv'
    BY OnceStep, CheckpointStep, CoverStep, OrderStep, DrawnStep
  <2>3. StoredInv' /\ ReindexInv' /\ LandedInv'
    BY StoredStep, ReindexStep, LandedStep
  <2> QED
    BY <2>1, <2>2, <2>3 DEF Inv, ReceiptInv
<1> QED
  BY InitInv, <1>1, PTL DEF Spec

\* Every variable of the receipts, the users rows and the handlers keeps its type.
THEOREM TypeCorrect == Spec => []TypeOK
<1>1. Inv => TypeOK
  BY DEF Inv
<1> QED
  BY Invariant, <1>1, PTL

\* The inductive invariant holds for any number of confirmations, reviewees,
\* handlers, revisions and faults.
THEOREM Invariance == Spec => []ReceiptInv
<1>1. Inv => ReceiptInv
  BY DEF Inv
<1> QED
  BY Invariant, <1>1, PTL

\* The database phase of a confirmation commits once, however often and however
\* concurrently the outbox calls the handler.
THEOREM PhaseOnce == Spec => []DatabasePhaseOnce
<1>1. Inv => DatabasePhaseOnce
  BY DEF Inv, ReceiptInv
<1> QED
  BY Invariant, <1>1, PTL

\* The cursor counts effects that were delivered, and only a delivered plan is
\* completed.
THEOREM Checkpoints == Spec => []CheckpointsAreDelivered
<1>1. Inv => CheckpointsAreDelivered
  BY DEF Inv, ReceiptInv
<1> QED
  BY Invariant, <1>1, PTL

\* The permanent cursor collision of advanceExternalEffectCursor is dead code.
THEOREM NoCollision == Spec => []CursorNeverCollides
<1>1. Inv => CursorNeverCollides
  BY DEF Inv, ReceiptInv, HandlerInv, CursorNeverCollides
<1> QED
  BY Invariant, <1>1, PTL

\* With every plan completed, LandedInv leaves only the newest revision in the row,
\* and OrderInv makes it cover all the reviews.
LEMMA InvConverges == Inv => ProjectionsConverge
<1> SUFFICES ASSUME Inv, NEW r \in Reviewee, Confirmations(r) # {},
                    \A c \in Confirmations(r) : receipt[c] = "completed"
             PROVE  covers[projection[r]] = Confirmations(r) /\ projection[r] \in reindexed
  BY DEF ProjectionsConverge
<1> USE PlanLengths DEF Inv, ReceiptInv
<1>1. Recorded(r) = Confirmations(r)
  BY DEF Recorded, Confirmations, PlanInv, TypeOK
<1>2. ASSUME NEW c \in Confirmations(r)
      PROVE  c \in Confirmation /\ RevieweeOf[c] = r /\ TalentOrdinal(c) \in delivered[c]
  <2>1. c \in Confirmation /\ RevieweeOf[c] = r
    BY DEF Confirmations, TypeOK
  <2>2. cursor[c] = PlanLength(c) /\ 0..(cursor[c] - 1) \subseteq delivered[c]
    BY <2>1 DEF CheckpointsAreDelivered
  <2> QED
    BY <2>1, <2>2
<1>3. \A c \in Confirmations(r) : revision[c] <= projection[r]
  BY <1>1, <1>2 DEF LandedInv, Landed
<1>4. PICK k \in Confirmations(r) : revision[k] = projection[r]
  <2>1. PICK c \in Confirmations(r) : TRUE
    OBVIOUS
  <2>2. revision[c] \in Nat /\ revision[c] # 0 /\ projection[r] \in Nat
    BY <1>2 DEF PlanInv, TypeOK, Revision
  <2>3. projection[r] # 0
    BY <1>3, <2>2
  <2> QED
    BY <1>1, <2>3 DEF StoredInv, Stored
<1>5. k \in Confirmation /\ RevieweeOf[k] = r /\ receipt[k] # "none"
  BY <1>2
<1>6. ASSUME NEW c \in Confirmations(r) PROVE c \in covers[projection[r]]
  <2>1. covers[revision[c]] \subseteq covers[revision[k]]
    BY <1>1, <1>3, <1>4, <1>5 DEF OrderInv
  <2>2. c \in covers[revision[c]]
    BY <1>2 DEF OrderInv, CoversFor
  <2> QED
    BY <1>4, <2>1, <2>2
<1>7. covers[projection[r]] \subseteq Confirmations(r)
  <2>1. \A c \in covers[revision[k]] : RevieweeOf[c] = r
    BY <1>5 DEF OrderInv, CoversFor
  <2>2. covers[revision[k]] \subseteq confirmed
    BY <1>5 DEF CoverInv, TypeOK
  <2> QED
    BY <1>4, <2>1, <2>2 DEF Confirmations
<1>8. projection[r] \in reindexed
  BY <1>2, <1>4, <1>5 DEF ReindexInv
<1> QED
  BY <1>6, <1>7, <1>8

\* Whatever the order and the repetitions of the deliveries, completed plans leave
\* a projection of all the reviews of the reviewee in the users row.
THEOREM Convergence == Spec => []ProjectionsConverge
  BY Invariant, InvConverges, PTL

\* Only the checkpoint moves a cursor, by one.
LEMMA CursorStep ==
    ASSUME Inv, [Next]_vars, NEW c \in Confirmation
    PROVE  cursor'[c] \in {cursor[c], cursor[c] + 1}
<1>1. ASSUME NEW d \in Handler, AdvanceCursor(d) PROVE cursor'[c] \in {cursor[c], cursor[c] + 1}
  BY <1>1 DEF AdvanceCursor, Inv, TypeOK
<1>2. ASSUME NEW d \in Handler, Step(d) PROVE cursor'[c] \in {cursor[c], cursor[c] + 1}
  BY <1>1, <1>2 DEF Step, receiptVars, AcquireProjectionLock, ReadTrustData, WriteTrustData,
     SaveExternalEffects, CommitDatabasePhase, DeliverEffect, ApplyProjection, StageReindex
<1> QED
  BY <1>2 DEF Next, Quiet, receiptVars, vars, Confirm, InsertReceipt, LoadReceipt,
     RollbackDatabasePhase, FailDelivery

\* No action takes a completed receipt back.
LEMMA CompletedStep ==
    ASSUME Inv, [Next]_vars, NEW c \in Confirmation, receipt[c] = "completed"
    PROVE  receipt'[c] = "completed"
<1>1. ASSUME NEW d \in Handler, CommitDatabasePhase(d) PROVE receipt'[c] = "completed"
  BY <1>1 DEF CommitDatabasePhase, At, Inv, TypeOK, ReceiptInv, HandlerInv, InDatabase, Locked
<1>2. ASSUME NEW d \in Handler, AdvanceCursor(d) PROVE receipt'[c] = "completed"
  BY <1>2 DEF AdvanceCursor, Inv, TypeOK
<1>3. ASSUME NEW d \in Handler, ApplyProjection(d) PROVE receipt'[c] = "completed"
  BY <1>3 DEF ApplyProjection, receiptVars
<1> QED
  BY <1>1, <1>2, <1>3, OutcomeStep

\* Only a listener and a commit write a projection: the listener a newer one, the
\* commit that of an older plan, with a newer plan behind it.
LEMMA ProjectionStep ==
    ASSUME Inv, [Next]_vars, NEW r \in Reviewee, projection'[r] < projection[r]
    PROVE  \E c \in Rescores :
              /\ RevieweeOf[c] = r
              /\ receipt[c] = "none" /\ receipt'[c] = "database_applied"
              /\ revision'[c] > projection[r]
<1>1. projection \in [Reviewee -> Nat] /\ revision \in [Confirmation -> Nat]
  BY ReceiptAssumption DEF Inv, TypeOK, Revision
<1>2. projection' # projection
  BY <1>1
<1>3. ASSUME NEW d \in Handler, ApplyProjection(d) PROVE FALSE
  <2>1. \/ projection' = projection
        \/ /\ projection[RevieweeOf[work[d].of]] < revision[work[d].of]
           /\ projection' = [projection EXCEPT ![RevieweeOf[work[d].of]] = revision[work[d].of]]
    BY <1>3 DEF ApplyProjection
  <2>2. work[d].of \in Confirmation
    BY <1>3 DEF ApplyProjection, At, Inv, ReceiptInv, HandlerInv, TypeOK
  <2> QED
    BY <1>1, <1>2, <2>1, <2>2
<1>4. PICK d \in Handler : CommitDatabasePhase(d)
  BY <1>2, <1>3 DEF Next, Step, Quiet, receiptVars, userVars, vars, Confirm, InsertReceipt, LoadReceipt,
     RollbackDatabasePhase, FailDelivery, AcquireProjectionLock, ReadTrustData, WriteTrustData,
     SaveExternalEffects, DeliverEffect, StageReindex, AdvanceCursor
<1>5. PICK c \in Confirmation : c = work[d].of /\ receipt[c] = "none"
  BY <1>4 DEF CommitDatabasePhase, At, Inv, ReceiptInv, HandlerInv, TypeOK, InDatabase, Locked
<1>6. c \in Rescores /\ RevieweeOf[c] = r
  BY <1>1, <1>2, <1>4, <1>5, ReceiptAssumption DEF CommitDatabasePhase
<1>7. receipt'[c] = "database_applied" /\ revision'[c] = work[d].drawn
  BY <1>1, <1>4, <1>5 DEF CommitDatabasePhase, Inv, TypeOK
<1>8. work[d].drawn > projection[r]
  <2>1. Stored(projection[r], r)
    BY DEF Inv, ReceiptInv, StoredInv
  <2>2. work[d].drawn \in 1..lastRevision /\ lastRevision \in Nat
    BY <1>4 DEF CommitDatabasePhase, At, Inv, ReceiptInv, DrawnInv, TypeOK, Revision
  <2>3. \A k \in Recorded(r) : revision[k] < work[d].drawn
    BY <1>4, <1>5, <1>6 DEF CommitDatabasePhase, At, Inv, ReceiptInv, DrawnInv, Subject
  <2> QED
    BY <1>1, <2>1, <2>2, <2>3 DEF Stored
<1> QED
  BY <1>5, <1>6, <1>7, <1>8

\* Every loss of a projection is repaired by the plan of the commit that caused it.
THEOREM RegressionsAreOwed == Spec => RegressionIsOwed
<1> DEFINE Owed ==
        \A r \in Reviewee : projection'[r] < projection[r] =>
            \E c \in Rescores :
                /\ RevieweeOf[c] = r
                /\ receipt[c] = "none" /\ receipt'[c] = "database_applied"
                /\ revision'[c] > projection[r]
<1>1. Inv /\ [Next]_vars => [Owed]_vars
  BY ProjectionStep
<1> QED
  BY Invariant, <1>1, PTL DEF Spec, RegressionIsOwed

\* The promise of the lock's comment holds where no database phase merges
\* trust_data: the merges that read without the row lock are the only cause.
THEOREM NoMergeNoRegression ==
  ASSUME Rescores = {}
  PROVE  Spec => ProjectionNeverRegresses
<1>1. Inv /\ [Next]_vars => [\A r \in Reviewee : projection'[r] >= projection[r]]_vars
  <2> SUFFICES ASSUME Inv, [Next]_vars, NEW r \in Reviewee PROVE projection'[r] >= projection[r]
    OBVIOUS
  <2>1. ~(projection'[r] < projection[r])
    BY ProjectionStep
  <2>2. projection[r] \in Nat /\ projection'[r] \in Nat
    BY TypeStep, ReceiptAssumption DEF Inv, TypeOK, Revision
  <2> QED
    BY <2>1, <2>2
<1> QED
  BY Invariant, <1>1, PTL DEF Spec, ProjectionNeverRegresses

\* Stale handlers never move a cursor back or over an effect, change the plan of
\* a receipt, or touch a completed one.
THEOREM Forward == Spec => ReceiptMovesForward
<1> DEFINE Moves ==
        \A c \in Confirmation :
            /\ cursor'[c] \in {cursor[c], cursor[c] + 1}
            /\ revision[c] # 0 => revision'[c] = revision[c]
            /\ receipt[c] = "completed" => receipt'[c] = "completed" /\ ~errorCode'[c]
<1>1. Inv /\ [Next]_vars => Moves
  <2> SUFFICES ASSUME Inv, [Next]_vars, NEW c \in Confirmation
               PROVE  /\ cursor'[c] \in {cursor[c], cursor[c] + 1}
                      /\ revision[c] # 0 => revision'[c] = revision[c]
                      /\ receipt[c] = "completed" => receipt'[c] = "completed" /\ ~errorCode'[c]
    OBVIOUS
  <2>1. revision[c] # 0 => revision'[c] = revision[c]
    BY RecordedStep DEF RecordedStays, Inv, ReceiptInv, PlanInv
  <2>2. receipt[c] = "completed" => receipt'[c] = "completed" /\ ~errorCode'[c]
    BY CompletedStep, PlanStep DEF PlanInv
  <2> QED
    BY CursorStep, <2>1, <2>2
<1>2. Inv /\ [Next]_vars => [Moves]_vars
  BY <1>1
<1> QED
  BY Invariant, <1>2, PTL DEF Spec, ReceiptMovesForward

-----------------------------------------------------------------------------
(* Refinement of EffectPlan *)

Phase == [c \in Confirmation |-> PhaseOf(c)]

\* The phase of a confirmation, state by state of its receipt.
LEMMA PhaseFacts ==
    ASSUME NEW c \in Confirmation
    PROVE  /\ receipt[c] = "completed" => PhaseOf(c) = "finished"
           /\ receipt[c] = "database_applied" => PhaseOf(c) = "recorded"
           /\ receipt[c] = "none" /\ c \in confirmed => PhaseOf(c) = "offered"
           /\ receipt[c] = "none" /\ c \notin confirmed => PhaseOf(c) = "waiting"
  BY DEF PhaseOf

\* A step that gives one confirmation a new receipt state, or confirms it.
LEMMA PhaseUpdate ==
    ASSUME NEW c \in Confirmation, NEW p, PhaseOf(c)' = p,
           \A k \in Confirmation : k # c => PhaseOf(k)' = PhaseOf(k)
    PROVE  Phase' = [Phase EXCEPT ![c] = p]
  BY DEF Phase

\* A confirmation whose receipt is left alone keeps its phase.
LEMMA PhaseFrame ==
    ASSUME NEW c \in Confirmation, receipt'[c] = receipt[c],
           c \in confirmed' <=> c \in confirmed
    PROVE  PhaseOf(c)' = PhaseOf(c)
  BY DEF PhaseOf

\* Every step of the receipts is a step of EffectPlan, or changes nothing of it.
LEMMA PlanRefinement == Inv /\ [Next]_vars => [Plan!PlanNext]_<<Phase, delivered>>
<1> SUFFICES ASSUME Inv, [Next]_vars PROVE [Plan!PlanNext]_<<Phase, delivered>>
  OBVIOUS
<1> DEFINE Goal == [Plan!PlanNext]_<<Phase, delivered>>
<1> USE DEF Inv, ReceiptInv, TypeOK
<1>1. ASSUME NEW c \in Confirmation, Confirm(c) PROVE Goal
  <2>1. receipt[c] = "none" /\ receipt' = receipt
    BY <1>1 DEF Confirm, PlanInv, receiptVars
  <2>2. Phase[c] = "waiting" /\ PhaseOf(c)' = "offered"
    <3>1. PhaseOf(c) = "waiting"
      BY <1>1, <2>1, PhaseFacts DEF Confirm
    <3>2. PhaseOf(c)' = "offered"
      BY <1>1, <2>1 DEF Confirm, PhaseOf
    <3> QED
      BY <3>1, <3>2 DEF Phase
  <2>3. \A k \in Confirmation : k # c => PhaseOf(k)' = PhaseOf(k)
    BY <1>1, <2>1 DEF Confirm, PhaseOf
  <2>4. Phase' = [Phase EXCEPT ![c] = "offered"]
    BY <2>2, <2>3, PhaseUpdate
  <2> QED
    BY <1>1, <2>2, <2>4 DEF Confirm, history, Plan!PlanNext, Plan!Offer, Plan!Advance, Phase
<1>2. ASSUME NEW d \in Handler, CommitDatabasePhase(d) PROVE Goal
  <2>1. PICK c \in Confirmation : c = work[d].of /\ receipt[c] = "none" /\ c \in confirmed
    BY <1>2, WorkFields DEF CommitDatabasePhase, At, HandlerInv, InDatabase, Locked
  <2>2. /\ receipt' = [receipt EXCEPT ![c] = "database_applied"]
        /\ confirmed' = confirmed /\ delivered' = delivered
    BY <1>2, <2>1 DEF CommitDatabasePhase, factVars
  <2>3. Phase[c] = "offered"
    BY <2>1, PhaseFacts DEF Phase
  <2>4. PhaseOf(c)' = "recorded"
    BY <2>1, <2>2 DEF PhaseOf
  <2>5. \A k \in Confirmation : k # c => PhaseOf(k)' = PhaseOf(k)
    BY <2>2, PhaseFrame
  <2>6. Phase' = [Phase EXCEPT ![c] = "recorded"]
    BY <2>1, <2>4, <2>5, PhaseUpdate
  <2> QED
    BY <2>1, <2>2, <2>3, <2>6 DEF Plan!PlanNext, Plan!Record, Plan!Advance, Phase
<1>3. ASSUME NEW d \in Handler, AdvanceCursor(d), receipt' # receipt PROVE Goal
  <2>1. PICK c \in Confirmation :
            /\ c = work[d].of /\ Landed(c)
            /\ receipt' = [receipt EXCEPT ![c] = "completed"]
    BY <1>3, CompletesLanded
  <2>2. confirmed' = confirmed /\ delivered' = delivered
    BY <1>3 DEF AdvanceCursor, factVars, history
  <2>3. receipt[c] = "database_applied"
    BY <1>3, <2>1, LandedRecorded DEF AdvanceCursor
  <2>4. Phase[c] = "recorded" /\ PhaseOf(c)' = "finished"
    <3>1. PhaseOf(c) = "recorded"
      BY <2>1, <2>3, PhaseFacts
    <3>2. PhaseOf(c)' = "finished"
      BY <2>1 DEF PhaseOf
    <3> QED
      BY <2>1, <3>1, <3>2 DEF Phase
  <2>5. Phase' = [Phase EXCEPT ![c] = "finished"]
    BY <2>1, <2>2, <2>4, PhaseFrame, PhaseUpdate
  <2>6. delivered[c] = 0..(PlanLength(c) - 1)
    <3>1. work[d].next = PlanLength(c) - 1 /\ work[d].next \in delivered[c]
      BY <1>3, <2>1, PlanLengths, WorkFields DEF AdvanceCursor, At, HandlerInv
    <3>2. \A i \in 0..(PlanLength(c) - 2) : i \in delivered[c]
      BY <2>1, <3>1, PlanLengths DEF PlanInv
    <3>3. delivered[c] \subseteq 0..(PlanLength(c) - 1)
      BY <2>1 DEF Ordinals
    <3>4. ASSUME NEW i \in 0..(PlanLength(c) - 1), i # PlanLength(c) - 1
          PROVE  i \in 0..(PlanLength(c) - 2)
      BY <2>1, <3>4, PlanLengths
    <3> QED
      BY <2>1, <3>1, <3>2, <3>3, <3>4
  <2> QED
    BY <2>1, <2>2, <2>4, <2>5, <2>6 DEF Plan!PlanNext, Plan!Finish, Plan!Advance, Phase
<1>4. ASSUME NEW d \in Handler, DeliverEffect(d) \/ StageReindex(d) PROVE Goal
  <2> DEFINE c == work[d].of
  <2>1. /\ c \in Confirmation /\ receipt[c] \in {"database_applied", "completed"}
        /\ work[d].next \in Ordinals(c) /\ work[d].next <= cursor[c]
    BY <1>4, WorkFields DEF DeliverEffect, StageReindex, At, HandlerInv, Delivering
  <2>2. /\ receipt' = receipt /\ confirmed' = confirmed
        /\ delivered' = [delivered EXCEPT ![c] = @ \cup {work[d].next}]
    BY <1>4 DEF DeliverEffect, StageReindex, Reached, receiptVars, factVars
  <2>3. Phase[c] \in {"recorded", "finished"}
    BY <2>1, PhaseFacts DEF Phase
  <2>4. Phase' = Phase
    BY <2>2, PhaseFrame DEF Phase
  <2>5. \A i \in 0..(work[d].next - 1) : i \in delivered[c]
    BY <2>1, PlanLengths DEF CheckpointsAreDelivered, Ordinals
  <2> QED
    BY <2>1, <2>2, <2>3, <2>4, <2>5 DEF Plan!PlanNext, Plan!Reach, Phase, Ordinals
<1>5. CASE UNCHANGED <<receipt, confirmed, delivered>>
  BY <1>5, PhaseFrame DEF Phase
<1>6. ASSUME NEW d \in Handler, Step(d) PROVE Goal
  BY <1>2, <1>3, <1>4, <1>5, <1>6
  DEF Step, receiptVars, factVars, history, AcquireProjectionLock, ReadTrustData, WriteTrustData,
      SaveExternalEffects, ApplyProjection, AdvanceCursor
<1> QED
  BY <1>1, <1>5, <1>6
  DEF Next, Quiet, vars, receiptVars, factVars, history, InsertReceipt, LoadReceipt,
      RollbackDatabasePhase, FailDelivery

\* With all its locks, retries and crashes a receipt does what EffectPlan says:
\* recorded once, delivered in the order of the plan, finished after that.
THEOREM Refinement == Spec => KeepsPlan
<1>1. Init => Plan!PlanInit
  BY DEF Init, Plan!PlanInit, PhaseOf
<1>2. Inv /\ [Next]_vars => [Plan!PlanNext]_<<Phase, delivered>>
  BY PlanRefinement
<1> QED
  BY <1>1, <1>2, Invariant, PTL DEF Spec, KeepsPlan, Plan!PlanSpec, Phase

=============================================================================
