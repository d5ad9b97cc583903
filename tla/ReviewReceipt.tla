---------------------------- MODULE ReviewReceipt ----------------------------
(***************************************************************************)
(* The processing of a review:confirmed or dispute:resolved event by the   *)
(* reviews module.  The outbox calls the handler at least once, possibly   *)
(* several times at the same time.  A handler runs one database            *)
(* transaction, which inserts the receipt of the confirmation, recomputes  *)
(* the scores of the reviewee under an advisory lock and saves a plan of   *)
(* external effects; then it delivers the effects of the plan one by one,  *)
(* each followed by a compare-and-set of the receipt's cursor.             *)
(*                                                                         *)
(* The last effect of a plan writes a projection of the reviewee's reviews *)
(* into the users row, under a revision drawn from a sequence.             *)
(***************************************************************************)
EXTENDS Naturals

CONSTANTS
    Confirmation,  \* confirmation_id or dispute_id
    None,          \* the confirmation of an idle handler
    Reviewee,      \* users under review
    RevieweeOf,    \* the reviewee of a confirmation
    Rescores,      \* confirmations whose database phase merges trust_data
    Skills,        \* number of skill_score_updated effects of a plan
    Handler,       \* invocations of the handler alive at a time
    MaxRevision,   \* bound on the revisions a run allocates
    MaxFaults      \* bound on failed or crashed handlers

ASSUME ReceiptAssumption ==
    /\ None \notin Confirmation
    /\ RevieweeOf \in [Confirmation -> Reviewee]
    /\ Rescores \subseteq Confirmation
    /\ Skills \in [Confirmation -> Nat]
    /\ MaxRevision \in Nat
    /\ MaxFaults \in Nat

VARIABLES
    confirmed,     \* confirmations committed to their review sessions
    receipt,       \* state column of the receipt, "none" when there is no row
    cursor,        \* external_effect_cursor
    errorCode,     \* last_external_error_code is set
    revision,      \* source_revision of the saved talent projection, 0 for none
    lastRevision,  \* talent_explainability_source_revision_seq
    covers,        \* history: the confirmations a revision was computed from
    projection,    \* revision in the trust_data column of the users row, 0 for none
    reindexed,     \* revisions with a staged search:talent-reindex-requested
    work,          \* what each handler is doing
    applied,       \* history: committed database phases
    delivered,     \* history: ordinals of the effects that were delivered
    faults         \* faults so far

receiptVars == <<receipt, cursor, errorCode, revision>>
userVars == <<projection, reindexed>>
factVars == <<confirmed, lastRevision, covers>>
history == <<applied, delivered>>
vars == <<receiptVars, userVars, factVars, history, work, faults>>

\* Where a handler is: in the open transaction it waits for the reviewee's
\* lock, computes scores, holds the trust_data it read, has written them, or
\* has saved its plan; then it is about to deliver an effect, to stage the
\* reindex request of the projection, or to advance the cursor.
Locked == {"scoring", "merging", "projecting", "committing"}
InDatabase == {"locking"} \cup Locked
Delivering == {"effect", "reindex", "checkpoint"}
Place == {"idle"} \cup InDatabase \cup Delivering

Revision == 0..MaxRevision
Work == [at : Place, of : Confirmation \cup {None}, next : Nat, seen : Revision, drawn : Revision]
Idle == [at |-> "idle", of |-> None, next |-> 0, seen |-> 0, drawn |-> 0]

\* The skill score events in order, the cache invalidation, the projection.
PlanLength(c) == Skills[c] + 2
Ordinals(c) == 0..(PlanLength(c) - 1)
TalentOrdinal(c) == PlanLength(c) - 1

\* What receipts, handlers and the users rows hold.
TypeOK ==
    /\ confirmed \subseteq Confirmation
    /\ receipt \in [Confirmation -> {"none", "database_applied", "completed"}]
    /\ \A c \in Confirmation : cursor[c] \in 0..PlanLength(c) /\ delivered[c] \subseteq Ordinals(c)
    /\ cursor \in [Confirmation -> Nat]
    /\ errorCode \in [Confirmation -> BOOLEAN]
    /\ revision \in [Confirmation -> Revision]
    /\ lastRevision \in Revision
    /\ covers \in [Revision -> SUBSET Confirmation]
    /\ projection \in [Reviewee -> Revision]
    /\ reindexed \subseteq Revision
    /\ work \in [Handler -> Work]
    /\ applied \in [Confirmation -> Nat]
    /\ delivered \in [Confirmation -> SUBSET Nat]
    /\ faults \in 0..MaxFaults

Init ==
    /\ confirmed = {}
    /\ receipt = [c \in Confirmation |-> "none"]
    /\ cursor = [c \in Confirmation |-> 0]
    /\ errorCode = [c \in Confirmation |-> FALSE]
    /\ revision = [c \in Confirmation |-> 0]
    /\ lastRevision = 0
    /\ covers = [v \in Revision |-> {}]
    /\ projection = [r \in Reviewee |-> 0]
    /\ reindexed = {}
    /\ work = [d \in Handler |-> Idle]
    /\ applied = [c \in Confirmation |-> 0]
    /\ delivered = [c \in Confirmation |-> {}]
    /\ faults = 0

Fault == faults < MaxFaults /\ faults' = faults + 1

At(d, place) == work[d].at = place
Subject(d) == RevieweeOf[work[d].of]
Go(d, place) == work' = [work EXCEPT ![d].at = place]
Leave(d) == work' = [work EXCEPT ![d] = Idle]

\* Some handler holds the advisory lock, or the users row, of a reviewee.
LockTaken(r) == \E d \in Handler : work[d].at \in Locked /\ Subject(d) = r
RowTaken(r) ==
    \E d \in Handler :
        /\ work[d].at \in {"projecting", "committing"}
        /\ Subject(d) = r
        /\ work[d].of \in Rescores

-----------------------------------------------------------------------------
(* The confirm and resolve commands, which stage the event. *)

Confirm(c) ==
    /\ c \notin confirmed
    /\ confirmed' = confirmed \cup {c}
    /\ UNCHANGED <<receiptVars, userVars, lastRevision, covers, history, work, faults>>

-----------------------------------------------------------------------------
(* applyDatabasePhase *)

\* Mutant of InsertReceipt: an open transaction on the receipt is not awaited.
InsertUnawaited(d, c) ==
    /\ At(d, "idle")
    /\ c \in confirmed
    /\ receipt[c] = "none"
    /\ work' = [work EXCEPT ![d] = [Idle EXCEPT !.at = "locking", !.of = c]]
    /\ UNCHANGED <<receiptVars, userVars, factVars, history, faults>>

\* claimOrLoadDatabaseApplied inserts the receipt.  A conflicting insert waits
\* for the transaction that made the other one.
InsertReceipt(d, c) ==
    /\ At(d, "idle")
    /\ c \in confirmed
    /\ receipt[c] = "none"
    /\ \A e \in Handler : work[e].at \in InDatabase => work[e].of # c
    /\ work' = [work EXCEPT ![d] = [Idle EXCEPT !.at = "locking", !.of = c]]
    /\ UNCHANGED <<receiptVars, userVars, factVars, history, faults>>

\* Mutants of LoadReceipt: the handler resumes after the effect that failed; a
\* plan that was started is taken for finished.
LoadPastCursor(d, c) ==
    /\ At(d, "idle")
    /\ receipt[c] = "database_applied"
    /\ cursor[c] + 1 \in Ordinals(c)
    /\ work' = [work EXCEPT ![d] = [Idle EXCEPT !.at = "effect", !.of = c, !.next = cursor[c] + 1]]
    /\ UNCHANGED <<receiptVars, userVars, factVars, history, faults>>

LoadUntouched(d, c) ==
    /\ At(d, "idle")
    /\ receipt[c] = "database_applied"
    /\ cursor[c] = 0
    /\ work' = [work EXCEPT ![d] = [Idle EXCEPT !.at = "effect", !.of = c, !.next = cursor[c]]]
    /\ UNCHANGED <<receiptVars, userVars, factVars, history, faults>>

\* It finds the receipt of an earlier call, and the handler goes on from its
\* cursor; a completed receipt ends the call.
LoadReceipt(d, c) ==
    /\ At(d, "idle")
    /\ receipt[c] = "database_applied"
    /\ work' = [work EXCEPT ![d] = [Idle EXCEPT !.at = "effect", !.of = c, !.next = cursor[c]]]
    /\ UNCHANGED <<receiptVars, userVars, factVars, history, faults>>

\* pg_advisory_xact_lock on the reviewee, held until the transaction ends.
AcquireProjectionLock(d) ==
    /\ At(d, "locking")
    /\ ~LockTaken(Subject(d))
    /\ Go(d, IF work[d].of \in Rescores THEN "scoring" ELSE "projecting")
    /\ UNCHANGED <<receiptVars, userVars, factVars, history, faults>>

\* mergeTrustData reads the users row without locking it ...
ReadTrustData(d) ==
    /\ At(d, "scoring")
    /\ work' = [work EXCEPT ![d].at = "merging", ![d].seen = projection[Subject(d)]]
    /\ UNCHANGED <<receiptVars, userVars, factVars, history, faults>>

\* ... and writes back the whole column, which locks the row until the end of
\* the transaction; the later merges of the phase read this version of it.
WriteTrustData(d) ==
    /\ At(d, "merging")
    /\ Go(d, "projecting")
    /\ UNCHANGED <<receiptVars, userVars, factVars, history, faults>>

\* The projection is computed from the reviews committed so far and stamped
\* with the next value of the sequence; saveExternalEffects stores the plan.
SaveExternalEffects(d) ==
    /\ At(d, "projecting")
    /\ lastRevision < MaxRevision
    /\ lastRevision' = lastRevision + 1
    /\ covers' = [covers EXCEPT ![lastRevision + 1] =
                      {c \in confirmed : RevieweeOf[c] = Subject(d)}]
    /\ work' = [work EXCEPT ![d].at = "committing", ![d].drawn = lastRevision + 1]
    /\ UNCHANGED <<receiptVars, userVars, confirmed, history, faults>>

CommitDatabasePhase(d) ==
    /\ At(d, "committing")
    /\ LET c == work[d].of IN
         /\ receipt' = [receipt EXCEPT ![c] = "database_applied"]
         /\ revision' = [revision EXCEPT ![c] = work[d].drawn]
         /\ applied' = [applied EXCEPT ![c] = @ + 1]
         /\ projection' = IF c \in Rescores
                          THEN [projection EXCEPT ![RevieweeOf[c]] = work[d].seen]
                          ELSE projection
    /\ Go(d, "effect")
    /\ UNCHANGED <<cursor, errorCode, reindexed, factVars, delivered, faults>>

\* An error, the abort signal, a lock timeout or a crash; the sequence is not
\* rolled back.
RollbackDatabasePhase(d) ==
    /\ work[d].at \in InDatabase
    /\ Fault
    /\ Leave(d)
    /\ UNCHANGED <<receiptVars, userVars, factVars, history>>

-----------------------------------------------------------------------------
(* applyExternalEffects *)

Reached(d) == delivered' = [delivered EXCEPT ![work[d].of] = @ \cup {work[d].next}]

\* Mutant of DeliverEffect: the event is not awaited, and gets lost.
DeliverUnawaited(d) ==
    /\ At(d, "effect")
    /\ work[d].next # TalentOrdinal(work[d].of)
    /\ Go(d, "checkpoint")
    /\ UNCHANGED <<receiptVars, userVars, factVars, history, faults>>

\* A skill score event or the cache invalidation.
DeliverEffect(d) ==
    /\ At(d, "effect")
    /\ work[d].next # TalentOrdinal(work[d].of)
    /\ Reached(d)
    /\ Go(d, "checkpoint")
    /\ UNCHANGED <<receiptVars, userVars, factVars, applied, faults>>

\* Mutant of ApplyProjection: the stored revision is not compared.
ApplyAnyProjection(d) ==
    LET c == work[d].of IN
    /\ At(d, "effect")
    /\ work[d].next = TalentOrdinal(c)
    /\ ~RowTaken(RevieweeOf[c])
    /\ projection' = [projection EXCEPT ![RevieweeOf[c]] = revision[c]]
    /\ Go(d, "reindex")
    /\ UNCHANGED <<receiptVars, reindexed, factVars, history, faults>>

\* The projection listener locks the users row and writes a newer revision.
ApplyProjection(d) ==
    LET c == work[d].of
        r == RevieweeOf[c]
    IN
    /\ At(d, "effect")
    /\ work[d].next = TalentOrdinal(c)
    /\ ~RowTaken(r)
    /\ projection' = IF projection[r] < revision[c]
                     THEN [projection EXCEPT ![r] = revision[c]]
                     ELSE projection
    /\ Go(d, "reindex")
    /\ UNCHANGED <<receiptVars, reindexed, factVars, history, faults>>

\* Then it stages a reindex request, once per revision, in its own transaction.
StageReindex(d) ==
    /\ At(d, "reindex")
    /\ reindexed' = reindexed \cup {revision[work[d].of]}
    /\ Reached(d)
    /\ Go(d, "checkpoint")
    /\ UNCHANGED <<receiptVars, projection, factVars, applied, faults>>

\* Mutant of Proceed: one effect too many.
ProceedTooFar(d) ==
    LET n == work[d].next + 1 IN
    IF n > PlanLength(work[d].of) THEN Leave(d)
    ELSE work' = [work EXCEPT ![d].at = "effect", ![d].next = n]

\* The handler goes to the next effect of its plan, or returns.
Proceed(d) ==
    LET n == work[d].next + 1 IN
    IF n = PlanLength(work[d].of) THEN Leave(d)
    ELSE work' = [work EXCEPT ![d].at = "effect", ![d].next = n]

\* Mutant of AdvanceCursor: no comparison before the update.
AdvanceBlindly(d) ==
    LET c == work[d].of
        n == work[d].next + 1
    IN
    /\ At(d, "checkpoint")
    /\ cursor' = [cursor EXCEPT ![c] = n]
    /\ receipt' = IF n = PlanLength(c) THEN [receipt EXCEPT ![c] = "completed"] ELSE receipt
    /\ errorCode' = IF n = PlanLength(c) THEN [errorCode EXCEPT ![c] = FALSE] ELSE errorCode
    /\ Proceed(d)
    /\ UNCHANGED <<revision, userVars, factVars, history, faults>>

\* advanceExternalEffectCursor: another handler was faster, or compare-and-set.
\* A cursor below the expected one would be a collision.
AdvanceCursor(d) ==
    LET c == work[d].of
        n == work[d].next + 1
    IN
    /\ At(d, "checkpoint")
    /\ \/ cursor[c] > work[d].next /\ UNCHANGED <<cursor, receipt, errorCode>>
       \/ /\ cursor[c] = work[d].next
          /\ cursor' = [cursor EXCEPT ![c] = n]
          /\ IF n = PlanLength(c)
             THEN /\ receipt' = [receipt EXCEPT ![c] = "completed"]
                  /\ errorCode' = [errorCode EXCEPT ![c] = FALSE]
             ELSE UNCHANGED <<receipt, errorCode>>
    /\ Proceed(d)
    /\ UNCHANGED <<revision, userVars, factVars, history, faults>>

\* Mutant of RecordFailure: the state of the receipt is not looked at.
RecordAnyFailure(c) == errorCode' = [errorCode EXCEPT ![c] = TRUE]

RecordFailure(c) ==
    errorCode' = IF receipt[c] = "database_applied" THEN [errorCode EXCEPT ![c] = TRUE]
                 ELSE errorCode

\* An effect or a checkpoint throws, the handler is aborted, or its process
\* ends; recordExternalFailure is best effort.
FailDelivery(d) ==
    /\ work[d].at \in Delivering
    /\ Fault
    /\ Leave(d)
    /\ RecordFailure(work[d].of) \/ UNCHANGED errorCode
    /\ UNCHANGED <<receipt, cursor, revision, userVars, factVars, history>>

-----------------------------------------------------------------------------

Step(d) ==
    \/ AcquireProjectionLock(d)
    \/ ReadTrustData(d)
    \/ WriteTrustData(d)
    \/ SaveExternalEffects(d)
    \/ CommitDatabasePhase(d)
    \/ DeliverEffect(d)
    \/ ApplyProjection(d)
    \/ StageReindex(d)
    \/ AdvanceCursor(d)

\* Every event is confirmed and processed, and no handler is left.
Quiet ==
    /\ confirmed = Confirmation
    /\ \A c \in Confirmation : receipt[c] = "completed"
    /\ \A d \in Handler : At(d, "idle")
    /\ UNCHANGED vars

Next ==
    \/ \E c \in Confirmation : Confirm(c)
    \/ \E d \in Handler :
          \/ \E c \in Confirmation : InsertReceipt(d, c) \/ LoadReceipt(d, c)
          \/ Step(d)
          \/ RollbackDatabasePhase(d)
          \/ FailDelivery(d)
    \/ Quiet

Spec == Init /\ [][Next]_vars

-----------------------------------------------------------------------------
(* Safety *)

\* The database phase of a confirmation commits exactly once, and the scores it
\* writes are never counted twice, however many handlers run it together.
DatabasePhaseOnce ==
    \A c \in Confirmation : applied[c] = IF receipt[c] = "none" THEN 0 ELSE 1

\* An effect is checkpointed only after it reached the outside world, and a
\* receipt is completed exactly when the whole plan was.
CheckpointsAreDelivered ==
    \A c \in Confirmation :
        /\ 0..(cursor[c] - 1) \subseteq delivered[c]
        /\ receipt[c] = "completed" <=> cursor[c] = PlanLength(c)

\* A handler never runs ahead of the cursor: the collision that
\* advanceExternalEffectCursor reports as permanent cannot happen.
CursorNeverCollides ==
    \A d \in Handler : work[d].at \in Delivering => work[d].next <= cursor[work[d].of]

\* However many stale handlers of a confirmation run, its cursor moves one effect
\* at a time and never back, its plan keeps the revision it was saved with, and
\* a completed receipt stays completed and takes no error code any more.
ReceiptMovesForward ==
    [][\A c \in Confirmation :
          /\ cursor'[c] \in {cursor[c], cursor[c] + 1}
          /\ revision[c] # 0 => revision'[c] = revision[c]
          /\ receipt[c] = "completed" => receipt'[c] = "completed" /\ ~errorCode'[c]
      ]_vars

Confirmations(r) == {c \in confirmed : RevieweeOf[c] = r}

\* Whatever the order in which the plans of a reviewee were delivered, once they
\* are all completed the users row shows a projection of all the reviews.
ProjectionsConverge ==
    \A r \in Reviewee :
        /\ Confirmations(r) # {}
        /\ \A c \in Confirmations(r) : receipt[c] = "completed"
        => /\ covers[projection[r]] = Confirmations(r)
           /\ projection[r] \in reindexed

\* "This protects read/merge/write JSONB projections from overlapping deliveries
\* for different review sessions": no projection replaces a newer one.
ProjectionNeverRegresses ==
    [][\A r \in Reviewee : projection'[r] >= projection[r]]_vars

\* What is left of it: a projection is replaced by an older one only in the commit of
\* a database phase that merges trust_data, and that commit saves the plan of a
\* newer projection, which is still to be delivered (mergeTrustData).
RegressionIsOwed ==
    [][\A r \in Reviewee : projection'[r] < projection[r] =>
          \E c \in Rescores :
              /\ RevieweeOf[c] = r
              /\ receipt[c] = "none" /\ receipt'[c] = "database_applied"
              /\ revision'[c] > projection[r]
      ]_vars

-----------------------------------------------------------------------------
(* The inductive strengthening of the invariants above. *)

\* What a handler in its transaction, or delivering a plan, knows of its receipt.
HandlerInv ==
    \A d \in Handler :
        LET c == work[d].of IN
        /\ work[d].at # "idle" => c \in confirmed
        /\ work[d].at \in InDatabase => receipt[c] = "none" /\ work[d].next = 0
        /\ work[d].at \in Delivering =>
              /\ receipt[c] # "none"
              /\ work[d].next \in Ordinals(c)
              /\ work[d].next <= cursor[c]
        /\ work[d].at = "reindex" => work[d].next = TalentOrdinal(c)
        /\ work[d].at = "checkpoint" => work[d].next \in delivered[c]

\* One open transaction for a receipt, and one past the lock of a reviewee.
LockInv ==
    \A d, e \in Handler : d # e =>
        /\ work[d].at \in InDatabase /\ work[e].at \in InDatabase => work[d].of # work[e].of
        /\ work[d].at \in Locked /\ work[e].at \in Locked => Subject(d) # Subject(e)

PlanInv ==
    \A c \in Confirmation :
        /\ receipt[c] = "none" => cursor[c] = 0 /\ revision[c] = 0 /\ delivered[c] = {}
        /\ receipt[c] # "none" => c \in confirmed /\ revision[c] # 0
        /\ receipt[c] = "completed" => ~errorCode[c]
        /\ \A i \in delivered[c] : \A j \in 0..(i - 1) : j \in delivered[c]

Recorded(r) == {c \in Confirmation : RevieweeOf[c] = r /\ receipt[c] # "none"}

\* Revision v was computed from a review of c's reviewee, of c among others.
CoversFor(v, c) == c \in covers[v] /\ \A k \in covers[v] : RevieweeOf[k] = RevieweeOf[c]

\* A revision is computed from committed reviews.
CoverInv == \A v \in Revision : covers[v] \subseteq confirmed

\* A later revision of a reviewee was computed from all the reviews of an earlier
\* one ...
OrderInv ==
    \A c \in Confirmation :
        /\ revision[c] <= lastRevision
        /\ receipt[c] # "none" => CoversFor(revision[c], c)
        /\ \A k \in Recorded(RevieweeOf[c]) :
              revision[k] <= revision[c] /\ receipt[c] # "none"
                  => covers[revision[k]] \subseteq covers[revision[c]]

\* ... because they are drawn one after the other, under the lock.
DrawnInv ==
    \A d \in Handler : work[d].at = "committing" =>
        /\ work[d].drawn \in 1..lastRevision
        /\ CoversFor(work[d].drawn, work[d].of)
        /\ \A c \in Recorded(Subject(d)) :
              revision[c] < work[d].drawn /\ covers[revision[c]] \subseteq covers[work[d].drawn]

\* A value of the trust_data column is the projection of some saved plan.
Stored(v, r) == v = 0 \/ \E c \in Recorded(r) : revision[c] = v

Landed(c) ==
    \/ TalentOrdinal(c) \in delivered[c]
    \/ \E d \in Handler : At(d, "reindex") /\ work[d].of = c

StoredInv ==
    /\ \A r \in Reviewee : Stored(projection[r], r)
    /\ \A d \in Handler :
          work[d].at \in InDatabase => Stored(work[d].seen, Subject(d))

ReindexInv == \A c \in Confirmation : TalentOrdinal(c) \in delivered[c] => revision[c] \in reindexed

\* A projection that landed is still there, or was replaced by a newer one, or
\* was overwritten by a transaction whose own, newer one has yet to land.
LandedInv ==
    \A c \in Confirmation : Landed(c) =>
        \/ revision[c] <= projection[RevieweeOf[c]]
        \/ \E k \in Recorded(RevieweeOf[c]) :
              receipt[k] = "database_applied" /\ revision[c] < revision[k]

\* Conjunction of the parts; the invariants above follow from it.
ReceiptInv ==
    /\ DatabasePhaseOnce
    /\ CheckpointsAreDelivered
    /\ HandlerInv
    /\ LockInv
    /\ PlanInv
    /\ CoverInv
    /\ OrderInv
    /\ DrawnInv
    /\ StoredInv
    /\ ReindexInv
    /\ LandedInv

-----------------------------------------------------------------------------
(* Liveness *)

\* The outbox calls the handler until it returns, and every step of a handler
\* takes finite time; Faults are fewer than the attempts the outbox makes.
Fairness ==
    /\ \A c \in Confirmation : SF_vars(\E d \in Handler : InsertReceipt(d, c) \/ LoadReceipt(d, c))
    /\ \A d \in Handler : WF_vars(Step(d))

FairSpec == Spec /\ Fairness

\* Every confirmed review is eventually completed, through finitely many
\* failures of its handlers.
EventuallyCompleted ==
    \A c \in Confirmation : c \in confirmed ~> receipt[c] = "completed"

-----------------------------------------------------------------------------
(* The receipts implement EffectPlan *)

PhaseOf(c) ==
    CASE receipt[c] = "completed" -> "finished"
      [] receipt[c] = "database_applied" -> "recorded"
      [] receipt[c] = "none" -> IF c \in confirmed THEN "offered" ELSE "waiting"

Plan == INSTANCE EffectPlan WITH
    Item <- Confirmation,
    Length <- [c \in Confirmation |-> PlanLength(c)],
    phase <- [c \in Confirmation |-> PhaseOf(c)],
    reached <- delivered

\* Locks, cursors, crashes and repeated calls keep the promise of EffectPlan.
KeepsPlan == Plan!PlanSpec

=============================================================================
