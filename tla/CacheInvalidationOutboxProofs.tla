--------------------- MODULE CacheInvalidationOutboxProofs ---------------------
(***************************************************************************)
(* The invalidation outbox keeps its rows well formed and drives the cache *)
(* only through the steps CacheStore has; a row is delivered only when its *)
(* pattern was invalidated after its write, and stays delivered; with      *)
(* generations, no cached value is then older than the write.  All of it   *)
(* for any number of rows, workers, attempts, troubles and readers.        *)
(***************************************************************************)
EXTENDS CacheInvalidationOutbox, CacheStoreProofs

\* The outbox changes the cache by its invalidations and the source by its writes.
LEMMA StoreStep == [Next]_vars => [StoreNext]_storeVars
<1> SUFFICES ASSUME Next PROVE [StoreNext]_storeVars
  BY DEF vars, storeVars
<1>1. CASE (Lookups \/ Invalidate) /\ UNCHANGED outboxVars
  BY <1>1 DEF StoreNext
<1>2. CASE CommitWithIntent
  BY <1>2 DEF CommitWithIntent, StoreNext
<1>3. ASSUME NEW w \in Worker, WorkerStep(w) \/ SweepFails(w) \/ WorkerStops(w)
      PROVE  [StoreNext]_storeVars
  BY <1>3
  DEF WorkerStep, SweepFails, WorkerStops, Claim, Sweep, Acknowledge, Fail, LeaseLost,
      SettleFailure, StoreNext
<1>4. ASSUME NEW w \in Worker, NEW j \in batch[w], WorkerFails(w, j)
      PROVE  [StoreNext]_storeVars
  BY <1>4 DEF WorkerFails, AcknowledgeFails, Reject, HeartbeatFails, SettleFailure
<1>5. ASSUME NEW v \in Row, LeaseExpires(v) \/ Replay(v) \/ Purge(v)
      PROVE  [StoreNext]_storeVars
  BY <1>5 DEF LeaseExpires, Replay, Purge
<1> QED
  BY <1>1, <1>2, <1>3, <1>4, <1>5 DEF Next

\* The cache under the outbox is the cache of CacheStore, so what is proved of the
\* one is known of the other.
LEMMA OutboxKeepsStore == Spec => StoreSpec
<1>1. Init => StoreInit
  BY DEF Init
<1> QED
  BY <1>1, StoreStep, PTL DEF Spec, StoreSpec

\* Rows are numbered from one, as versions are.
LEMMA RowDomain ==
    \A v \in Row : v \in Nat /\ v # 0
  BY OutboxAssumption, CacheAssumption DEF Row

\* The write of a version is the only step that moves the source.
LEMMA SourceMoves ==
    ASSUME [Next]_vars
    PROVE  \/ CommitWithIntent
           \/ db' = db
<1>1. ASSUME Lookups PROVE db' = db
  <2>1. ASSUME NEW r \in Reader, Resolve(r) \/ Progress(r) \/ Failure(r) \/ Crash(ProcessOf[r])
        PROVE  db' = db
    BY <2>1
    DEF Progress, Failure, Crash, Resolve, Join, Lead, Fetch, FetchFails, Settle, Read, Poll,
        Confirm, Recheck, ReadStore, Acquire, Contend, NoticeRelease, WaitTimeout, Load,
        Populate, Release, ResolveFails, ReadFails, AcquireFails, LoadFails, PopulateFails,
        ReleaseFails, DeadlinePasses, source
  <2>2. ASSUME NEW k \in Key, Evict(k) \/ LockExpires(k) PROVE db' = db
    BY <2>2 DEF Evict, LockExpires, source
  <2>3. CASE ControlExpires \/ Flush
    BY <2>3 DEF ControlExpires, Flush, source
  <2> QED
    BY <1>1, <2>1, <2>2, <2>3 DEF Lookups
<1>2. ASSUME Invalidate PROVE db' = db
  BY <1>2 DEF Invalidate
<1>3. ASSUME UNCHANGED storeVars PROVE db' = db
  BY <1>3 DEF storeVars, source
<1>4. ASSUME NEW w \in Worker, WorkerStep(w) \/ SweepFails(w) \/ WorkerStops(w)
      PROVE  db' = db
  BY <1>2, <1>3, <1>4
  DEF WorkerStep, SweepFails, WorkerStops, Claim, Sweep, Acknowledge, Fail, LeaseLost,
      SettleFailure
<1>5. ASSUME NEW w \in Worker, NEW j \in batch[w], WorkerFails(w, j)
      PROVE  db' = db
  BY <1>3, <1>5 DEF WorkerFails, AcknowledgeFails, Reject, HeartbeatFails, SettleFailure
<1>6. ASSUME NEW v \in Row, LeaseExpires(v) \/ Replay(v) \/ Purge(v)
      PROVE  db' = db
  BY <1>3, <1>6 DEF LeaseExpires, Replay, Purge
<1> QED
  BY <1>1, <1>2, <1>3, <1>4, <1>5, <1>6 DEF Next, vars

\* A worker is done with a job, and has settled its row or left it alone.
LEMMA JobDone ==
    ASSUME NEW w \in Worker, NEW j \in batch[w],
           Acknowledge(w, j) \/ Fail(w, j) \/ LeaseLost(w, j) \/ WorkerFails(w, j)
    PROVE  /\ Leave(w, j)
           /\ UNCHANGED trouble \/ Trouble
           /\ \/ UNCHANGED rowVars
              \/ sweep[w] = "ok" /\ Update(j, "processed")
              \/ \E s \in {"pending", "dead_letter"} : Update(j, s)
  BY DEF Acknowledge, Fail, LeaseLost, WorkerFails, AcknowledgeFails, Reject, HeartbeatFails,
         SettleFailure

\* A settlement changes the status of a leased row to a status of its kind.
LEMMA UpdateTypes ==
    ASSUME OutboxTypeOK, NEW w \in Worker, NEW j \in batch[w],
           NEW s \in {"pending", "processed", "dead_letter"}, Update(j, s)
    PROVE  /\ status' \in [Row -> {"none", "pending", "leased"} \cup Final]
           /\ \A v \in Row : status'[v] = "none" <=> status[v] = "none"
  BY DEF OutboxTypeOK, Update, Held, Job, Final

\* A worker that drops a job keeps the types of its batch.
LEMMA LeaveTypes ==
    ASSUME OutboxTypeOK, NEW w \in Worker, NEW j \in batch[w], Leave(w, j)
    PROVE  batch' \in [Worker -> SUBSET Job] /\ sweep' \in [Worker -> {"none", "ok", "failed"}]
  BY DEF OutboxTypeOK, Leave

\* The rows stay in their types, and a row exists exactly when its write committed.
LEMMA OutboxTypeStep == TypeOK /\ OutboxTypeOK /\ [Next]_vars => OutboxTypeOK'
<1> SUFFICES ASSUME TypeOK, OutboxTypeOK, [Next]_vars PROVE OutboxTypeOK'
  OBVIOUS
<1> USE CacheAssumption, OutboxAssumption
<1>1. CASE CommitWithIntent
  <2>1. db \in Nat /\ db < MaxVersion /\ db' = db + 1
    BY <1>1 DEF CommitWithIntent, Commit, TypeOK, Version
  <2>2. db + 1 \in Row
    BY <2>1 DEF Row
  <2>3. status' = [status EXCEPT ![db + 1] = "pending"]
    BY <1>1 DEF CommitWithIntent
  <2>4. \A v \in Row : status'[v] = "none" <=> v > db'
    BY <2>1, <2>2, <2>3, RowDomain DEF OutboxTypeOK
  <2> QED
    BY <1>1, <2>2, <2>3, <2>4 DEF CommitWithIntent, OutboxTypeOK, workerVars
<1>2. ASSUME ~CommitWithIntent PROVE db' = db
  BY <1>2, SourceMoves
<1>3. ASSUME UNCHANGED outboxVars, db' = db PROVE OutboxTypeOK'
  BY <1>3 DEF outboxVars, rowVars, workerVars, OutboxTypeOK
<1>4. ASSUME NEW w \in Worker, NEW S \in SUBSET Claimable, Claim(w, S), db' = db
      PROVE  OutboxTypeOK'
  <2>1. /\ status' = [v \in Row |-> IF v \in S THEN "leased" ELSE status[v]]
        /\ \A v \in S : status[v] # "none" /\ v \in Row
    BY <1>4 DEF Claim, Claimable
  <2>2. /\ status' \in [Row -> {"none", "pending", "leased"} \cup Final]
        /\ \A v \in Row : status'[v] = "none" <=> v > db'
    BY <1>4, <2>1 DEF OutboxTypeOK
  <2>3. claims' \in [Row -> Nat] /\ attempt' \in [Row -> Nat] /\ expired' \in [Row -> BOOLEAN]
    <3>1. claims' \in [Row -> Nat]
      BY <1>4 DEF Claim, OutboxTypeOK
    <3>2. attempt' \in [Row -> Nat]
      BY <1>4 DEF Claim, OutboxTypeOK
    <3>3. expired' \in [Row -> BOOLEAN]
      BY <1>4 DEF Claim, OutboxTypeOK
    <3> QED
      BY <3>1, <3>2, <3>3
  <2>4. {[row |-> v, claim |-> claims[v] + 1, attempt |-> attempt[v] + 1] : v \in S} \subseteq Job
    <3>1. \A v \in S : v \in Row /\ claims[v] + 1 \in Nat /\ attempt[v] + 1 \in Nat
      BY <2>1 DEF OutboxTypeOK
    <3>2. \A v \in S : [row |-> v, claim |-> claims[v] + 1, attempt |-> attempt[v] + 1] \in Job
      BY <3>1 DEF Job
    <3> QED
      BY <3>2
  <2>5. batch' \in [Worker -> SUBSET Job] /\ sweep' \in [Worker -> {"none", "ok", "failed"}]
    BY <1>4, <2>4 DEF Claim, OutboxTypeOK
  <2> QED
    BY <1>4, <2>2, <2>3, <2>5 DEF Claim, OutboxTypeOK
<1>5. ASSUME NEW w \in Worker, Sweep(w) \/ SweepFails(w) \/ WorkerStops(w), db' = db
      PROVE  OutboxTypeOK'
  BY <1>5 DEF Sweep, SweepFails, WorkerStops, Trouble, rowVars, OutboxTypeOK
<1>6. ASSUME NEW w \in Worker, NEW j \in batch[w], db' = db,
             Acknowledge(w, j) \/ Fail(w, j) \/ LeaseLost(w, j) \/ WorkerFails(w, j)
      PROVE  OutboxTypeOK'
  <2>1. batch' \in [Worker -> SUBSET Job] /\ sweep' \in [Worker -> {"none", "ok", "failed"}]
    BY <1>6, JobDone, LeaveTypes
  <2>2. trouble' \in 0..MaxTrouble
    BY <1>6, JobDone DEF Trouble, OutboxTypeOK
  <2>3. CASE UNCHANGED rowVars
    BY <1>6, <2>1, <2>2, <2>3 DEF rowVars, OutboxTypeOK
  <2>4. ASSUME NEW s \in {"pending", "processed", "dead_letter"}, Update(j, s)
        PROVE  OutboxTypeOK'
    <3>1. UNCHANGED <<claims, attempt, expired>>
      BY <2>4 DEF Update
    <3> QED
      BY <1>6, <2>1, <2>2, <2>4, <3>1, UpdateTypes DEF OutboxTypeOK
  <2> QED
    BY <1>6, <2>3, <2>4, JobDone
<1>7. ASSUME NEW v \in Row, LeaseExpires(v) \/ Replay(v) \/ Purge(v), db' = db
      PROVE  OutboxTypeOK'
  <2>1. CASE LeaseExpires(v)
    BY <1>7, <2>1 DEF LeaseExpires, Trouble, workerVars, OutboxTypeOK
  <2>2. CASE Replay(v)
    BY <1>7, <2>2 DEF Replay, Trouble, workerVars, OutboxTypeOK, Final
  <2>3. CASE Purge(v)
    BY <1>7, <2>3 DEF Purge, workerVars, OutboxTypeOK, Final
  <2> QED
    BY <1>7, <2>1, <2>2, <2>3
<1> QED
  BY <1>1, <1>2, <1>3, <1>4, <1>5, <1>6, <1>7 DEF Next, WorkerStep, vars, storeVars, source

\* The variables of the outbox stay in their types, and a write has a row as
\* soon as it is committed, no earlier and no later.
THEOREM OutboxTypeCorrect == Spec => []OutboxTypeOK
<1>1. TypeOK /\ Init => OutboxTypeOK
  BY RowDomain, OutboxAssumption DEF Init, StoreInit, OutboxTypeOK
<1>2. Spec => []TypeOK
  BY OutboxKeepsStore, StoreTypeCorrect
<1> QED
  BY <1>1, <1>2, OutboxTypeStep, PTL DEF Spec

-------------------------------------------------------------------------------
(* Delivery *)

\* A worker holds jobs of committed writes only, and a finished invalidation of
\* its batch covers all of them.
JobsInv ==
    \A w \in Worker : \A j \in batch[w] :
        j.row <= db /\ (sweep[w] = "ok" => j.row <= invalidated)

\* The inductive strengthening of AckedIsInvalidated.
SweptInv == invalidated <= db /\ JobsInv /\ AckedIsInvalidated

\* Invalidations only ever cover more.
LEMMA CoverGrows ==
    ASSUME TypeOK, SweptInv, [Next]_vars
    PROVE  /\ db \in Nat /\ invalidated \in Nat /\ db' \in Nat /\ invalidated' \in Nat
           /\ db <= db' /\ invalidated <= invalidated' /\ invalidated' <= db'
<1>1. db \in Nat /\ invalidated \in Nat /\ invalidated <= db
  BY CacheAssumption DEF TypeOK, Version, SweptInv
<1>2. db' \in {db, db + 1}
  BY SourceMoves DEF CommitWithIntent, Commit
<1>3. invalidated' \in {invalidated, db}
  <2>1. [StoreNext]_storeVars
    BY StoreStep
  <2>2. ASSUME NEW r \in Reader, Resolve(r) \/ Progress(r) \/ Failure(r) \/ Crash(ProcessOf[r])
        PROVE  invalidated' = invalidated
    BY <2>2
    DEF Progress, Failure, Crash, Resolve, Join, Lead, Fetch, FetchFails, Settle, Read, Poll,
        Confirm, Recheck, ReadStore, Acquire, Contend, NoticeRelease, WaitTimeout, Load,
        Populate, Release, ResolveFails, ReadFails, AcquireFails, LoadFails, PopulateFails,
        ReleaseFails, DeadlinePasses, source
  <2>3. ASSUME NEW k \in Key, Evict(k) \/ LockExpires(k) PROVE invalidated' = invalidated
    BY <2>3 DEF Evict, LockExpires, source
  <2>4. CASE ControlExpires \/ Flush \/ Commit \/ UNCHANGED storeVars
    BY <2>4 DEF ControlExpires, Flush, Commit, storeVars, source
  <2>5. CASE Invalidate
    BY <2>5 DEF Invalidate
  <2> QED
    BY <2>1, <2>2, <2>3, <2>4, <2>5 DEF StoreNext, Lookups
<1> QED
  BY <1>1, <1>2, <1>3

\* Every step keeps delivered rows, and the jobs of a swept batch, invalidated.
LEMMA SweptStep ==
    TypeOK /\ OutboxTypeOK /\ SweptInv /\ [Next]_vars => SweptInv'
<1> SUFFICES ASSUME TypeOK, OutboxTypeOK, SweptInv, [Next]_vars
             PROVE  JobsInv' /\ AckedIsInvalidated'
  BY CoverGrows DEF SweptInv
<1> USE CoverGrows, RowDomain DEF AckedIsInvalidated, Delivered
<1>1. \A w \in Worker : \A j \in batch[w] :
         /\ j.row \in Row /\ j.row \in Nat /\ j.row <= db
         /\ sweep[w] = "ok" => j.row <= invalidated
  BY DEF SweptInv, JobsInv, OutboxTypeOK, Job
<1>2. \A v \in Row : Delivered(v) => v <= invalidated
  BY DEF SweptInv
<1>3. ASSUME UNCHANGED workerVars PROVE JobsInv'
  BY <1>1, <1>3 DEF JobsInv, workerVars
<1>4. ASSUME \A v \in Row : Delivered(v)' => Delivered(v) PROVE AckedIsInvalidated'
  BY <1>2, <1>4
<1>5. CASE CommitWithIntent
  <2>1. \A v \in Row : Delivered(v)' => Delivered(v)
    BY <1>5 DEF CommitWithIntent, OutboxTypeOK
  <2> QED
    BY <1>3, <1>4, <1>5, <2>1 DEF CommitWithIntent
<1>6. CASE UNCHANGED <<status, workerVars>>
  BY <1>3, <1>4, <1>6
<1>7. ASSUME NEW w \in Worker, NEW S \in SUBSET Claimable, Claim(w, S)
      PROVE  JobsInv' /\ AckedIsInvalidated'
  <2>1. \A v \in Row : Delivered(v)' => Delivered(v)
    BY <1>7 DEF Claim
  <2>2. \A v \in S : v \in Nat /\ v <= db
    BY DEF Claimable, OutboxTypeOK
  <2>3. \A j \in batch'[w] : j.row \in S
    BY <1>7 DEF Claim, OutboxTypeOK
  <2>4. /\ sweep'[w] = "none"
        /\ \A u \in Worker : u # w => batch'[u] = batch[u] /\ sweep'[u] = sweep[u]
    BY <1>7 DEF Claim, OutboxTypeOK
  <2>5. \A j \in batch'[w] : j.row \in Nat /\ j.row <= db
    BY <2>2, <2>3
  <2>6. JobsInv'
    BY <1>1, <2>4, <2>5 DEF JobsInv
  <2> QED
    BY <1>4, <2>1, <2>6
<1>8. ASSUME NEW w \in Worker, Sweep(w) \/ SweepFails(w) \/ WorkerStops(w)
      PROVE  JobsInv' /\ AckedIsInvalidated'
  <2>1. /\ UNCHANGED status
        /\ \A u \in Worker : batch'[u] \subseteq batch[u]
        /\ \A u \in Worker : sweep'[u] = "ok" => sweep[u] = "ok" \/ invalidated' = db
    BY <1>8 DEF Sweep, SweepFails, WorkerStops, Invalidate, rowVars, OutboxTypeOK
  <2> QED
    BY <1>1, <1>4, <2>1 DEF JobsInv
<1>9. ASSUME NEW w \in Worker, NEW j \in batch[w],
             Acknowledge(w, j) \/ Fail(w, j) \/ LeaseLost(w, j) \/ WorkerFails(w, j)
      PROVE  JobsInv' /\ AckedIsInvalidated'
  <2>1. UNCHANGED sweep /\ \A u \in Worker : batch'[u] \subseteq batch[u]
    BY <1>9, JobDone DEF Leave, OutboxTypeOK
  <2>2. JobsInv'
    BY <1>1, <2>1 DEF JobsInv
  <2>3. CASE sweep[w] = "ok" /\ Update(j, "processed")
    <3>1. \A v \in Row : Delivered(v)' => Delivered(v) \/ v = j.row
      BY <2>3 DEF Update, OutboxTypeOK
    <3>2. j.row <= invalidated
      BY <1>1, <2>3
    <3> QED
      BY <1>2, <2>2, <3>1, <3>2
  <2>4. ASSUME UNCHANGED rowVars \/ \E s \in {"pending", "dead_letter"} : Update(j, s)
        PROVE  JobsInv' /\ AckedIsInvalidated'
    <3>1. \A v \in Row : Delivered(v)' => Delivered(v)
      BY <2>4 DEF Update, rowVars, OutboxTypeOK
    <3> QED
      BY <1>4, <2>2, <3>1
  <2> QED
    BY <1>9, <2>3, <2>4, JobDone
<1>10. ASSUME NEW v \in Row, LeaseExpires(v) \/ Replay(v) \/ Purge(v)
       PROVE  JobsInv' /\ AckedIsInvalidated'
  <2>1. \A u \in Row : Delivered(u)' => Delivered(u)
    BY <1>10 DEF LeaseExpires, Replay, Purge, OutboxTypeOK
  <2> QED
    BY <1>3, <1>4, <1>10, <2>1 DEF LeaseExpires, Replay, Purge
<1> QED
  BY <1>5, <1>6, <1>7, <1>8, <1>9, <1>10
  DEF Next, WorkerStep, vars, outboxVars, rowVars

\* The inductive invariant of the outbox.
LEMMA OutboxInvariant == Spec => [](TypeOK /\ OutboxTypeOK /\ SweptInv)
<1>1. Init => SweptInv
  BY DEF Init, StoreInit, SweptInv, JobsInv, AckedIsInvalidated, Delivered
<1>2. Spec => []TypeOK
  BY OutboxKeepsStore, StoreTypeCorrect
<1> QED
  BY <1>1, <1>2, OutboxTypeCorrect, SweptStep, PTL DEF Spec

\* A row is acknowledged only after an invalidation that came after its write,
\* by whichever worker and attempt, with generations or without.
THEOREM AcknowledgedAfterInvalidation == Spec => []AckedIsInvalidated
<1>1. SweptInv => AckedIsInvalidated
  BY DEF SweptInv
<1> QED
  BY <1>1, OutboxInvariant, PTL

\* With generations, once a row is processed no cached value older than its
\* write can be looked up, whoever populates the cache, and however late.
THEOREM ProcessedIsFresh ==
    ASSUME ~Exact
    PROVE  Spec => []ProcessedMeansFresh
<1>1. TypeOK /\ GenerationInv /\ SweptInv => ProcessedMeansFresh
  <2> SUFFICES ASSUME TypeOK, TokenInv, AckedIsInvalidated, NEW v \in Row, Delivered(v),
                      token # 0, store[token] # Nothing
               PROVE  store[token] >= v
    BY DEF GenerationInv, SweptInv, ProcessedMeansFresh
  <2>1. token \in Key
    BY CacheAssumption DEF TypeOK, Key
  <2>2. store[token] \in Nat /\ born[token] \in Nat /\ invalidated \in Nat
    BY <2>1, CacheAssumption DEF TypeOK, Version
  <2>3. v <= invalidated /\ invalidated <= born[token] /\ born[token] <= store[token]
    BY <2>1 DEF AckedIsInvalidated, TokenInv
  <2> QED
    BY <2>2, <2>3, RowDomain
<1>2. Spec => [](TypeOK /\ GenerationInv)
  BY OutboxKeepsStore, StoreInvariant, PTL
<1> QED
  BY <1>1, <1>2, OutboxInvariant, PTL

\* No late worker takes a delivered row back: every settlement asks for the
\* lease of its own claim.
THEOREM ProcessedRowsStay == Spec => ProcessedIsFinal
<1>1. TypeOK /\ OutboxTypeOK /\ [Next]_vars
         => [\A v \in Row : Delivered(v) => Delivered(v)']_vars
  <2> SUFFICES ASSUME TypeOK, OutboxTypeOK, Next, NEW v \in Row, Delivered(v)
               PROVE  Delivered(v)'
    OBVIOUS
  <2> USE DEF Delivered
  <2>1. CASE UNCHANGED status
    BY <2>1
  <2>2. CASE CommitWithIntent
    <3>1. db \in Nat /\ status' = [status EXCEPT ![db + 1] = "pending"]
      BY <2>2, CacheAssumption DEF CommitWithIntent, TypeOK, Version
    <3>2. v # db + 1
      BY <3>1, RowDomain DEF OutboxTypeOK
    <3> QED
      BY <3>1, <3>2 DEF OutboxTypeOK
  <2>3. ASSUME NEW w \in Worker, NEW S \in SUBSET Claimable, Claim(w, S) PROVE Delivered(v)'
    BY <2>3 DEF Claim, Claimable
  <2>4. ASSUME NEW w \in Worker, Sweep(w) \/ SweepFails(w) \/ WorkerStops(w)
        PROVE  Delivered(v)'
    BY <2>1, <2>4 DEF Sweep, SweepFails, WorkerStops, rowVars
  <2>5. ASSUME NEW w \in Worker, NEW j \in batch[w],
               Acknowledge(w, j) \/ Fail(w, j) \/ LeaseLost(w, j) \/ WorkerFails(w, j)
        PROVE  Delivered(v)'
    <3>1. \/ UNCHANGED status
          \/ \E s : status' = [status EXCEPT ![j.row] = s] /\ status[j.row] = "leased"
      BY <2>5, JobDone DEF Update, Held, rowVars
    <3> QED
      BY <3>1 DEF OutboxTypeOK
  <2>6. ASSUME NEW u \in Row, LeaseExpires(u) \/ Replay(u) \/ Purge(u) PROVE Delivered(v)'
    BY <2>6 DEF LeaseExpires, Replay, Purge, OutboxTypeOK
  <2> QED
    BY <2>1, <2>2, <2>3, <2>4, <2>5, <2>6 DEF Next, WorkerStep, outboxVars, rowVars
<1> QED
  BY <1>1, OutboxInvariant, PTL DEF Spec, ProcessedIsFinal

-------------------------------------------------------------------------------
(* Leases and attempts *)

\* Only a claim makes jobs, counts claims, leases a row, or counts attempts of a
\* leased one.
LEMMA OnlyClaims ==
    ASSUME OutboxTypeOK, [Next]_vars,
           \A w \in Worker : \A S \in SUBSET Claimable : ~Claim(w, S)
    PROVE  /\ \A w \in Worker : batch'[w] \subseteq batch[w]
           /\ UNCHANGED claims
           /\ \A v \in Row : status'[v] = "leased"
                                => status[v] = "leased" /\ attempt'[v] = attempt[v]
<1> DEFINE P == /\ \A w \in Worker : batch'[w] \subseteq batch[w]
                /\ UNCHANGED claims
                /\ \A v \in Row : status'[v] = "leased"
                                     => status[v] = "leased" /\ attempt'[v] = attempt[v]
<1>1. CASE UNCHANGED <<rowVars, batch>>
  BY <1>1 DEF rowVars
<1>2. CASE CommitWithIntent
  BY <1>2 DEF CommitWithIntent, workerVars, OutboxTypeOK
<1>3. ASSUME NEW w \in Worker, Sweep(w) \/ SweepFails(w) \/ WorkerStops(w)
      PROVE  P
  BY <1>3 DEF Sweep, SweepFails, WorkerStops, rowVars, OutboxTypeOK
<1>4. ASSUME NEW w \in Worker, NEW j \in batch[w],
             Acknowledge(w, j) \/ Fail(w, j) \/ LeaseLost(w, j) \/ WorkerFails(w, j)
      PROVE  P
  <2>1. \A u \in Worker : batch'[u] \subseteq batch[u]
    BY <1>4, JobDone DEF Leave, OutboxTypeOK
  <2>2. UNCHANGED rowVars \/ \E s \in {"pending", "processed", "dead_letter"} : Update(j, s)
    BY <1>4, JobDone
  <2> QED
    BY <2>1, <2>2 DEF Update, rowVars, OutboxTypeOK
<1>5. ASSUME NEW v \in Row, LeaseExpires(v) \/ Replay(v) \/ Purge(v)
      PROVE  P
  BY <1>5 DEF LeaseExpires, Replay, Purge, workerVars, OutboxTypeOK
<1> QED
  BY <1>1, <1>2, <1>3, <1>4, <1>5
  DEF Next, WorkerStep, vars, outboxVars, workerVars

\* A claim numbers its jobs with the next claim of their rows.
LEMMA ClaimedJobs ==
    ASSUME OutboxTypeOK, NEW w \in Worker, NEW S \in SUBSET Claimable, Claim(w, S)
    PROVE  /\ batch[w] = {}
           /\ \A u \in Worker : u # w => batch'[u] = batch[u]
           /\ \A j \in batch'[w] :
                 /\ j.row \in S
                 /\ j = [row |-> j.row, claim |-> claims[j.row] + 1, attempt |-> attempt[j.row] + 1]
           /\ \A v \in S : \E j \in batch'[w] : j.row = v /\ j.claim = claims[v] + 1
           /\ \A v \in Row :
                 IF v \in S
                     THEN /\ status'[v] = "leased"
                          /\ claims'[v] = claims[v] + 1
                          /\ attempt'[v] = attempt[v] + 1
                     ELSE /\ status'[v] = status[v]
                          /\ claims'[v] = claims[v]
                          /\ attempt'[v] = attempt[v]
                          /\ expired'[v] = expired[v]
<1> DEFINE J == {[row |-> v, claim |-> claims[v] + 1, attempt |-> attempt[v] + 1] : v \in S}
<1>1. batch[w] = {} /\ batch' = [batch EXCEPT ![w] = J]
  BY DEF Claim
<1>2. batch'[w] = J /\ \A u \in Worker : u # w => batch'[u] = batch[u]
  BY <1>1 DEF OutboxTypeOK
<1>3. \A j \in J : j.row \in S
        /\ j = [row |-> j.row, claim |-> claims[j.row] + 1, attempt |-> attempt[j.row] + 1]
  OBVIOUS
<1>4. \A v \in S : \E j \in J : j.row = v /\ j.claim = claims[v] + 1
  <2> SUFFICES ASSUME NEW v \in S PROVE \E j \in J : j.row = v /\ j.claim = claims[v] + 1
    OBVIOUS
  <2>1. [row |-> v, claim |-> claims[v] + 1, attempt |-> attempt[v] + 1] \in J
    OBVIOUS
  <2> QED
    BY <2>1
<1>5. \A v \in Row :
         IF v \in S
             THEN status'[v] = "leased" /\ claims'[v] = claims[v] + 1 /\ attempt'[v] = attempt[v] + 1
             ELSE /\ status'[v] = status[v] /\ claims'[v] = claims[v]
                  /\ attempt'[v] = attempt[v] /\ expired'[v] = expired[v]
  BY DEF Claim
<1> QED
  BY <1>1, <1>2, <1>3, <1>4, <1>5

\* A claim is never used twice, so no two jobs stem from the same one.
LEMMA ClaimStep == OutboxTypeOK /\ ClaimInv /\ [Next]_vars => ClaimInv'
<1> SUFFICES ASSUME OutboxTypeOK, ClaimInv, [Next]_vars PROVE ClaimInv'
  OBVIOUS
<1>1. \A w \in Worker : \A j \in batch[w] :
         j.row \in Row /\ j.claim \in Nat /\ claims[j.row] \in Nat /\ j.claim <= claims[j.row]
  BY DEF OutboxTypeOK, Job, ClaimInv
<1>2. CASE \A w \in Worker : \A S \in SUBSET Claimable : ~Claim(w, S)
  <2>1. \A w \in Worker : \A j \in batch'[w] : j \in batch[w] /\ j.row \in Row
    BY <1>1, <1>2, OnlyClaims
  <2>2. UNCHANGED claims
    BY <1>2, OnlyClaims
  <2>3. \A v \in Row : status'[v] = "leased" => status[v] = "leased" /\ attempt'[v] = attempt[v]
    BY <1>2, OnlyClaims
  <2> QED
    BY <2>1, <2>2, <2>3 DEF ClaimInv
<1>3. ASSUME NEW w \in Worker, NEW S \in SUBSET Claimable, Claim(w, S)
      PROVE  ClaimInv'
  <2>1. \A j \in batch'[w] :
           /\ j.row \in S
           /\ j = [row |-> j.row, claim |-> claims[j.row] + 1, attempt |-> attempt[j.row] + 1]
    BY <1>3, ClaimedJobs
  <2>2. \A u \in Worker : u # w => batch'[u] = batch[u]
    BY <1>3, ClaimedJobs
  <2>3. \A v \in Row :
           IF v \in S THEN claims'[v] = claims[v] + 1 /\ attempt'[v] = attempt[v] + 1
           ELSE status'[v] = status[v] /\ claims'[v] = claims[v] /\ attempt'[v] = attempt[v]
    BY <1>3, ClaimedJobs
  <2>4. S \subseteq Row
    BY DEF Claimable
  <2>5. \A j \in batch'[w] : /\ j.row \in Row /\ claims[j.row] \in Nat
                             /\ j.claim = claims[j.row] + 1 /\ j.attempt = attempt[j.row] + 1
                             /\ claims'[j.row] = claims[j.row] + 1
                             /\ attempt'[j.row] = attempt[j.row] + 1
    BY <2>1, <2>3, <2>4 DEF OutboxTypeOK
  <2>6. ASSUME NEW u \in Worker, NEW j \in batch'[u]
        PROVE  /\ j.claim <= claims'[j.row]
               /\ status'[j.row] = "leased" /\ j.claim = claims'[j.row]
                     => j.attempt = attempt'[j.row]
    <3>1. CASE u = w
      BY <2>5, <3>1
    <3>2. CASE u # w
      <4>1. j \in batch[u] /\ j.row \in Row /\ j.claim \in Nat /\ claims[j.row] \in Nat
            /\ j.claim <= claims[j.row]
        BY <1>1, <2>2, <3>2
      <4>2. status[j.row] = "leased" /\ j.claim = claims[j.row] => j.attempt = attempt[j.row]
        BY <4>1 DEF ClaimInv
      <4> QED
        BY <2>3, <4>1, <4>2
    <3> QED
      BY <3>1, <3>2
  <2>7. ASSUME NEW t \in Worker, NEW u \in Worker, NEW i \in batch'[t], NEW j \in batch'[u],
               i.row = j.row, i.claim = j.claim
        PROVE  t = u /\ i = j
    <3>1. CASE t = w /\ u = w
      BY <2>1, <2>7, <3>1
    <3>2. CASE t # w /\ u # w
      BY <2>2, <2>7, <3>2 DEF ClaimInv
    <3>3. ASSUME NEW y \in Worker, y # w, NEW a \in batch'[w], NEW b \in batch'[y],
                 a.row = b.row, a.claim = b.claim
          PROVE  FALSE
      BY <1>1, <2>2, <2>5, <3>3
    <3> QED
      BY <2>7, <3>1, <3>2, <3>3
  <2> QED
    BY <2>6, <2>7 DEF ClaimInv
<1> QED
  BY <1>2, <1>3

\* A job that is dropped leaves the last claim of its row watched, unless it is
\* the job of that claim.
LEMMA StillWatched ==
    ASSUME OutboxTypeOK, NEW w \in Worker, NEW j \in batch[w], Leave(w, j), UNCHANGED claims,
           NEW v \in Row, Watched(v), ~(j.row = v /\ j.claim = claims[v])
    PROVE  Watched(v)'
<1>1. PICK u \in Worker : \E i \in batch[u] : i.row = v /\ i.claim = claims[v]
  BY DEF Watched
<1>2. PICK i \in batch[u] : i.row = v /\ i.claim = claims[v]
  BY <1>1
<1>3. i \in batch'[u]
  BY <1>2 DEF Leave, OutboxTypeOK
<1> QED
  BY <1>2, <1>3 DEF Watched

\* Whoever drops a job without a trouble has settled its row, or lost it before.
LEMMA DroppedJob ==
    ASSUME OutboxTypeOK, NEW w \in Worker, NEW j \in batch[w],
           Acknowledge(w, j) \/ Fail(w, j) \/ LeaseLost(w, j) \/ WorkerFails(w, j)
    PROVE  /\ Leave(w, j)
           /\ UNCHANGED <<claims, attempt, expired>>
           /\ \/ Trouble
              \/ UNCHANGED trouble /\ (Held(j) => status'[j.row] # "leased")
           /\ \/ UNCHANGED status
              \/ \E s \in {"processed", "pending", "dead_letter"} :
                    /\ Held(j)
                    /\ status' = [status EXCEPT ![j.row] = s]
                    /\ s = "pending" => ~(j.attempt >= MaxAttempts)
<1>1. CASE LeaseLost(w, j) \/ HeartbeatFails(w, j)
  BY <1>1 DEF LeaseLost, HeartbeatFails, rowVars
<1>2. ASSUME NEW s \in {"processed", "pending", "dead_letter"}, Update(j, s)
      PROVE  /\ UNCHANGED <<claims, attempt, expired>>
             /\ Held(j) => status' = [status EXCEPT ![j.row] = s] /\ status'[j.row] # "leased"
             /\ ~Held(j) => UNCHANGED status
  BY <1>2 DEF Update, OutboxTypeOK, Job
<1>3. CASE Acknowledge(w, j)
  <2>1. Leave(w, j) /\ UNCHANGED trouble /\ Update(j, "processed")
    BY <1>3 DEF Acknowledge
  <2> QED
    BY <1>2, <2>1
<1>4. CASE Reject(w, j)
  <2>1. Leave(w, j) /\ Trouble /\ Update(j, "dead_letter")
    BY <1>4 DEF Reject
  <2> QED
    BY <1>2, <2>1
<1>5. CASE Fail(w, j) \/ AcknowledgeFails(w, j)
  <2>1. Leave(w, j) /\ (UNCHANGED trouble \/ Trouble)
    BY <1>5 DEF Fail, AcknowledgeFails, SettleFailure
  <2>2. \/ Update(j, "dead_letter")
        \/ Update(j, "pending") /\ ~(j.attempt >= MaxAttempts)
    BY <1>5 DEF Fail, AcknowledgeFails, SettleFailure
  <2> QED
    BY <1>2, <2>1, <2>2
<1> QED
  BY <1>1, <1>3, <1>4, <1>5 DEF WorkerFails

\* Attempts are only spent on claims, and a claim of a row that was leased was
\* preceded by a trouble.
LEMMA SpentStep ==
    TypeOK /\ OutboxTypeOK /\ OutboxTypeOK' /\ ClaimInv /\ SpentInv /\ [Next]_vars => SpentInv'
<1> SUFFICES ASSUME TypeOK, OutboxTypeOK, OutboxTypeOK', ClaimInv, SpentInv, [Next]_vars,
                    NEW v \in Row
             PROVE  /\ status'[v] \in {"none", "pending"} => attempt'[v] < MaxAttempts
                    /\ attempt'[v] <= MaxAttempts + trouble'
                    /\ status'[v] = "leased" /\ (expired'[v] \/ ~Watched(v)')
                          => attempt'[v] < MaxAttempts + trouble'
  BY DEF SpentInv
<1> DEFINE Q == /\ status'[v] \in {"none", "pending"} => attempt'[v] < MaxAttempts
                /\ attempt'[v] <= MaxAttempts + trouble'
                /\ status'[v] = "leased" /\ (expired'[v] \/ ~Watched(v)')
                      => attempt'[v] < MaxAttempts + trouble'
<1> SUFFICES Q
  OBVIOUS
<1> HIDE DEF Q
<1> USE OutboxAssumption
<1>1. /\ attempt[v] \in Nat /\ trouble \in Nat /\ trouble' \in Nat
      /\ status[v] \in {"none", "pending"} => attempt[v] < MaxAttempts
      /\ attempt[v] <= MaxAttempts + trouble
      /\ status[v] = "leased" /\ (expired[v] \/ ~Watched(v)) => attempt[v] < MaxAttempts + trouble
  BY DEF SpentInv, OutboxTypeOK
<1>2. ASSUME UNCHANGED <<status, attempt, expired>>, trouble' = trouble \/ Trouble,
             Watched(v) => Watched(v)' \/ Trouble \/ status[v] # "leased" \/ expired[v]
      PROVE  Q
  BY <1>1, <1>2 DEF Trouble, Q
<1>3. ASSUME UNCHANGED <<rowVars, batch>>, trouble' = trouble \/ Trouble PROVE Q
  BY <1>2, <1>3 DEF rowVars, Watched
<1>4. CASE CommitWithIntent
  <2>1. /\ UNCHANGED <<claims, attempt, expired, batch, trouble>>
        /\ status' = [status EXCEPT ![db + 1] = "pending"]
    BY <1>4 DEF CommitWithIntent, workerVars
  <2>2. CASE v = db + 1
    <3>1. status[v] = "none"
      <4>1. db' = db + 1
        BY <1>4 DEF CommitWithIntent, Commit
      <4>2. db \in Nat
        BY CacheAssumption DEF TypeOK, Version
      <4> QED
        BY <2>2, <4>2, RowDomain DEF OutboxTypeOK
    <3> QED
      BY <1>1, <2>1, <2>2, <3>1 DEF Q, OutboxTypeOK
  <2>3. CASE v # db + 1
    <3>1. status'[v] = status[v] /\ Watched(v)' = Watched(v)
      BY <2>1, <2>3 DEF OutboxTypeOK, Watched
    <3> QED
      BY <1>1, <2>1, <3>1 DEF Q
  <2> QED
    BY <2>2, <2>3
<1>5. ASSUME NEW w \in Worker, NEW S \in SUBSET Claimable, Claim(w, S) PROVE Q
  <2>1. trouble' = trouble
    BY <1>5 DEF Claim
  <2>2. CASE v \in S
    <3>1. status'[v] = "leased" /\ claims'[v] = claims[v] + 1 /\ attempt'[v] = attempt[v] + 1
      BY <1>5, <2>2, ClaimedJobs
    <3>2. Watched(v)'
      BY <1>5, <2>2, <3>1, ClaimedJobs DEF Watched
    <3>3. ~expired'[v]
      BY <1>5, <2>2 DEF Claim
    <3>4. attempt[v] < MaxAttempts + trouble
      BY <1>1, <2>2 DEF Claimable
    <3> QED
      BY <1>1, <2>1, <3>1, <3>2, <3>3, <3>4 DEF Q
  <2>3. CASE v \notin S
    <3>1. /\ status'[v] = status[v] /\ claims'[v] = claims[v]
          /\ attempt'[v] = attempt[v] /\ expired'[v] = expired[v]
      BY <1>5, <2>3, ClaimedJobs
    <3>2. Watched(v) => Watched(v)'
      <4> SUFFICES ASSUME Watched(v) PROVE Watched(v)'
        OBVIOUS
      <4>1. PICK u \in Worker : \E i \in batch[u] : i.row = v /\ i.claim = claims[v]
        BY DEF Watched
      <4>2. PICK i \in batch[u] : i.row = v /\ i.claim = claims[v]
        BY <4>1
      <4>3. i \in batch'[u]
        BY <1>5, <4>2, ClaimedJobs
      <4> QED
        BY <3>1, <4>2, <4>3 DEF Watched
    <3> QED
      BY <1>1, <2>1, <3>1, <3>2 DEF Q
  <2> QED
    BY <2>2, <2>3
<1>6. ASSUME NEW w \in Worker, Sweep(w) \/ SweepFails(w) \/ WorkerStops(w) PROVE Q
  <2>1. CASE Sweep(w) \/ SweepFails(w)
    BY <1>3, <1>6, <2>1 DEF Sweep, SweepFails
  <2>2. CASE WorkerStops(w)
    BY <1>2, <2>2 DEF WorkerStops, rowVars
  <2> QED
    BY <1>6, <2>1, <2>2
<1>7. ASSUME NEW w \in Worker, NEW j \in batch[w],
             Acknowledge(w, j) \/ Fail(w, j) \/ LeaseLost(w, j) \/ WorkerFails(w, j)
      PROVE  Q
  <2>1. Leave(w, j) /\ UNCHANGED <<claims, attempt, expired>> /\ (UNCHANGED trouble \/ Trouble)
    BY <1>7, DroppedJob
  <2>2. CASE UNCHANGED status
    <3>1. Trouble \/ ~Held(j)
      BY <1>7, <2>2, DroppedJob DEF Held
    <3>2. Watched(v) => Watched(v)' \/ Trouble \/ status[v] # "leased" \/ expired[v]
      BY <2>1, <3>1, StillWatched DEF Held
    <3> QED
      BY <1>2, <2>1, <2>2, <3>2
  <2>3. ASSUME NEW s \in {"processed", "pending", "dead_letter"}, Held(j),
               status' = [status EXCEPT ![j.row] = s], s = "pending" => ~(j.attempt >= MaxAttempts)
        PROVE  Q
    <3>1. CASE v = j.row
      <4>1. status'[v] = s
        BY <2>3, <3>1 DEF OutboxTypeOK
      <4>2. j.attempt = attempt[v]
        BY <2>3, <3>1 DEF Held, ClaimInv
      <4> QED
        BY <1>1, <2>1, <2>3, <4>1, <4>2 DEF Q, Trouble
    <3>2. CASE v # j.row
      <4>1. status'[v] = status[v]
        BY <2>3, <3>2 DEF OutboxTypeOK
      <4>2. Watched(v) => Watched(v)'
        BY <2>1, <3>2, StillWatched
      <4> QED
        BY <1>1, <2>1, <4>1, <4>2 DEF Q, Trouble
    <3> QED
      BY <3>1, <3>2
  <2> QED
    BY <1>7, <2>2, <2>3, DroppedJob
<1>8. ASSUME NEW u \in Row, LeaseExpires(u) PROVE Q
  <2>1. UNCHANGED <<status, claims, attempt, batch>> /\ expired' = [expired EXCEPT ![u] = TRUE]
    BY <1>8 DEF LeaseExpires, workerVars
  <2>2. Watched(v)' <=> Watched(v)
    BY <2>1 DEF Watched
  <2>3. CASE u = v
    BY <1>1, <1>8, <2>1, <2>2, <2>3 DEF LeaseExpires, Trouble, Q
  <2>4. CASE u # v
    <3>1. expired'[v] <=> expired[v]
      BY <2>1, <2>4 DEF OutboxTypeOK
    <3>2. trouble <= trouble'
      BY <1>1, <1>8 DEF LeaseExpires, Trouble
    <3> QED
      BY <1>1, <2>1, <2>2, <3>1, <3>2 DEF Q
  <2> QED
    BY <2>3, <2>4
<1>9. ASSUME NEW u \in Row, Replay(u) PROVE Q
  <2>1. /\ UNCHANGED <<claims, expired, batch>> /\ Trouble
        /\ status' = [status EXCEPT ![u] = "pending"] /\ attempt' = [attempt EXCEPT ![u] = 0]
    BY <1>9 DEF Replay, workerVars
  <2>2. Watched(v)' = Watched(v)
    BY <2>1 DEF Watched
  <2>3. CASE u = v
    BY <1>1, <2>1, <2>3 DEF Trouble, Q, OutboxTypeOK
  <2>4. CASE u # v
    BY <1>1, <2>1, <2>2, <2>4 DEF Trouble, Q, OutboxTypeOK
  <2> QED
    BY <2>3, <2>4
<1>10. ASSUME NEW u \in Row, Purge(u) PROVE Q
  <2>1. /\ UNCHANGED <<claims, attempt, expired, batch, trouble>>
        /\ status' = [status EXCEPT ![u] = "purged"]
    BY <1>10 DEF Purge, workerVars
  <2>2. Watched(v)' = Watched(v)
    BY <2>1 DEF Watched
  <2> QED
    BY <1>1, <2>1, <2>2 DEF Q, OutboxTypeOK
<1>11. CASE UNCHANGED outboxVars
  BY <1>3, <1>11 DEF outboxVars, workerVars
<1> QED
  BY <1>4, <1>5, <1>6, <1>7, <1>8, <1>9, <1>10, <1>11 DEF Next, WorkerStep, vars

\* The leases and the attempts of the rows, along every run.
LEMMA LeaseInvariant == Spec => [](OutboxTypeOK /\ ClaimInv /\ SpentInv)
<1>1. Init => ClaimInv /\ SpentInv
  BY OutboxAssumption DEF Init, ClaimInv, SpentInv
<1>2. Spec => []TypeOK
  BY OutboxKeepsStore, StoreTypeCorrect
<1> QED
  BY <1>1, <1>2, ClaimStep, SpentStep, OutboxTypeCorrect, PTL DEF Spec

\* A lease excludes: whatever expires, crashes or is claimed again, at most one
\* job of a row may settle it, and that is the job of the last claim.
THEOREM LeasesExclude == Spec => []OneHolder
<1>1. ClaimInv => OneHolder
  BY DEF ClaimInv, OneHolder, Held
<1> QED
  BY <1>1, LeaseInvariant, PTL

\* No row is invalidated for ever: its attempts stay within the limit, but for
\* one each time a lease was lost.
THEOREM BoundedInvalidations == Spec => []AttemptsAreBounded
<1>1. SpentInv => AttemptsAreBounded
  BY DEF SpentInv, AttemptsAreBounded
<1> QED
  BY <1>1, LeaseInvariant, PTL

-------------------------------------------------------------------------------
(* What the lookups have of it *)

\* With generations, the cache that the workers invalidate keeps the promise of
\* FreshReads.
THEOREM OutboxKeepsThePromise ==
    ASSUME ~Exact
    PROVE  Spec => ImplementsFreshReads
  BY OutboxKeepsStore, Implementation, PTL

\* A lookup that begins counts all that was invalidated.
LEMMA BeginCounts ==
    ASSUME TypeOK, [StoreNext]_storeVars, NEW r \in Reader, at[r] = "idle", at'[r] # "idle"
    PROVE  since'[r] = invalidated
<1> USE DEF TypeOK
<1>1. ASSUME NEW q \in Reader, Resolve(q) \/ ResolveFails(q) PROVE since'[r] = invalidated
  BY <1>1 DEF Resolve, ResolveFails, Begin, Go
<1>2. ASSUME NEW q \in Reader,
             \/ Join(q) \/ Lead(q) \/ Fetch(q) \/ Settle(q)
             \/ Read(q) \/ Poll(q) \/ Confirm(q) \/ Recheck(q)
      PROVE  FALSE
  BY <1>2
  DEF Join, Lead, Fetch, Settle, Read, Poll, Confirm, Recheck, ReadStore, Go
<1>3. ASSUME NEW q \in Reader,
             \/ Acquire(q) \/ Contend(q) \/ NoticeRelease(q) \/ WaitTimeout(q)
             \/ Load(q) \/ Populate(q) \/ Release(q)
      PROVE  FALSE
  BY <1>3 DEF Acquire, Contend, NoticeRelease, WaitTimeout, Load, Populate, Release, Go
<1>4. ASSUME NEW q \in Reader,
             \/ FetchFails(q) \/ ReadFails(q) \/ AcquireFails(q) \/ LoadFails(q)
             \/ PopulateFails(q) \/ ReleaseFails(q) \/ DeadlinePasses(q)
      PROVE  FALSE
  BY <1>4
  DEF FetchFails, ReadFails, AcquireFails, LoadFails, PopulateFails, ReleaseFails,
      DeadlinePasses, Go
<1>5. ASSUME NEW p, Crash(p) PROVE FALSE
  BY <1>5 DEF Crash
<1>6. ASSUME NEW k \in Key, Evict(k) \/ LockExpires(k) PROVE FALSE
  BY <1>6 DEF Evict, LockExpires
<1>7. ~ControlExpires /\ ~Flush /\ ~Commit /\ ~Invalidate /\ ~UNCHANGED storeVars
  BY DEF ControlExpires, Flush, Commit, Invalidate, storeVars
<1> QED
  BY <1>1, <1>2, <1>3, <1>4, <1>5, <1>6, <1>7 DEF StoreNext, Lookups, Progress, Failure

\* With generations, a lookup that begins after a row was processed counts the
\* write of the row, and answers with nothing older than what it counts, whatever
\* fails or expires in between; in a flight without a physical key what counts is
\* what the lookup of the leader counted.
THEOREM LookupsSeeProcessedRows ==
    ASSUME ~Exact
    PROVE  Spec => LookupsFollowRows /\ FreshAnswers
<1>1. TypeOK /\ AckedIsInvalidated /\ [Next]_vars
         => [\A r \in Reader, v \in Row :
                at[r] = "idle" /\ at'[r] # "idle" /\ Delivered(v) => v <= since'[r]]_vars
  BY StoreStep, BeginCounts DEF AckedIsInvalidated
<1>2. Spec => FreshAnswers
  BY OutboxKeepsStore, FreshGenerations, PTL
<1>3. Spec => LookupsFollowRows
  BY <1>1, OutboxInvariant, AcknowledgedAfterInvalidation, PTL DEF Spec, LookupsFollowRows
<1> QED
  BY <1>2, <1>3
===============================================================================
