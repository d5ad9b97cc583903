----------------------- MODULE CacheInvalidationOutbox -----------------------
(***************************************************************************)
(* The durable invalidations of the cache.  A trigger stages a row in the  *)
(* transaction that writes the source; workers claim rows under a lease,   *)
(* invalidate their patterns, once for all rows of a batch that share a    *)
(* pattern, and settle each row under the fence of its lease.  Request     *)
(* paths also invalidate after their commit, but nothing depends on it.    *)
(*                                                                         *)
(* Row v is the intent of the write that made version v; its patterns      *)
(* include the one of the key of CacheStore.  A row that waits for its     *)
(* available_at is one that is not claimed yet.                            *)
(***************************************************************************)
EXTENDS CacheStore, FiniteSets

CONSTANTS
    Worker,        \* cache invalidation workers
    BatchSize,     \* batchSize of a claim
    MaxAttempts,   \* maxAttempts
    MaxTrouble     \* bound on failed invalidations, lost leases, crashes, replays

ASSUME OutboxAssumption ==
    /\ BatchSize \in Nat \ {0}
    /\ MaxAttempts \in Nat \ {0}
    /\ MaxTrouble \in Nat

VARIABLES
    status,        \* status of a row, "none" before its transaction commits
    claims,        \* times the row was claimed; the last one has the lease
    attempt,       \* attempt_count
    expired,       \* locked_until of the row has passed
    batch,         \* jobs a worker has claimed and not settled
    sweep,         \* its invalidation of the batch's pattern
    trouble        \* troubles so far

rowVars == <<status, claims, attempt, expired>>
workerVars == <<batch, sweep>>
outboxVars == <<rowVars, workerVars, trouble>>
vars == <<storeVars, outboxVars>>

Row == 1..MaxVersion
Final == {"processed", "dead_letter", "purged"}
Job == [row : Row, claim : Nat, attempt : Nat]

\* What rows and workers hold; a row exists as soon as its write is committed.
OutboxTypeOK ==
    /\ status \in [Row -> {"none", "pending", "leased"} \cup Final]
    /\ claims \in [Row -> Nat]
    /\ attempt \in [Row -> Nat]
    /\ expired \in [Row -> BOOLEAN]
    /\ batch \in [Worker -> SUBSET Job]
    /\ sweep \in [Worker -> {"none", "ok", "failed"}]
    /\ trouble \in 0..MaxTrouble
    /\ \A v \in Row : status[v] = "none" <=> v > db

Init ==
    /\ StoreInit
    /\ status = [v \in Row |-> "none"]
    /\ claims = [v \in Row |-> 0]
    /\ attempt = [v \in Row |-> 0]
    /\ expired = [v \in Row |-> FALSE]
    /\ batch = [w \in Worker |-> {}]
    /\ sweep = [w \in Worker |-> "none"]
    /\ trouble = 0

Trouble == trouble < MaxTrouble /\ trouble' = trouble + 1

\* Mutant of CommitWithIntent: a table without the trigger.
CommitWithoutIntent ==
    /\ Commit
    /\ UNCHANGED <<status, claims, attempt, expired, workerVars, trouble>>

\* The business write and its intent commit together.
CommitWithIntent ==
    /\ Commit
    /\ status' = [status EXCEPT ![db + 1] = "pending"]
    /\ UNCHANGED <<claims, attempt, expired, workerVars, trouble>>

-------------------------------------------------------------------------------
(* The repository *)

\* Mutant of Claimable: an expired lease is not looked for.
ClaimablePending == {v \in Row : status[v] = "pending"}

Claimable == {v \in Row : status[v] = "pending" \/ (status[v] = "leased" /\ expired[v])}

\* Mutant of Claim: the worker remembers its invalidations from batch to batch.
ClaimKeepingSweeps(w, S) ==
    /\ batch[w] = {}
    /\ S # {} /\ S \subseteq Claimable /\ Cardinality(S) <= BatchSize
    /\ status' = [v \in Row |-> IF v \in S THEN "leased" ELSE status[v]]
    /\ claims' = [v \in Row |-> IF v \in S THEN claims[v] + 1 ELSE claims[v]]
    /\ attempt' = [v \in Row |-> IF v \in S THEN attempt[v] + 1 ELSE attempt[v]]
    /\ expired' = [v \in Row |-> IF v \in S THEN FALSE ELSE expired[v]]
    /\ batch' = [batch EXCEPT ![w] =
                     {[row |-> v, claim |-> claims[v] + 1, attempt |-> attempt[v] + 1] : v \in S}]
    /\ UNCHANGED <<storeVars, sweep, trouble>>

\* FOR UPDATE SKIP LOCKED may skip rows another worker is claiming.
Claim(w, S) ==
    /\ batch[w] = {}
    /\ S # {} /\ S \subseteq Claimable /\ Cardinality(S) <= BatchSize
    /\ status' = [v \in Row |-> IF v \in S THEN "leased" ELSE status[v]]
    /\ claims' = [v \in Row |-> IF v \in S THEN claims[v] + 1 ELSE claims[v]]
    /\ attempt' = [v \in Row |-> IF v \in S THEN attempt[v] + 1 ELSE attempt[v]]
    /\ expired' = [v \in Row |-> IF v \in S THEN FALSE ELSE expired[v]]
    /\ batch' = [batch EXCEPT ![w] =
                     {[row |-> v, claim |-> claims[v] + 1, attempt |-> attempt[v] + 1] : v \in S}]
    /\ sweep' = [sweep EXCEPT ![w] = "none"]
    /\ UNCHANGED <<storeVars, trouble>>

\* Mutant of Held: the statement names the row by its id alone.
HeldById(j) == TRUE

\* Mutant of Held: the lease token is not compared.
HeldByAnyToken(j) == status[j.row] = "leased" /\ ~expired[j.row]

\* What acknowledge, retry, deadLetter and heartbeat ask of a row.
Held(j) == status[j.row] = "leased" /\ claims[j.row] = j.claim /\ ~expired[j.row]

Leave(w, j) == batch' = [batch EXCEPT ![w] = @ \ {j}] /\ UNCHANGED sweep

Update(j, s) ==
    /\ status' = IF Held(j) THEN [status EXCEPT ![j.row] = s] ELSE status
    /\ UNCHANGED <<claims, attempt, expired>>

-------------------------------------------------------------------------------
(* The worker *)

\* The first job of the batch invalidates, the others await its promise.
Sweep(w) ==
    /\ batch[w] # {} /\ sweep[w] = "none"
    /\ Invalidate
    /\ sweep' = [sweep EXCEPT ![w] = "ok"]
    /\ UNCHANGED <<rowVars, batch, trouble>>

\* deleteByPattern throws; the rotation may have taken place.
SweepFails(w) ==
    /\ batch[w] # {} /\ sweep[w] = "none"
    /\ Trouble
    /\ Invalidate \/ UNCHANGED storeVars
    /\ sweep' = [sweep EXCEPT ![w] = "failed"]
    /\ UNCHANGED <<rowVars, batch>>

\* Mutant of Acknowledge: the invalidation is not awaited.
AcknowledgeUnswept(w, j) ==
    /\ sweep[w] # "failed"
    /\ Update(j, "processed")
    /\ Leave(w, j)
    /\ UNCHANGED <<storeVars, trouble>>

Acknowledge(w, j) ==
    /\ sweep[w] = "ok"
    /\ Update(j, "processed")
    /\ Leave(w, j)
    /\ UNCHANGED <<storeVars, trouble>>

\* The heartbeat found the lease lost: nothing more is done for the row.
LeaseLost(w, j) ==
    /\ ~Held(j)
    /\ Leave(w, j)
    /\ UNCHANGED <<storeVars, rowVars, trouble>>

\* A heartbeat that throws counts as a lost lease, though the row is still leased.
HeartbeatFails(w, j) ==
    /\ Trouble
    /\ Leave(w, j)
    /\ UNCHANGED <<storeVars, rowVars>>

SettleFailure(w, j) ==
    /\ Update(j, IF j.attempt >= MaxAttempts THEN "dead_letter" ELSE "pending")
    /\ Leave(w, j)
    /\ UNCHANGED storeVars

Fail(w, j) == sweep[w] = "failed" /\ SettleFailure(w, j) /\ UNCHANGED trouble

\* The acknowledgement throws, which is handled like a failed invalidation.
AcknowledgeFails(w, j) == sweep[w] = "ok" /\ SettleFailure(w, j) /\ Trouble

\* The payload of the row is not a list of patterns.
Reject(w, j) ==
    /\ Update(j, "dead_letter")
    /\ Leave(w, j)
    /\ Trouble
    /\ UNCHANGED storeVars

\* The process ends, or runOnce throws because a failure could not be stored.
WorkerStops(w) ==
    /\ batch[w] # {}
    /\ Trouble
    /\ batch' = [batch EXCEPT ![w] = {}]
    /\ UNCHANGED <<storeVars, rowVars, sweep>>

Watched(v) == \E w \in Worker : \E j \in batch[w] : j.row = v /\ j.claim = claims[v]

\* Only the heartbeats of the worker that has the job push locked_until.
LeaseExpires(v) ==
    /\ status[v] = "leased" /\ ~expired[v]
    /\ IF Watched(v) THEN Trouble ELSE UNCHANGED trouble
    /\ expired' = [expired EXCEPT ![v] = TRUE]
    /\ UNCHANGED <<storeVars, status, claims, attempt, workerVars>>

Replay(v) ==
    /\ status[v] = "dead_letter"
    /\ Trouble
    /\ status' = [status EXCEPT ![v] = "pending"]
    /\ attempt' = [attempt EXCEPT ![v] = 0]
    /\ UNCHANGED <<storeVars, claims, expired, workerVars>>

Purge(v) ==
    /\ status[v] = "processed"
    /\ status' = [status EXCEPT ![v] = "purged"]
    /\ UNCHANGED <<storeVars, claims, attempt, expired, workerVars, trouble>>

-------------------------------------------------------------------------------

WorkerStep(w) ==
    \/ \E S \in SUBSET Claimable : Claim(w, S)
    \/ Sweep(w)
    \/ \E j \in batch[w] : Acknowledge(w, j) \/ Fail(w, j) \/ LeaseLost(w, j)

WorkerFails(w, j) ==
    AcknowledgeFails(w, j) \/ Reject(w, j) \/ HeartbeatFails(w, j)

Next ==
    \/ (Lookups \/ Invalidate) /\ UNCHANGED outboxVars
    \/ CommitWithIntent
    \/ \E w \in Worker : WorkerStep(w) \/ SweepFails(w) \/ WorkerStops(w)
    \/ \E w \in Worker : \E j \in batch[w] : WorkerFails(w, j)
    \/ \E v \in Row : LeaseExpires(v) \/ Replay(v) \/ Purge(v)

Spec == Init /\ [][Next]_vars

\* Workers poll, and the clock passes the lease nobody renews.
Fairness ==
    /\ \A w \in Worker : WF_vars(WorkerStep(w))
    /\ \A v \in Row : WF_vars(~Watched(v) /\ LeaseExpires(v))

FairSpec == Spec /\ Fairness

-------------------------------------------------------------------------------
(* What is checked *)

Delivered(v) == status[v] \in {"processed", "purged"}

\* A row is acknowledged only when the key was invalidated after its write.
AckedIsInvalidated == \A v \in Row : Delivered(v) => v <= invalidated

\* What a lookup that begins now may find: no write whose row is processed is missing from it.
ProcessedMeansFresh ==
    \A v \in Row : Delivered(v) =>
        LET k == IF Exact THEN 0 ELSE token IN
        (Exact \/ k # 0) /\ store[k] # Nothing => store[k] >= v

\* No late worker takes back the settlement of a row.
ProcessedIsFinal ==
    [][\A v \in Row : Delivered(v) => Delivered(v)']_vars

\* Every committed write is invalidated, or is left to an operator.
EveryWriteSettles == \A v \in Row : status[v] = "pending" ~> status[v] \in Final

\* Two workers never hold a row at the same time: of all the jobs of a row that
\* are still in some batch, at most one can renew, settle or retry it.
OneHolder ==
    \A w, u \in Worker : \A i \in batch[w], j \in batch[u] :
        i.row = j.row /\ Held(i) /\ Held(j) => w = u /\ i = j

\* Each attempt beyond the limit was paid for by a trouble: a row is not
\* invalidated for ever, though the limit is only looked at after a failure.
AttemptsAreBounded == \A v \in Row : attempt[v] <= MaxAttempts + trouble

\* A lookup that begins when a row is processed counts its write as invalidated,
\* so that FreshAnswers speaks of that write.
LookupsFollowRows ==
    [][\A r \in Reader, v \in Row :
          at[r] = "idle" /\ at'[r] # "idle" /\ Delivered(v) => v <= since'[r]]_vars

-------------------------------------------------------------------------------
(* The inductive invariants of leases and attempts *)

\* No two jobs stem from the same claim, and the job of a row's last claim
\* knows its attempts as long as the row is leased.
ClaimInv ==
    /\ \A w \in Worker : \A j \in batch[w] :
          /\ j.claim <= claims[j.row]
          /\ status[j.row] = "leased" /\ j.claim = claims[j.row] => j.attempt = attempt[j.row]
    /\ \A w, u \in Worker : \A i \in batch[w], j \in batch[u] :
          i.row = j.row /\ i.claim = j.claim => w = u /\ i = j

\* A row that waits has an attempt left; a lease nobody watches, or that is
\* over, has cost a trouble.
SpentInv ==
    \A v \in Row :
        /\ status[v] \in {"none", "pending"} => attempt[v] < MaxAttempts
        /\ attempt[v] <= MaxAttempts + trouble
        /\ status[v] = "leased" /\ (expired[v] \/ ~Watched(v))
              => attempt[v] < MaxAttempts + trouble
===============================================================================
