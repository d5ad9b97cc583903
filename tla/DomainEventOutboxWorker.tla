----------------------- MODULE DomainEventOutboxWorker -----------------------
(***************************************************************************)
(* The workers that drain the domain event outbox.  A worker process       *)
(* claims a batch, keeps it in memory, runs at most Concurrency jobs of it *)
(* at a time, races each handler against its deadline, the loss of its     *)
(* lease and the shutdown signal, and settles the row with one             *)
(* lease-fenced statement.  Abandoned handlers are not stopped: they stay  *)
(* in "zombies" and may still reach their effect.                          *)
(***************************************************************************)
EXTENDS DomainEventOutboxRepository

CONSTANTS
    Worker,       \* worker processes
    BatchSize,    \* rows one claim may take
    Concurrency,  \* jobs a worker runs at a time
    MaxAttempts,  \* claims after which a transient failure is given up
    MaxFaults     \* bound on crashes, shutdowns, stalls and database errors

ASSUME WorkerAssumption ==
    /\ BatchSize \in Nat \ {0}
    /\ Concurrency \in Nat \ {0}
    /\ MaxAttempts \in Nat \ {0}
    /\ MaxFaults \in Nat

VARIABLES
    waiting,    \* claimed jobs a worker has not started, taken in sequence order
    active,     \* jobs a worker is running
    zombies,    \* <<worker, sequence>> of handlers nobody waits for any more
    stopping,   \* the worker received its shutdown signal
    delivered,  \* history: rows whose handlers reached their effect
    faults      \* faults so far

jobVars == <<waiting, active, zombies, stopping, delivered, faults>>
vars == <<rowVars, jobVars>>

Job == [seq : Seqs, lease : Nat, attempt : Nat]

\* "dispatch": the handler runs; then how the race of processJob ended.
Phase == {"dispatch", "delivered", "transient", "permanent"}
Activity == [job : Job, phase : Phase, done : BOOLEAN]

\* What rows, batches and running jobs hold.
TypeOK ==
    /\ RowTypeOK
    /\ waiting \in [Worker -> SUBSET Job]
    /\ active \in [Worker -> SUBSET Activity]
    /\ zombies \subseteq Worker \X Seqs
    /\ stopping \in [Worker -> BOOLEAN]
    /\ delivered \subseteq Seqs
    /\ faults \in 0..MaxFaults

Init ==
    /\ RowInit
    /\ waiting = [w \in Worker |-> {}]
    /\ active = [w \in Worker |-> {}]
    /\ zombies = {}
    /\ stopping = [w \in Worker |-> FALSE]
    /\ delivered = {}
    /\ faults = 0

Fault == faults < MaxFaults /\ faults' = faults + 1
Owns(j) == HoldsLease(j.seq, j.lease)

\* The worker drops a job it was running, its handler running on if it had not
\* returned.
Drop(w, a) ==
    /\ active' = [active EXCEPT ![w] = @ \ {a}]
    /\ zombies' = IF a.phase = "dispatch" THEN zombies \cup {<<w, a.job.seq>>} ELSE zombies

-----------------------------------------------------------------------------
(* runOnce *)

Idle(w) == waiting[w] = {} /\ active[w] = {}

\* claimBatch.  When the answer of the transaction is lost the rows stay leased
\* and nobody works on them.
Claim(w, S) ==
    /\ Idle(w)
    /\ ~stopping[w]
    /\ S # {}
    /\ Cardinality(S) <= BatchSize
    /\ ClaimRows(S)
    /\ \/ /\ waiting' = [waiting EXCEPT ![w] =
                {[seq |-> s, lease |-> lease'[s], attempt |-> attempt'[s]] : s \in S}]
          /\ UNCHANGED faults
       \/ Fault /\ UNCHANGED waiting
    /\ UNCHANGED <<active, zombies, stopping, delivered>>

\* Nothing is due: the worker sleeps for its poll interval.
EmptyPoll(w) ==
    /\ Idle(w)
    /\ ~stopping[w]
    /\ \A s \in Seqs : ~Claimable(s)
    /\ UNCHANGED vars

NextJob(w, j) == j \in waiting[w] /\ \A i \in waiting[w] : j.seq <= i.seq

\* A runner takes the next job of the batch and dispatches it, whatever became
\* of its lease while it waited.
StartJob(w, j) ==
    /\ NextJob(w, j)
    /\ Cardinality(active[w]) < Concurrency
    /\ ~stopping[w]
    /\ waiting' = [waiting EXCEPT ![w] = @ \ {j}]
    /\ active' = [active EXCEPT ![w] = @ \cup {[job |-> j, phase |-> "dispatch", done |-> FALSE]}]
    /\ UNCHANGED <<rowVars, zombies, stopping, delivered, faults>>

-----------------------------------------------------------------------------
(* processJob: the race *)

\* The handler reaches its effect in another system.
HandlerEffect(w, a) ==
    /\ a.phase = "dispatch"
    /\ active' = [active EXCEPT ![w] = (@ \ {a}) \cup {[a EXCEPT !.done = TRUE]}]
    /\ delivered' = delivered \cup {a.job.seq}
    /\ UNCHANGED <<rowVars, waiting, zombies, stopping, faults>>

\* So may a handler whose job was dropped.
ZombieEffect(z) ==
    /\ z \in zombies
    /\ delivered' = delivered \cup {z[2]}
    /\ zombies' \in {zombies, zombies \ {z}}
    /\ UNCHANGED <<rowVars, waiting, active, stopping, faults>>

\* Mutant of HandlerSettles: the dispatcher does not await its listeners.
HandlerNotAwaited(w, a, outcome) ==
    /\ a.phase = "dispatch"
    /\ ~stopping[w]
    /\ active' = [active EXCEPT ![w] = (@ \ {a}) \cup {[a EXCEPT !.phase = outcome]}]
    /\ UNCHANGED <<rowVars, waiting, zombies, stopping, delivered, faults>>

\* The race ends with the handler's own outcome: it returns after its effect,
\* or it throws, before or after it.
HandlerSettles(w, a, outcome) ==
    /\ a.phase = "dispatch"
    /\ ~stopping[w]
    /\ outcome = "delivered" => a.done
    /\ active' = [active EXCEPT ![w] = (@ \ {a}) \cup {[a EXCEPT !.phase = outcome]}]
    /\ UNCHANGED <<rowVars, waiting, zombies, stopping, delivered, faults>>

\* The handler deadline wins the race; the handler keeps running.
HandlerDeadline(w, a) ==
    /\ a.phase = "dispatch"
    /\ ~stopping[w]
    /\ active' = [active EXCEPT ![w] = (@ \ {a}) \cup {[a EXCEPT !.phase = "transient"]}]
    /\ zombies' = zombies \cup {<<w, a.job.seq>>}
    /\ UNCHANGED <<rowVars, waiting, stopping, delivered, faults>>

\* A heartbeat is rejected by the fence, or fails; one still in flight when the
\* race ended counts too.  The job is dropped and its row left alone.
LoseLease(w, a) ==
    /\ \/ ~Owns(a.job) /\ UNCHANGED faults
       \/ Fault
    /\ Drop(w, a)
    /\ UNCHANGED <<rowVars, waiting, stopping, delivered>>

-----------------------------------------------------------------------------
(* processJob: the statement that settles the row *)

\* Mutant of GivesUp: one attempt too many.
GivesUpLate(a) == a.phase = "permanent" \/ a.job.attempt > MaxAttempts

GivesUp(a) == a.phase = "permanent" \/ a.job.attempt >= MaxAttempts

\* Mutant of SettleRow: the statement names the row by its id alone.
SettleUnfenced(a) ==
    CASE a.phase = "delivered" -> AcknowledgeRow(a.job.seq)
      [] a.phase # "delivered" /\ GivesUp(a) -> DeadLetterRow(a.job.seq)
      [] OTHER -> RetryRow(a.job.seq)

\* The fenced statement of a settled job, still sent when the shutdown signal
\* comes after the last test of it: it changes the row only for the
\* holder of the lease, and affects no row otherwise.
SettleRow(a) ==
    IF ~Owns(a.job) THEN UNCHANGED rowVars
    ELSE CASE a.phase = "delivered" -> AcknowledgeRow(a.job.seq)
           [] a.phase # "delivered" /\ GivesUp(a) -> DeadLetterRow(a.job.seq)
           [] OTHER -> RetryRow(a.job.seq)

Settle(w, a) ==
    /\ a.phase # "dispatch"
    /\ SettleRow(a)
    /\ active' = [active EXCEPT ![w] = @ \ {a}]
    /\ UNCHANGED <<waiting, zombies, stopping, delivered, faults>>

\* The statement throws: it was not executed, or its answer was lost.
SettleThrows(w, a) ==
    /\ a.phase # "dispatch"
    /\ Fault
    /\ SettleRow(a) \/ UNCHANGED rowVars
    /\ active' = [active EXCEPT ![w] = @ \ {a}]
    /\ UNCHANGED <<waiting, zombies, stopping, delivered>>

-----------------------------------------------------------------------------
(* Shutdown, crash, time *)

Shutdown(w) ==
    /\ ~stopping[w]
    /\ Fault
    /\ stopping' = [stopping EXCEPT ![w] = TRUE]
    /\ UNCHANGED <<rowVars, waiting, active, zombies, delivered>>

\* A stopping worker aborts a running job and skips the rest of its batch, the
\* leases left to expire.
AbortJob(w, a) ==
    /\ stopping[w]
    /\ Drop(w, a)
    /\ UNCHANGED <<rowVars, waiting, stopping, delivered, faults>>

SkipJob(w, j) ==
    /\ stopping[w]
    /\ NextJob(w, j)
    /\ Cardinality(active[w]) < Concurrency
    /\ waiting' = [waiting EXCEPT ![w] = @ \ {j}]
    /\ UNCHANGED <<rowVars, active, zombies, stopping, delivered, faults>>

\* The process ends, a new one takes its place; nothing in memory survives.
Reset(w) ==
    /\ waiting' = [waiting EXCEPT ![w] = {}]
    /\ active' = [active EXCEPT ![w] = {}]
    /\ zombies' = {z \in zombies : z[1] # w}
    /\ stopping' = [stopping EXCEPT ![w] = FALSE]
    /\ UNCHANGED <<rowVars, delivered>>

Restart(w) == stopping[w] /\ Idle(w) /\ Reset(w) /\ UNCHANGED faults
Crash(w) == Fault /\ Reset(w)

\* Some worker still has the job that holds the lease of the row.
Held(s) ==
    \E w \in Worker :
        \/ \E j \in waiting[w] : j.seq = s /\ Owns(j)
        \/ \E a \in active[w] : a.job.seq = s /\ Owns(a.job)

\* Time passes.  A lease somebody still works under runs out only when its job
\* waited too long in the batch or its heartbeats stalled, which is a fault.
TimePasses(s) ==
    /\ Ripen(s)
    /\ IF Held(s) THEN Fault ELSE UNCHANGED faults
    /\ UNCHANGED <<waiting, active, zombies, stopping, delivered>>

Administer ==
    /\ \E S \in SUBSET Seqs : ReplayDeadLetters(S) \/ PurgeProcessed(S)
    /\ UNCHANGED jobVars

Produce ==
    /\ \/ \E k \in Key : Stage(k)
       \/ \E s \in Seqs : Commit(s) \/ Rollback(s)
    /\ UNCHANGED jobVars

\* Everything worker w may do with the job it runs as a.
RunStep(w, a) ==
    \/ HandlerEffect(w, a)
    \/ \E o \in {"delivered", "transient", "permanent"} : HandlerSettles(w, a, o)
    \/ HandlerDeadline(w, a)
    \/ LoseLease(w, a)
    \/ Settle(w, a)
    \/ SettleThrows(w, a)
    \/ AbortJob(w, a)

Next ==
    \/ Produce
    \/ Administer
    \/ \E s \in Seqs : TimePasses(s)
    \/ \E z \in zombies : ZombieEffect(z)
    \/ \E w \in Worker :
          \/ \E S \in SUBSET Seqs : Claim(w, S)
          \/ EmptyPoll(w)
          \/ \E j \in waiting[w] : StartJob(w, j) \/ SkipJob(w, j)
          \/ \E a \in active[w] : RunStep(w, a)
          \/ Shutdown(w)
          \/ Restart(w)
          \/ Crash(w)

Spec == Init /\ [][Next]_vars

-----------------------------------------------------------------------------
(* Safety *)

\* No event is lost on its way out of the table: a row is closed, and later
\* deleted by the retention job, only if its handlers reached their effect,
\* whatever crashed, stalled or was delivered twice meanwhile.
ClosedWasDelivered ==
    \A s \in Seqs : status[s] \in {"processed", "purged"} => s \in delivered

Answered(p) == p \in delivered \cup buried \/ status[p] = "rolled_back"

\* Where producers commit in sequence order, an event first reaches its effect
\* only after every earlier event of its aggregate did, was given up as a dead
\* letter or was rolled back; stale jobs and abandoned handlers included.
FirstDeliveryInOrder ==
    \A s \in delivered, p \in Seqs :
        Stream(s) \in Serialised /\ p < s /\ Stream(p) = Stream(s) => Answered(p)

\* Two events of one aggregate are leased at the same time, hence handled
\* concurrently by healthy workers, only if the earlier one had been passed over
\* as a dead letter and was replayed.
OneLeasePerAggregate ==
    \A p, s \in Seqs :
        /\ Stream(s) \in Serialised
        /\ p < s /\ Stream(p) = Stream(s)
        /\ status[p] = "leased" /\ status[s] = "leased"
        => p \in buried

JobsOf(w) == waiting[w] \cup {a.job : a \in active[w]}

\* At most one job of all workers is allowed to settle a row: every other copy
\* of it, left in a batch or running after its lease ran out, is fenced off.
LeaseIsExclusive ==
    \A v, w \in Worker : \A i \in JobsOf(v), j \in JobsOf(w) :
        i.seq = j.seq /\ Owns(i) /\ Owns(j) => v = w /\ i = j

\* A leased row leaves that state only through the job that holds its lease at
\* that moment, and according to what that job's handler did: processed after
\* the effect, dead letter after a permanent failure or on the last attempt,
\* pending again otherwise.
SettledByHolder ==
    [][\A s \in Seqs : status[s] = "leased" /\ status'[s] # "leased" =>
          \E w \in Worker : \E a \in active[w] :
              /\ a.job.seq = s /\ Owns(a.job)
              /\ status'[s] = "processed" => a.done
              /\ status'[s] = "dead_letter" => a.phase = "permanent" \/ attempt[s] >= MaxAttempts
              /\ status'[s] = "pending" => a.phase = "transient" /\ attempt[s] < MaxAttempts
      ]_vars

\* "Delivery is ordered per project": no worker runs the handlers of an event
\* to their effect once a later event of its aggregate was delivered.
DeliveryIsOrdered ==
    [][\A w \in Worker : \A a \in active[w] :
          ~a.done /\ [a EXCEPT !.done = TRUE] \in active'[w] =>
              \A s \in delivered :
                  Stream(s) \in Serialised /\ Stream(s) = Stream(a.job.seq) => s <= a.job.seq
      ]_vars

\* What remains of that promise: a handler whose job still holds its lease, of an
\* event that was never set aside, reaches its effect before every later event of
\* the aggregate.  Only a lost lease or an operator's replay breaks the order
\* (claimBatch, processJob).
HoldersDeliverInOrder ==
    [][\A w \in Worker : \A a \in active[w] :
          /\ ~a.done /\ [a EXCEPT !.done = TRUE] \in active'[w]
          /\ Owns(a.job) /\ a.job.seq \notin buried
          => \A s \in delivered :
                Stream(s) \in Serialised /\ Stream(s) = Stream(a.job.seq) => s <= a.job.seq
      ]_vars

\* attempt_count grows at the claim and is compared after the handler: a row is
\* claimed more often than MaxAttempts only as often as a worker crashed, was
\* stopped, stalled or lost an answer.
AttemptsAreBounded == \A s \in Seqs : attempt[s] <= MaxAttempts + faults

-----------------------------------------------------------------------------
(* The inductive strengthening of the invariants above. *)

Gone == {"processed", "purged", "rolled_back"}

\* Sequences are handed out in order, and a serialised aggregate has no open
\* transaction behind a later one.
AllocationInv ==
    \A s \in Seqs :
        /\ s < nextSeq <=> status[s] # "none"
        /\ s < nextSeq <=> keyOf[s] # None
        /\ Stream(s) \in Serialised =>
              \A p \in Seqs : p < s /\ Stream(p) = Stream(s) => status[p] # "staged"

\* Only a committed row is claimed, and only behind events that are settled: a
\* later predecessor can only be a dead letter somebody replayed.
ClaimInv ==
    \A s \in Seqs : issued[s] > 0 =>
        /\ status[s] \in Retained \cup {"purged"}
        /\ Stream(s) \in Serialised =>
              \A p \in Seqs : p < s /\ Stream(p) = Stream(s) => status[p] \in Gone \/ p \in buried

\* Where rows stand.
RowStateInv ==
    \A s \in Seqs :
        /\ status[s] = "leased" => issued[s] > 0 /\ lease[s] = issued[s]
        /\ status[s] = "dead_letter" => s \in buried
        /\ status[s] \in {"processed", "purged"} => s \in delivered

\* What a job in memory knows about its row.
JobInv ==
    \A w \in Worker :
        /\ \A j \in JobsOf(w) :
              /\ 0 < j.lease /\ j.lease <= issued[j.seq]
              /\ status[j.seq] = "leased" /\ lease[j.seq] = j.lease => attempt[j.seq] = j.attempt
        /\ \A a \in active[w] :
              /\ a.done => a.job.seq \in delivered
              /\ a.phase = "delivered" => a.done

\* No two jobs share a lease.
LeaseInv ==
    \A v, w \in Worker : \A i \in JobsOf(v), j \in JobsOf(w) :
        i.seq = j.seq /\ i.lease = j.lease => v = w /\ i = j

\* Handlers run only for rows that were claimed.
EffectInv ==
    /\ \A z \in zombies : issued[z[2]] > 0
    /\ \A s \in delivered : issued[s] > 0

\* A worker that goes on has the job that holds the lease of the row.
Working(s) ==
    \E w \in Worker : ~stopping[w] /\ \E j \in JobsOf(w) : j.seq = s /\ Owns(j)

\* Who gives up a lease without settling the row has paid with a fault.
AttemptInv ==
    \A s \in Seqs :
        /\ status[s] \in {"none", "staged"} => attempt[s] = 0
        /\ status[s] = "pending" => attempt[s] < MaxAttempts
        /\ status[s] = "leased" /\ ~Working(s) => attempt[s] < MaxAttempts + faults
        /\ attempt[s] <= MaxAttempts + faults

\* A job is in one place of its worker.
PlaceInv ==
    \A w \in Worker : \A a \in active[w] :
        /\ a.job \notin waiting[w]
        /\ \A b \in active[w] : a.job = b.job => a = b

\* Without a fault nobody loses a lease, without a replay nothing comes back.
HealthyInv ==
    /\ faults = 0 => \A w \in Worker : ~stopping[w] /\ \A j \in JobsOf(w) : Owns(j)
    /\ replays = 0 => \A s \in buried : status[s] = "dead_letter"

\* Conjunction of the parts; the invariants above follow from it.
OutboxInv ==
    /\ AllocationInv
    /\ ClaimInv
    /\ RowStateInv
    /\ JobInv
    /\ LeaseInv
    /\ EffectInv
    /\ AttemptInv
    /\ PlaceInv
    /\ HealthyInv

-----------------------------------------------------------------------------
(* The outbox implements OutboxDelivery *)

StateOf(s) ==
    CASE status[s] = "none" -> "absent"
      [] status[s] = "staged" -> "staged"
      [] status[s] = "rolled_back" -> "withdrawn"
      [] status[s] \in Open -> "open"
      [] status[s] = "processed" -> "closed"
      [] status[s] = "dead_letter" -> "dead"
      [] status[s] = "purged" -> "forgotten"

Promise == INSTANCE OutboxDelivery WITH
    state <- [s \in Seqs |-> StateOf(s)],
    stream <- [s \in Seqs |-> Stream(s)]

\* Leases, batches, crashes and replays keep the promise of OutboxDelivery.
KeepsPromise == Promise!DeliverySpec

-----------------------------------------------------------------------------
(* Liveness *)

ClaimOf(s) == \E w \in Worker : \E S \in SUBSET Seqs : s \in S /\ Claim(w, S)

JobEnds(w, s) ==
    \E a \in active[w] :
        /\ a.job.seq = s
        /\ \/ \E o \in {"delivered", "transient", "permanent"} : HandlerSettles(w, a, o)
           \/ HandlerDeadline(w, a)
           \/ LoseLease(w, a)
           \/ Settle(w, a)
           \/ AbortJob(w, a)

\* Transactions end and clocks advance.  A worker polls for ever, claims in
\* sequence order, starts the jobs of its batch and bounds each by the handler
\* deadline, so that no due row is passed over for ever; a stopped process is
\* started again.
Fairness ==
    /\ \A s \in Seqs :
          /\ WF_vars((Commit(s) \/ Rollback(s)) /\ UNCHANGED jobVars)
          /\ WF_vars(TimePasses(s) /\ UNCHANGED faults)
          /\ SF_vars(ClaimOf(s))
    /\ \A w \in Worker :
          /\ WF_vars(\E j \in waiting[w] : StartJob(w, j) \/ SkipJob(w, j))
          /\ WF_vars(Restart(w))
          /\ \A s \in Seqs : WF_vars(JobEnds(w, s))

FairSpec == Spec /\ Fairness

\* Every committed event is eventually processed or set aside for an operator,
\* through finitely many crashes, stalls and lost answers.
EventuallySettled ==
    \A s \in Seqs :
        status[s] = "pending" ~> status[s] \in {"processed", "dead_letter", "purged"}


=============================================================================
