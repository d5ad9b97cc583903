# A verification of Suar

Suar is a TypeScript (AdonisJS) platform on which organizations run projects and
tasks, contributors are reviewed for delivered work, and the reviews become
searchable talent profiles. State lives in PostgreSQL; Redis holds the cache,
Elasticsearch the search indexes. This directory holds TLA+ specifications of the
parts of it where several actors work on shared state, TLC configurations that check
them on small instances, and proofs, checked by TLAPS, that the main properties hold
for instances of any size.

Modelled, checked and proved so far: the domain event outbox, through which the
modules of the backend tell each other what happened; the processing receipts of the
reviews module, the most involved consumer of it; the cached lookups that all modules
share, and the outbox that invalidates them; the notification feed with the workers that
project it into search indices and the commands that rebuild, promote and roll back an
index under them. The rest is inventoried and planned below.

## Files

| file | what it is |
|---|---|
| `DomainEventOutboxRepository` | the table `domain_event_outbox` and the SQL statements on it |
| `DomainEventOutboxWorker` | the worker processes that drain the table; extends the repository |
| `OutboxDelivery` | what the outbox promises, without leases, workers or time |
| `DomainEventOutboxProofs` | theorems about `DomainEventOutboxWorker` |
| `OutboxDeliveryProofs` | what follows from `OutboxDelivery` for a consumer of events |
| `ReviewReceipt` | the handler of `review:confirmed` and `dispute:resolved` |
| `EffectPlan` | what a receipt promises, without handlers, locks or cursors |
| `ReviewReceiptProofs` | theorems about `ReviewReceipt` |
| `EffectPlanProofs` | what follows from `EffectPlan` for those who see the effects |
| `CacheStore` | lookups of a key through generations, flights and locks; invalidations; Redis |
| `FreshReads` | what a cache promises, without keys, tokens, flights or locks |
| `CacheStoreProofs` | theorems about `CacheStore` |
| `CacheInvalidationOutbox` | the table `cache_invalidation_outbox` and its workers; extends `CacheStore` |
| `CacheInvalidationOutboxProofs` | theorems about `CacheInvalidationOutbox` |
| `NotificationFeed` | notifications, their outbox, and the workers that write them into the indices |
| `NotificationProjection` | the operator's commands beside them; extends the feed |
| `FollowedFeed` | what readers of the feed are promised, whatever index serves it |
| `NotificationProjectionProofs` | theorems about `NotificationProjection` |
| `MCDomainEventOutboxWorker`, `MCReviewReceipt`, `MCCacheStore`, `MCCacheInvalidationOutbox`, `MCNotificationProjection` | instances for TLC |
| `outbox_*.cfg`, `receipt_*.cfg`, `cache_*.cfg`, `notification_*.cfg` | one model-checking run each |
| `PROJECT.json` | components, runs, mutants, the map from definitions to source lines, findings, hazards, theorems |

Run a check with `tlc -config outbox_stream.cfg MCDomainEventOutboxWorker`, a proof
with `tlapm ReviewReceiptProofs.tla`.

## The system

The backend is a modular monolith: `src/app/modules/*` are the modules, each with
commands, ports, repositories and listeners, and `src/app/composition` wires them.
A command writes its tables and stages a domain event in one transaction; worker
processes (`node ace domain-event-outbox:work`) deliver the events to the listeners
of other modules. Three kinds of processes therefore touch shared state: web
processes, outbox workers (of domain events, notifications, cache invalidations), and
scheduled or operator commands.

### Components

| component | state | operations | interacts with | hard behaviour | correct when | status |
|---|---|---|---|---|---|---|
| Domain event outbox (`events`) | rows with status, attempts, lease, sequence; jobs in worker memory | stage, claim, heartbeat, acknowledge, retry, dead letter, replay, purge | staged by every module, dispatches to their listeners | concurrent workers, lease expiry, handler deadlines, crash, lost answers, replay | nothing closed undelivered; first deliveries in order; a lease has one holder; every event settles | modelled, proved |
| Review receipts (`reviews`, `users`) | receipts with cursor, plan and revision; trust_data of users | database phase, deliver effect, advance cursor, record failure, apply projection | called by the outbox, calls users, search and cache | repeated and concurrent handlers, crash between effect and checkpoint, lost updates, projections out of order | phase once; checkpoints delivered; projection of all reviews in the end | modelled, proved |
| Search projection delivery (`search`) | index documents with external versions, publication receipts | reindex on events, acknowledge | called by the outbox, reads the database | sequence order is not commit order; conflicts swallowed | index converges to the database | planned |
| Search index cutover (`search`) | generations, aliases, ledger | rebuild, activate, roll back, reconcile | Elasticsearch aliases, PostgreSQL ledger | crash between the alias swap and the ledger | aliases and ledger agree after reconciliation | planned |
| Cache lookups (`cache`) | entries, generation tokens, single flight locks in Redis; flights in a process | resolve a key, remember, rotate, delete, flush | all modules | fills racing invalidations, expired or abandoned locks, lost answers, outages | no value older than a finished invalidation is served, except in a flight shared without a key; the source is loaded once | partly modelled, proved |
| Cache invalidation outbox (`cache`) | rows with status, attempts, lease | stage by trigger, claim, invalidate, settle, replay, purge | triggers of business tables, cache lookups | lost leases, failed invalidations, late settlements | what is acknowledged is invalidated; every write settles | modelled, proved |
| Notification feed and projection (`notifications`) | canonical rows and tombstones, outbox rows with leases, deliveries and checkpoints per index, indices and aliases, projection run | accept, read, delete; claim, load, prepare, lease, project, acknowledge; rebuild, reconcile, promote, roll back, retire, replay, discard | writers in web processes, workers, Elasticsearch, an operator | targets that change under running jobs, stale handlers, crashes between the alias request and its commit, backfill beside writers | the feed follows the canonical store and misses nothing when another index takes over; processed jobs are visible; aliases go to fed indices only | partly modelled, proved |
| Notification fanout (`notifications`) | cursors of an event's recipients | fan out by pages | domain events, acceptance | page-wise fanout with crashes | each recipient notified once | planned |
| Task assignment (`tasks`) | assignments, applications, status | assign, apply, process, withdraw, revoke, change status | sprints, reviews, organizations | concurrent commands on a task | one active assignment; status agrees with it | planned |
| Review workflow, sprint review (`reviews`) | workflows, packages, disputes | submit, respond, finalize, expire, dispute | tasks, sprints, receipts | deadlines racing submissions | a workflow ends once, with one outcome | planned |
| AI dispute evaluation (`reviews`) | evaluations, auto-queue intents | start, callback, reconcile, process intents | external service | late, duplicate or lost callbacks | one result per evaluation | planned |
| Accomplishment publication (`accomplishments`) | versions, publications, receipts | prepare, publish, govern | search projection | publication racing governance | a withdrawn publication is not shown | planned |
| Organizations, projects, sprints | members, roles, owners, sprint state | invite, join, change role, transfer, move task | tasks | concurrent role changes and transfers | one owner; members of a project belong to the organization | planned |
| Users, skills, taxonomy, settings | profiles, catalogues | edit, publish | reviews, search | little: single transactions | - | not modelled |
| Auth, authorization, audit, admin, marketplace | sessions, records | sign in, decide, record, list | all | little | - | not modelled |
| HTTP, errors, filtering, pagination, observability, frontend | none of their own | map, render, measure | all | none | - | not modelled |

"hazards" in `PROJECT.json` lists what is hard to test, line by line, with the
property that covers it or the reason why none does yet.

## The domain event outbox

`DomainEventOutboxRepository` has one variable per column that decides something
(`status`, `ripe`, `attempt`, `lease`), indexed by the row's `bigserial` sequence, and
one action or action part per SQL statement. Three ideas keep it small.

* Time is what the statements ask of it: `ripe[s]` stands for `available_at <= now` of
  a pending row and `locked_until <= now` of a leased one, and `Ripen` may set it at
  any time. A lease expiring under a job that still runs counts as a fault (heartbeats
  stalled, or the job waited too long in its batch).
* `SKIP LOCKED` is a free choice of the claimed set among the claimable rows.
* A transaction of a producer is two actions, `Stage` (the insert draws its
  sequence) and `Commit` or `Rollback`, because the claim sees committed rows only. The
  aggregates in `Serialised` are those whose commands lock the aggregate row before
  they stage; the others may commit out of sequence order.

`DomainEventOutboxWorker` adds the processes. `Claim` puts a batch into the worker's
memory (`waiting`), `StartJob` moves the next one into `active`, where the race of
`processJob` is the choice among `HandlerSettles`, `HandlerDeadline`, `LoseLease` and
`AbortJob`; `HandlerEffect` is the moment the handler takes effect elsewhere. What the
race leaves behind is still alive: `zombies` are handlers nobody waits for, whose
`ZombieEffect` may come at any later time until their process ends. `Settle` is the one
fenced statement that follows, `SettleThrows` the same statement failing before or
after it took effect. `Shutdown`, `Restart` and `Crash` are the life of the process.

| definition | code |
|---|---|
| `Stage`, `Commit`, `Rollback` | `PostgresDomainEventOutboxRepository.stage` inside the caller's transaction |
| `Claimable`, `ClaimRows` | the `WHERE` and the `UPDATE` of `claimBatch` |
| `HoldsLease`, `AcknowledgeRow`, `RetryRow`, `DeadLetterRow` | the fence and the updates of `acknowledge`, `retry`, `deadLetter` |
| `ReplayDeadLetters`, `PurgeProcessed` | administration and retention repositories |
| `Claim`, `StartJob`, `SkipJob`, `EmptyPoll` | `runOnce` and the loop of the command |
| `HandlerSettles` ... `SettleThrows` | `processJob` |

Properties:

* `ClosedWasDelivered`: a row is processed or purged only after its handlers reached
  their effect.
* `FirstDeliveryInOrder`: the first effects of a serialised aggregate happen in
  sequence order, except past dead letters; zombies and stale jobs included.
* `OneLeasePerAggregate`: two leased rows of one aggregate mean that a dead letter was
  replayed.
* `LeaseIsExclusive`: of all copies of a job in all workers, at most one can settle
  the row.
* `SettledByHolder` (action property): a row leaves the leased state only through that
  copy, in accordance with what its handler did and with the attempts left.
* `EventuallySettled` (liveness): every committed event ends processed or as a dead
  letter.
* `KeepsPromise`: the whole implements `OutboxDelivery`.
* `HoldersDeliverInOrder` (action property): what remains of the order of *all*
  deliveries. A handler whose job still holds its lease, of an event that was never set
  aside, reaches its effect before every later event of the aggregate; only the deliveries
  of lost leases and of replayed dead letters may come late.
* `AttemptsAreBounded`: `attempt_count` grows at the claim but is compared after the
  handler. A row is claimed more often than `MaxAttempts` only as often as a worker
  crashed, was stopped, stalled or lost an answer.
* `DeliveryIsOrdered` does **not** hold, see findings.

## Review receipts

A confirmed review or a resolved dispute is processed by a handler with two parts.
`applyDatabasePhase` is one transaction: insert the receipt (a concurrent insert of the
same confirmation waits, `InsertReceipt`), take the advisory lock of the reviewee
(`AcquireProjectionLock`), read and write back `trust_data` when the phase rescores
(`ReadTrustData`, `WriteTrustData`: two steps, since the read takes no row lock),
compute the projection of the reviewee under a fresh sequence value
(`SaveExternalEffects`) and commit (`CommitDatabasePhase`).
`applyExternalEffects` then delivers the saved plan: skill score events and a cache
invalidation (`DeliverEffect`), and last the projection, which the users module writes
under the row lock when its revision is newer (`ApplyProjection`) before it stages a
reindex request in another transaction (`StageReindex`). After each effect
`AdvanceCursor` compares and sets the cursor. `RollbackDatabasePhase` and
`FailDelivery` cut a handler off at any point; `LoadReceipt` is the next call, which
resumes at the stored cursor. Several handlers of the same confirmation may be alive,
because the outbox abandons handlers without stopping them.

The scores themselves are not modelled; `covers[v]` is the set of confirmed reviews that
the projection with revision `v` was computed from, and that is what the properties
compare. The dispute variant of the handler runs the same steps, its phase without
the merge of `trust_data` when it does not rescore: `Rescores` tells them apart.

Properties:

* `DatabasePhaseOnce`: however many handlers run it, the database phase of a
  confirmation commits once.
* `CheckpointsAreDelivered`: the cursor counts delivered effects only, and a receipt
  is completed exactly when its whole plan is checkpointed.
* `CursorNeverCollides`: the collision that the repository reports as a permanent
  error is unreachable.
* `ReceiptMovesForward` (action property): stale handlers move no cursor back or over
  an effect, change no plan, and touch no completed receipt.
* `ProjectionsConverge`: once all plans of a reviewee are completed, the users row
  shows a projection of all the reviews, with its reindex staged, whatever order the
  plans were delivered in.
* `RegressionIsOwed` (action property): a projection is set back only by the commit of a
  rescoring phase whose own, newer projection is saved and still to be delivered.
* `EventuallyCompleted` (liveness): every confirmed review is completed.
* `KeepsPlan`: receipts and handlers implement `EffectPlan`.
* `ProjectionNeverRegresses` does **not** hold, see findings.

## Cached lookups

`CacheStore` is the life of one logical key. `resolveVersionedKeyBestEffort` reads the
generation token of the key's namespace, or sets a new one when it is missing
(`Resolve`); the token becomes part of the physical key, so that an invalidation is a
new token and nothing has to be deleted (`Invalidate` with `Draw`). Keys without a
generation (`Exact`) are deleted instead. `remember` shares a flight among the callers
of a process (`Join`, `Lead`, `Settle`); the leader reads, and on a miss takes part in
the lock protocol between processes before it loads the source and stores the value.

| definition | code |
|---|---|
| `Resolve`, `ResolveFails` | `resolveVersionedKeyBestEffort`, with Redis and without |
| `Keyless`, `Fetch`, `FetchFails` | the query that has no key and calls its source past the cache |
| `Flight`, `Join`, `Lead`, `Settle` | `InProcessSingleFlightExecutor.execute` |
| `Read`, `Poll`, `Confirm`, `Recheck`, `ReadFails` | the four calls of `read` in `remember`, `waitForDistributedResult` and `rememberAcrossProcesses` |
| `Acquire`, `Contend`, `AcquireFails` | `SET ... NX` and its three outcomes |
| `NoticeRelease`, `WaitTimeout`, `DeadlinePasses` | the waiting loop and its deadline |
| `Load`, `Populate`, `LoadFails`, `PopulateFails` | `computeAndPopulate`, `setBestEffort` |
| `Release`, `ReleaseFails`, `LockExpires` | the fenced release, the heartbeat and the lifetime of a lock |
| `Invalidate`, `Flush` | `deleteByPattern`, `rotateGeneration`, `flush` |

Every command to Redis, and every load, is a step of its own. `faults` counts what the
code tolerates and the properties about the undisturbed protocol exclude: failed
commands and loads, lost answers, evictions, expired control keys and living locks,
flushes, passed deadlines and crashes of a process. What else is abstracted:

* a lookup may name several namespaces; one script reads or draws all their tokens,
  and any of them rotating gives a new physical key, so that one token stands for all;
* tokens are UUIDs, drawn here from a counter: never the same twice;
* versions of the source stand for its data, and a load is one consistent read of it;
* a corrupt or oversized value is one that was evicted or not stored;
* an outage of Redis that meets several lookups is one disturbance, for as long as one of
  them is under way.

A lookup without a physical key (`Keyless`: Redis did not answer the resolution) goes past
the cache. The query of the task list then calls `executeSingleFlight` under
`tasks-list:cache-bypass:` and the *logical* key, so that callers of a process share a load
that no invalidation separates: a lookup that begins after an invalidation may join a load
that read the source before the write. The other queries call their source alone.
`BypassShared` tells the two apart; the runs take the first, the proofs hold for both.

Properties:

* `FreshAnswers` (action property): with generations, a lookup answers with nothing older
  than what was invalidated before it began, also when loads, stores and rotations overlap,
  control keys expire, locks are lost and processes die. The one exception is a lookup that
  shares a flight without a key: its answer may miss what was invalidated between the
  beginning of the flight and its own, and nothing older (`Basis`). No lookup with a key
  gets such an answer.
* `LoadedOnce`: undisturbed, the source is loaded once for a physical key (with
  `Exact`: between two deletions), however many processes miss it; the second look
  under the lock is what makes it so. TLC checks it with generations, the theorem
  covers both kinds of keys.
* `ReleaseIsFenced` (action property): undisturbed, only the release of its owner takes
  a lock away.
* `LookupsEnd` (liveness): every lookup ends, with crashed owners, failed releases and
  lost answers of the lock command. It is checked with generations. A waiter for a key
  without one, deleted again and again, may lose the race for the lock until its
  deadline passes, which the model does not force.
* `ImplementsFreshReads`: lookups, invalidations and crashes are the steps of
  `FreshReads`, and nothing else is visible. `FreshReads` has lookups that are `adrift`, for
  want of a key; one of them may take over what another has to be as new as (`Share`).

## Cache invalidation outbox

`CacheInvalidationOutbox` extends `CacheStore` with the rows that database triggers
stage in the transaction of a write (`CommitWithIntent`) and with the workers. `Claim`
is `claimBatch`; `Sweep` and `SweepFails` are the one call of `deleteByPattern` that all
jobs of a batch with the same pattern await; `Acknowledge`, `Fail`, `Reject`,
`AcknowledgeFails`, `LeaseLost` and `HeartbeatFails` are the ways out of `processJob`.
`Held` is the fence of every settlement: row, lease token, status and time. A claim
number stands for the lease token. `expired` is `locked_until <= now`, one clock for all
workers; a worker with another clock can only make a lease look expired early or
late, and the token decides anyway. A row that waits for `available_at` is one that
nobody claims yet. A worker has one runner, the default of the command: its jobs are
settled one by one, in any order.

The invalidations that request paths run after their commit are `Invalidate` at any
time, and nothing depends on them.

Properties:

* `AckedIsInvalidated`: a row is acknowledged only after an invalidation that came after
  its write, though the invalidation may have been made for another row of the batch,
  or the lease lost and the row claimed again.
* `ProcessedMeansFresh`: once a row is processed, no value older than its write can be
  looked up, whoever still populates the cache. It holds with generations, and does
  **not** without, see findings.
* `ProcessedIsFinal` (action property): no late worker takes a delivered row back.
* `EveryWriteSettles` (liveness): the row of every write ends processed or as a dead
  letter.
* `OneHolder`: of all the jobs of a row in all batches, at most one can settle it.

Proved, and checked by TLC on the constants of these runs before, but listed in no run:

* `AttemptsAreBounded`: attempts beyond the limit are paid for by lost leases, lost answers
  or crashes.
* `LookupsFollowRows` (action property): a lookup that begins when a row is processed
  counts its write as invalidated, so that `FreshAnswers` speaks of that write.

## The notification feed and its projection

Notifications live in PostgreSQL; readers are served from an Elasticsearch index behind a
read alias. `NotificationFeed` is the data plane. A transaction that accepts, reads or
deletes a notification takes the writer fence, gives the row its next revision and appends a
job to `notification_outbox` (`BeginChange` draws the job's sequence, `CommitChange` makes
both visible: a lower sequence may commit after a higher one). A handler leases a job
(`Claim`), loads the *newest* document of the notification (`Load`), asks which indices
require the job (`Prepare`), and for each of them leases a delivery row
(`LeaseDelivery`), writes the document with its revision as external version (`Project`)
and acknowledges (`AcknowledgeDelivery`, which moves the contiguous checkpoint). `SettleJob`
ends it. `Reject`, `Unanswered`, `Deadline`, `LeaseLoss`, `StopAborted` and `CrashHandler` are
what goes wrong; `LapseJob` and `LapseDelivery` are the two leases running out, the second of
which is never extended and may end while its holder is writing.

`NotificationProjection` is the control plane: one operator command at a time, in the steps
between which it may crash (`CrashOperator`) and from which it can be started again.

| definition | code |
|---|---|
| `BeginChange`, `CommitChange` | `lockRecipientState`, `stage` and the mutations of the canonical repositories |
| `Claim`, `Held`, `Settled`, `RetryOrBury` | `claimBatch`, and the fence of `acknowledge`, `retry`, `deadLetter` |
| `Load`, `Continue`, `Project` | `NotificationFeedProjectionHandler.handle`, `projectMany` |
| `IsRequired`, `Prepare`, `LeaseDelivery`, `AcknowledgeDelivery`, `Advances` | the delivery repository |
| `SettleJob`, `Deadline`, `LeaseLoss` | `processJob` |
| `Initialize`, `ReadBatch`, `WriteBatch`, `RecordBackfillBatch`, `CompleteBackfill` | `notification:projection-rebuild` up to the backfill; `from` of a target is S0 |
| `CaptureS1`, `CatchUp` | `captureS1`, `catchupState` |
| `ReadLive`, `ReadGone`, `Scan`, `Repair`, `RecordReconciliation` | the reconciliation executor, with and without repair |
| `StartPromotion`, `BeginCutover`, `PromoteAlias`, `CommitPromotion` | `notification:projection-promote`; `finalizeCutover` in two steps, since the alias request is outside its transaction |
| `PlanRollback`, `BeginRollback`, `RollbackAlias`, `CommitRollback` | `notification:projection-rollback`, likewise |
| `CloseWindow`, `Retire`, `Replay`, `Discard` | `required_until`, the retention of targets, dead letters |

What is abstracted, and what is assumed:

* A document is its revision. Notifications have different recipients, so that only their own
  row orders the transactions that change them; a transaction changes one.
* `WritersDrained` is the exclusive fence, which waits for the transactions that hold it
  shared; `fence` is held across an alias request. Two commands never run at once, as the
  runbook asks.
* A lease token is the handler that holds it; the row of a handler that ended carries a
  token nobody knows. `valid` is `locked_until > now`.
* The backfill reads batches of one. The reconciliation reads the rows, then the
  tombstones, then the index at a point in time: three steps, between which everything else
  goes on, so that it may report, and with repair delete, what was delivered meanwhile.
* `required_until` is clock time, counted from the promotion (24 hours by default), and
  `CloseWindow` may happen at any time to any target in its window. When a rollback dies
  between the alias request and its commit and the window ends before the command is run
  again, or every repetition is refused because a delivery to the target is dead, the aliases
  stay on an index that no job is delivered to and that `Retire` may take out of service.
  Promotions and rollbacks then refuse, since the aliases are on neither of their two indices.
  What brings them back is the stand-alone alias repair, which is not modelled.

Properties:

* `ProcessedIsVisible`: as long as the index behind the aliases is fed (`Fed`), a job counts as
  processed only while its revision, or a later one, is in that index, through promotions,
  rollbacks and their crashes.
* `ProcessedEverywhere`: a processed job was delivered to every target it is owed to, also
  those that were added or changed places while it was handled.
* `IndexNeverAhead`: no index shows a revision that is not committed, whoever wrote it late
  or twice.
* `AliasIsFed` (action property): the aliases are on an index that new jobs go to, and move to
  no other. Time is all that can take this from them: the window of the rollback target they
  are on ends (`CloseWindow`). Once that has happened they stay where they are.
* `ProjectionInv`: the inductive invariant, which holds through all of this; it contains that
  there is one primary.
* `FollowsFeed`: the whole implements `FollowedFeed`. Readers see the revisions of a
  notification in order, and an index that takes over has them all. This holds on an index
  that is fed no more, too: the feed is late there, but it neither goes back nor runs ahead.
* `ReplayedIsProcessed` does **not** hold, see findings.

Proved, and checked by TLC on the constants of `notification_cutover` before, but listed in no
run:

* `DrainedIsExact`: when the jobs of a notification are processed and the index behind the
  aliases is fed, readers find its newest revision.
* `FeedNeverGoesBack`, `DeletedStaysDeleted` (action properties): readers never see an older
  revision than before, and a deletion they have seen is final, although indices compare
  versions only with what they hold themselves and the aliases move between them.
* `TombstonesAreKept`: the job that carries the tombstone of a notification is not discarded.
* `ProcessedStays` (action property): processed and discarded jobs, and processed deliveries,
  keep their status whoever settles them late.

## Findings

* `outbox_order`: a job that waited in its batch until its lease ran out is still
  dispatched, after a later event of the same project was delivered by another
  worker. The runbook says "Delivery is ordered per project." The order of *first*
  deliveries is kept and proved; a repetition may come late. What breaks the order is
  known exactly: `HoldersKeepOrder` excludes every job that holds its lease and was never
  buried, and `OrderedWithoutFaults` shows that without faults and replays the runbook is right.
* `receipt_regress`: a database phase that read `trust_data` before the projection of
  another session was applied writes the old projection back over it. The comment on
  the advisory lock says the lock protects these projections, but the projection
  listener does not take it. The loss is repaired when the plan of the overwriting
  phase lands, which `ProjectionsConverge` states and `Convergence` proves; that plan is
  saved at the moment of the loss (`RegressionsAreOwed`), and phases that do not rescore
  never cause one (`NoMergeNoRegression`).
* `cache_exact`: keys without a generation, such as `users:delivery_metrics:<id>`, are
  invalidated by deleting them. A load that began before a write may store the old
  value after the worker deleted the key and acknowledged the row, and it is served
  until it expires. The comment on the request-path helper says "The durable
  PostgreSQL outbox is the correctness guarantee."
* `notification_replay`: `replayDeadLetters` revives the job but not the delivery row that died
  with it when an index rejected the document for good. The next handler meets the dead
  delivery and buries the job again without asking the index. The runbook says "after
  successful replay it becomes processed".

## Runs

| run | instance | what it shows |
|---|---|---|
| `outbox_stream` | 2 events of one project, 2 workers, batches of 2, 2 attempts, 1 fault, fair | the inductive invariant, first deliveries and those of lease holders in order, bounded attempts, who settles, `EventuallySettled` |
| `outbox_batch` | 2 of 4 events on 2 aggregates (one without row lock), batches of 2, 1 attempt, 1 replay, 1 fault | stale batch jobs, exclusive leases, `OneLeasePerAggregate`, `KeepsPromise`, types |
| `outbox_order` | as `outbox_stream`, without fairness | counterexample to `DeliveryIsOrdered` |
| `receipt_handlers` | 2 rescoring sessions of one reviewee, 2 handlers, 4 revisions, 2 faults, fair | the inductive invariant, convergence, who may set a projection back, phase once, checkpoints, receipts move forward, `KeepsPlan`, `EventuallyCompleted` |
| `receipt_regress` | no fault at all | counterexample to `ProjectionNeverRegresses` |
| `cache_lookups` | 3 callers in 2 processes, 1 write, 2 tokens, 1 disturbance, shared flights without a key | freshness and its one exception, one load, fenced locks, `ImplementsFreshReads` |
| `cache_liveness` | 3 callers in 2 processes, 1 token, 2 disturbances, fair | `LookupsEnd` |
| `cache_outbox` | 2 writes, 2 workers, batches of 2, 1 reader, 3 tokens, 1 trouble | `ProcessedMeansFresh`, types |
| `cache_outbox_workers` | 2 writes, 2 workers, 3 troubles, no reader, fair | `AckedIsInvalidated`, `OneHolder`, `ProcessedIsFinal`, `EveryWriteSettles` |
| `cache_exact` | 1 write, 1 worker, 1 reader, a key without generation | counterexample to `ProcessedMeansFresh` |
| `notification_cutover` | 2 notifications, 2 indices, 2 handlers, 2 attempts, 2 changes and troubles together | the inductive invariant, the safety properties, `FollowsFeed` |
| `notification_replay` | 1 notification, 1 index, 1 handler, fair | counterexample to `ReplayedIsProcessed` |

Bounds: `MaxSeq`, `MaxReplays`, `MaxRevision` cap counters that only grow, `MaxFaults`
caps crashes, rollbacks, stalls and lost answers together. Two events of an aggregate
are enough for every order property, since each compares two rows; two workers are
enough for a row to be reclaimed while its old job is alive, two handlers for two on
one receipt or one on each. One fault produces a zombie, a stale lease or a lost
answer, two combine them. `MaxRevision` leaves room for a revision that is drawn and
rolled back. A run ends without deadlock: a worker with nothing to do polls
(`EmptyPoll`), and a quiet receipt system stutters (`Quiet`). Workers and events of one
aggregate are symmetric sets in `outbox_batch`, handlers in `notification_cutover`; runs that
check liveness use no symmetry.

In the cache runs `MaxVersion`, `MaxToken` and `MaxFaults` cap writes, tokens and
disturbances, `MaxTrouble` failed invalidations and statements, lost leases, crashes
and replays of the workers. Three callers in two processes are a leader, one who shares
its flight, and one who waits for its lock; a write and two tokens let a load, an
invalidation and a lookup after it overlap. One outage is enough for a flight without a key
that two callers share, with an invalidation between their beginnings. These runs say `CHECK_DEADLOCK FALSE`:
a system whose writes, tokens and disturbances are used up, and in which nobody looks
anything up or has a row left, stops. `LookupsEnd` and `EveryWriteSettles` are what
excludes that it stops earlier.

In the notification runs `MaxWork` caps the changes, and the troubles of workers and operator,
together: two changes whose commits cross, a change beside a crash, a rejected document beside
a stale handler. Two indices are one that serves and one that is built, promoted, rolled back
from and retired. A third index, and so a second rebuild, was checked apart with one
notification and one handler. These runs also say
`CHECK_DEADLOCK FALSE`, since the changes come to an end.

Every property of a passing run has a mutant in `PROJECT.json`: a plausible bug in one
definition (a dropped fence, an event that is not awaited, a comparison left out) that
makes TLC report the property violated.

## Fairness

`DomainEventOutboxWorker!Fairness`: transactions end and clocks advance; the command
polls in an endless loop and starts the jobs of its batch; `processJob` bounds each
handler with a deadline, so that each job ends (weak fairness per job); a stopped
process is started again by its supervisor. The claim of a row is strongly fair
because `claimBatch` orders by sequence: a due row cannot be passed over for ever by
younger ones, though it may be unclaimable now and then while others settle. Faults are
finitely many. `HandlerEffect` is not fair: a handler may hang for ever.

`ReviewReceipt!Fairness`: strong fairness of the call of the handler is what
`EventuallySettled` of the outbox gives, as long as the attempts of the event are not
used up; the steps of a running handler are weakly fair, since each is a database
statement or a call with a deadline.

`NotificationProjection!Fairness`, which only the counterexample uses: transactions end,
workers poll and handle, abandoned leases lapse and a command goes on to its end unless it
crashes. No progress of rebuilds is claimed (see the hazards on the checkpoint).

`CacheStore!StoreFairness`: a running caller gets on, since each of its steps is a Redis
command with a timeout, a load or a timer of Node; and a lock that no living owner
renews expires, since it was set with `PX`. Nothing is assumed of invalidations,
evictions or of locks that are renewed. `CacheInvalidationOutbox!Fairness`: the command
polls and settles what it claimed, and time passes a lease that no worker renews.

## Proofs

Safety is proved for all values of the constants that satisfy `RepositoryAssumption`,
`WorkerAssumption`, `ReceiptAssumption`, `CacheAssumption`, `OutboxAssumption` and
`FeedAssumption`: any number of events, aggregates, workers, handlers, callers, processes,
tokens, notifications, indices, retries and faults. The assumptions say that bounds are natural numbers, that
`None` is a fresh value, and that the functions on keys and confirmations are total.

`DomainEventOutboxProofs`. The inductive invariant is `OutboxInv` with the types.
`FirstDeliveryInOrder` is not inductive: that a row is delivered after its
predecessors follows from it having been *claimed* (`EffectInv`), and a claimed row has
only settled or once-buried predecessors (`ClaimInv`), which stays true because sequence
allocation leaves no open transaction behind (`AllocationInv`). Exclusive leases need
that tokens are never issued twice (`LeaseInv`), and `SettledByHolder` that a job's copy
of the attempt count is the row's for as long as it holds the lease (`JobInv`). The
table and the workers are treated apart (`TableStep`, `WorkStep`), and a third part
(`CareInv`) is about what a fault costs. `AttemptInv` says that a leased row which no worker
is going on with has fewer than `MaxAttempts + faults` attempts, since whoever gave it up
counted a fault; a retry needs an attempt below the limit; so a claim, the one step that
adds an attempt, stays within the bound. `HealthyInv` says that without faults every job
holds its lease, and that without replays what was buried stays a dead letter; it needs that a job
is in one place of its worker (`PlaceInv`), or a settled one could linger without its lease.
`HoldersKeepOrder` compares a lease holder with a later event that was delivered: that one was
claimed, so by `ClaimInv` the row of the holder would be settled already, unless it was buried
once. `OrderedWithoutFaults` follows from it by `HealthyInv`. Theorems: `TypeCorrect`, `Invariance`, `NothingLost`,
`FirstDeliveries`, `SerialLeases`, `ExclusiveLeases`, `HolderSettles`, `BoundedAttempts`,
`HoldersKeepOrder`, `OrderedWithoutFaults` (for `MaxFaults = 0` and `MaxReplays = 0`), and
`Refinement`, by mapping every action to an action of `OutboxDelivery` or a stutter.

`OutboxDeliveryProofs`. A refinement says as much as the abstract specification does, so
what `OutboxDelivery` means for a consumer is proved of it: `PromiseIsEnough` derives, from
its steps alone, that nothing is closed unserved, only committed events are served, and
first deliveries of a serialised aggregate are in order. The step that carries it is
`StageEvent`: a serialised aggregate numbers its events in the order it commits them, so
that no event can appear behind one that was served.

`ReviewReceiptProofs`. The inductive invariant is `ReceiptInv`. Its core is
`LandedInv`: a projection that landed is still in the users row, or was replaced by a
newer one, or was overwritten by a transaction whose own, newer revision has still to
land. It needs that revisions are drawn under the advisory lock in the order in which
they commit (`DrawnInv`), hence that a later one covers the reviews of an earlier one
(`OrderInv`), and that whatever is read from or written to the row is a saved revision
(`StoredInv`). When every plan is completed the third case of `LandedInv` is
impossible, the row holds the newest revision, and `OrderInv` makes it cover all
reviews: that is `Convergence`. The same invariant tells who may set a projection back:
the users row is written by the guarded update, which only goes up, and by the commit of a
rescoring phase, whose own revision is newer than anything stored when it was drawn; so
`RegressionsAreOwed`, and with no rescoring phase `NoMergeNoRegression`. The other theorems
are `TypeCorrect`, `Invariance`, `PhaseOnce`, `Checkpoints`, `NoCollision`, `Forward` and
`Refinement`.

`EffectPlanProofs`. Of `EffectPlan` itself: effects are a prefix of a recorded plan and the
whole of a finished one (`PlanIsEnough`), none is taken back and a finished plan is closed
(`PlansMoveOn`).

`CacheStoreProofs`. `LoadedOnce` follows from `FlightInv`: undisturbed, the lock
serialises the readers of a key from their second look until the value is stored
(`Serialised`), and a load that was made has left its value or is about to store it.
`FreshAnswers` follows from `GenerationInv`: the current token is at least as young as
the last invalidation, a stored value at least as young as the token it is stored under
(`TokenInv`), hence what a reader has is at least as young as its token, which is as
young as its lookup (`ReaderInv`); callers who join a flight have the key of its leader
(`JoinInv`). With a physical key its token is what makes the leader's value young enough
for everyone who joined; without one nothing does, and the value is as young as the
leader's own lookup, which is what `Basis` says and `Share` of `FreshReads` allows. Both `FreshGenerations` and `Implementation` are proved under
`~Exact`; without generations `cache_exact` shows what is lost. `StoreTypeCorrect`,
`OneLoad` and `LockIsFenced` hold for both kinds of keys, and so does `FlightsAreLed`: a
caller that joined a flight has a leader to wait for, after crashes too.

`CacheInvalidationOutboxProofs`. `SweptInv` says that the jobs of a worker whose sweep
succeeded are writes that the last invalidation covers; a job enters a batch only by a
claim, which forgets the sweep. With it `AcknowledgedAfterInvalidation`, and with
`GenerationInv`, `ProcessedIsFresh`. What is proved of `CacheStore` is cited through the lemma
`OutboxKeepsStore`, which holds by the shape of the module: its actions extend those of
`CacheStore` or leave the cache alone.
`ProcessedRowsStay` needs the fence alone, `OutboxTypeCorrect` also says that a row
exists exactly when its write committed. `LeasesExclude` rests on `ClaimInv`: claim numbers,
which stand for lease tokens, are drawn once for a row and belong to one job of one worker, and
the fence lets only the last of them settle. `BoundedInvalidations` rests on `SpentInv`, which counts as `AttemptInv`
does above. `OutboxKeepsThePromise` and `LookupsSeeProcessedRows` close the chain from a
write to its readers, with generations: the row is acknowledged after an invalidation that
covers the write, a lookup that begins later counts the write, and it answers with nothing
older than it counts, or, in a flight shared without a key, than the leader of the flight
counts.

`NotificationProjectionProofs`. The inductive invariant is `ProjectionInv`. Its core is
`NothingLost`: of a target that has been checked (`Trusted`), every job up to its S0 and every
job delivered to it is in its index. Targets become trusted in the reconciliation of a
promotion, without repair; there the rows and tombstones that were read stand for what the
scan will find (`Known`, `Seen`), since anything delivered after the reading is in the index
anyway and anything committed before S0 was read or superseded. `DrawInv` says that a transaction
that is open when a target starts counts as one that is delivered to it, which is what the
fence around `Initialize` is for. `HandlerInv` carries `ProcessedEverywhere` through a handler:
each target its job is owed to is done, under way or still on its list, also when a target is
registered, promoted or rolled back meanwhile. `OpInv` and `RunInv` tie the command, its run and
the one building target together, and `PrimaryInv` the aliases with the targets: there is one
primary, and the aliases are on a building target only in an approved cutover. Nothing in the
invariant asks that the aliases be on a fed index, which time can undo. A rollback whose
window ends behind its alias request may still commit, and its target is trusted then although
it was fed no more: `HoldsFence` says that the fence has been held since its deliveries were
counted, so that no job was committed meanwhile.
`AliasIsFed` follows step by step: only the two alias requests move the aliases, to a target
whose window is read under the fence or to the building one, and of all other steps only
`CloseWindow` takes a target from those that are fed (`KeepsFed`).
`ProcessedIsVisible` follows as well: a fed target behind the aliases is trusted and owed to
(`Visible`). For `FollowsFeed` the alias request finds every newest revision in the index that
takes over (`NothingMissing`: the newest revision has a job, and no job is incomplete), and
rebuilds write only into an index nobody reads (`BuildingUnseen`). Theorems: `TypeCorrect`,
`Invariance`, `NeverAhead`, `DeliveredEverywhere`, `AliasFed`, `ProcessedVisible` and
`Implementation`.

On the same invariant rest the theorems about what never comes back: `ProcessedIsKept`, from
the fences of jobs and deliveries; `DeletionsAreDelivered`, since a discard asks whether the
job carries the tombstone, and a tombstone is newer than whatever was given up before it; `DrainedFeedIsExact`, from `Visible` and
`NeverAhead`; `FeedIsMonotonic`, where the aliases move only to an index with nothing
missing; and `DeletionsAreFinal`, since the revision of a tombstone is the last of its
notification.

Every theorem was checked by TLC on small instances first: as a property of a run, or, for
those marked so above, on the constants of a run; those of `OutboxDeliveryProofs` and
`EffectPlanProofs` on the two abstract specifications, with four events of two aggregates
and with three plans. Two of the theorems assume something of the
constants beyond the modules' assumptions, each to say where a counterexample comes from:
`OrderedWithoutFaults` and `NoMergeNoRegression`. `~Exact` is the case of keys with a
generation.

Only model-checked: the four liveness properties (fairness and ENABLED are outside the
prover). The four counterexamples are TLC's.

## Not modelled, and why

* In the outbox: the compatibility listeners, which run best effort after the durable
  handlers; the sleep times, jitter and metrics of the worker; the audit row of a
  replay; the read-only administration queries. An event that kills every worker that
  runs it is never counted out, because attempts are compared only after a handler
  returns; liveness excludes it by `MaxFaults`, and `AttemptsAreBounded` says how many
  attempts that takes.
* In the receipts: the values of scores; the other publishers of the talent projection
  event, which draw from the same sequence; the credibility of reviewers, which a phase
  writes for users other than the one it locked; the permanent errors of
  `assertAuthoritativeSource`, for an event that contradicts the review or dispute it names.
  Such an event ends as a dead letter of the outbox without a receipt; `EventuallyCompleted`
  is about events that agree with their source.
* In the cache: the in-memory driver of tests and single processes; `set`, `delete` and
  the counters and scripts that other modules run through the store; the deletion of
  glob patterns by pages of `SCAN`, which is not atomic (a hazard); the queries that
  read and set their key without `remember`, such as that of the public tasks.
* In the cache invalidation outbox: the audit row of a replay, metrics, the read-only
  status queries, more than one runner per worker, and patterns other than that of the
  one key, which are invalidated beside it.
* In the notification feed: the unread cache and the other destinations of the outbox, which are
  jobs of their own; commands that change several notifications; reconciliation and repair of
  the aliases as commands of their own (the repair moves the aliases to the primary without the
  fence and without counting what is incomplete there, so that readers may go back until the
  jobs under way are delivered); two commands at once; retention other than that of
  targets; realtime push.
* The components marked planned above.

## Plan

In this order, the most consequential for data first:

1. `SearchProjection`: facts, `user_talent` events whose sequence order is not their
   commit order, reads of the database before an index write with an external version,
   swallowed conflicts, publication receipts. Abstract specification: a set of
   documents that converges to the facts. To prove: an acknowledged receipt is indexed.
2. `SearchIndexCutover`: aliases, ledger, fence, reconciliation after a crash. To
   prove: at most one active generation per index, agreement after reconciliation.
3. `TaskAssignment`: assignment, applications, revocation and status. To prove: one
   active assignment.
4. `NotificationFanout`; the stand-alone reconciliation of `NotificationProjection`.
5. `TaskReviewWorkflow` and `AiDisputeEvaluation`.
6. `OrganizationMembership`; then projects and sprints.
7. A composition of `DomainEventOutboxWorker` with `ReviewReceipt`, in which the calls of
   the handler are the deliveries of the outbox and the strong fairness of the receipts
   is derived from that of the workers.
8. Deletion of glob patterns by `SCAN` beside fills, as an extension of `CacheStore`.
