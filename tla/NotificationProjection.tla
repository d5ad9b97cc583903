----------------------- MODULE NotificationProjection -----------------------
(***************************************************************************)
(* The control plane of the notification feed: an operator rebuilds a new  *)
(* index while the writers and the workers of NotificationFeed go on,      *)
(* promotes it, rolls back to the former one, lets the window close, and   *)
(* replays or discards dead letters.                                       *)
(*                                                                         *)
(* One operator runs one command at a time, as the runbook asks; any       *)
(* command may stop between two of its calls and be started again.  The    *)
(* backfill takes its rows in batches of one; the reconciliation reads the *)
(* rows in one batch, then the tombstones, then scans the index at a point *)
(* in time.                                                                *)
(***************************************************************************)
EXTENDS NotificationFeed

VARIABLES
    run,      \* the last row of notification_projection_runs
    op,       \* the command that is running and what it holds in memory
    replayed  \* jobs the operator has replayed

vars == <<feedVars, run, op, replayed>>

NoDocs == [n \in Notification |-> 0]
NoRun == [status |-> "none", to |-> 0, source |-> 0, s0 |-> 0, rows |-> 0, tombs |-> 0]
Idle == [cmd |-> "none", pc |-> "idle", tombs |-> FALSE, doc |-> 0, rev |-> 0, s1 |-> 0,
         repair |-> FALSE, live |-> NoDocs, gone |-> NoDocs, fix |-> NoDocs, extra |-> {},
         passed |-> FALSE, from |-> 0, to |-> 0]

Unfinished == {"initialized", "backfilling", "catching_up", "reconciling", "ready", "cutting_over"}
Docs == [Notification -> Nat]
Run == [status : Unfinished \cup {"none", "completed"}, to : 0..MaxTarget, source : 0..MaxTarget,
        s0 : 0..MaxWork, rows : 0..MaxNote, tombs : 0..MaxNote]
Command == [cmd : {"none", "rebuild", "promote", "rollback"},
            pc : {"idle", "read", "write", "mark", "capture", "catchup", "live", "gone", "scan",
                  "repair", "record", "begin", "swap", "commit"},
            tombs : BOOLEAN, doc : 0..MaxNote, rev : Nat, s1 : 0..MaxWork,
            repair : BOOLEAN, live : Docs, gone : Docs, fix : Docs, extra : SUBSET Notification,
            passed : BOOLEAN, from : 0..MaxTarget, to : 0..MaxTarget]

TypeOK ==
    /\ FeedTypeOK
    /\ run \in Run
    /\ op \in Command
    /\ replayed \in SUBSET Seqs

Init == FeedInit /\ run = NoRun /\ op = Idle /\ replayed = {}

Goes(pc) == op' = [op EXCEPT !.pc = pc]
Ends == op' = Idle

-----------------------------------------------------------------------------
(* notification:projection-rebuild *)

\* initialize, with S0 read behind the writers.
Initialize(t) ==
    /\ op = Idle
    /\ run.status \notin Unfinished
    /\ WritersDrained
    /\ target[t].status = "absent"
    /\ \A u \in Target : u < t => target[u].status # "absent"
    /\ \E p \in Target, s0 \in 0..MaxWork :
          /\ target[p].status = "primary"
          /\ IsWatermark(s0)
          /\ target' = [target EXCEPT ![t] = [NoTarget EXCEPT !.status = "building", !.from = s0]]
          /\ run' = [NoRun EXCEPT !.status = "initialized", !.to = t, !.source = p, !.s0 = s0]
    /\ op' = [Idle EXCEPT !.cmd = "rebuild", !.pc = "read"]
    /\ UNCHANGED <<canonVars, rowVars, index, alias, fence, handler, trouble, replayed>>

\* The command is run again on the run it finds; a ready one is reconciled anew.
ResumeRebuild ==
    /\ op = Idle
    /\ run.status \in Unfinished \ {"cutting_over"}
    /\ op' = [Idle EXCEPT !.cmd = "rebuild",
                          !.pc = IF run.status \in {"initialized", "backfilling"} THEN "read" ELSE "capture"]
    /\ UNCHANGED <<feedVars, run, replayed>>

\* What activeBatch or tombstoneBatch finds after the cursor of the run.
Remaining ==
    IF op.tombs THEN {n \in Notification : canon[n].state = "deleted" /\ n > run.tombs}
    ELSE {n \in Notification : canon[n].state \in {"unread", "read"} /\ n > run.rows}

ReadBatch ==
    /\ op.pc = "read"
    /\ run' = [run EXCEPT !.status = "backfilling"]
    /\ \/ \E n \in Remaining :
             /\ \A m \in Remaining : n <= m
             /\ op' = [op EXCEPT !.pc = "write", !.doc = n, !.rev = canon[n].rev]
       \/ /\ Remaining = {} /\ ~op.tombs
          /\ op' = [op EXCEPT !.tombs = TRUE]
    /\ UNCHANGED <<feedVars, replayed>>

\* projectMany into the new index.
WriteBatch ==
    /\ op.pc = "write"
    /\ index' = [index EXCEPT ![run.to][op.doc] = Larger(@, op.rev)]
    /\ Goes("mark")
    /\ UNCHANGED <<canonVars, rowVars, target, alias, fence, handler, trouble, run, replayed>>

\* Mutant of RecordBackfillBatch: the cursor is moved past the row.
RecordBackfillBatchPast ==
    /\ op.pc = "mark"
    /\ run' = IF op.tombs THEN [run EXCEPT !.tombs = op.doc + 1] ELSE [run EXCEPT !.rows = op.doc + 1]
    /\ op' = [op EXCEPT !.pc = "read", !.doc = 0, !.rev = 0]
    /\ UNCHANGED <<feedVars, replayed>>

RecordBackfillBatch ==
    /\ op.pc = "mark"
    /\ run' = IF op.tombs THEN [run EXCEPT !.tombs = op.doc] ELSE [run EXCEPT !.rows = op.doc]
    /\ op' = [op EXCEPT !.pc = "read", !.doc = 0, !.rev = 0]
    /\ UNCHANGED <<feedVars, replayed>>

\* No tombstone is left: the checkpoint becomes S0.
CompleteBackfill ==
    /\ op.pc = "read" /\ op.tombs /\ Remaining = {}
    /\ target' = [target EXCEPT ![run.to].checkpoint = run.s0]
    /\ run' = [run EXCEPT !.status = "catching_up"]
    /\ op' = [op EXCEPT !.pc = "capture", !.tombs = FALSE]
    /\ UNCHANGED <<canonVars, rowVars, index, alias, fence, handler, trouble, replayed>>

\* captureS1, behind the writers; a promotion asks the same of a ready run.
CaptureS1 ==
    /\ op.pc = "capture"
    /\ WritersDrained
    /\ \E s1 \in 0..MaxWork :
          /\ IsWatermark(s1)
          /\ op' = [op EXCEPT !.pc = "catchup", !.s1 = s1]
    /\ UNCHANGED <<feedVars, run, replayed>>

\* Committed jobs of a range that the target has no processed delivery of.
Incomplete(t, above, through) ==
    {s \in Committed : above < s /\ s <= through /\ delivery[s][t].status # "processed"}

CaughtUp ==
    /\ \A s \in Committed : run.s0 < s /\ s <= op.s1 => s <= target[run.to].checkpoint
    /\ run.s0 <= target[run.to].checkpoint
    /\ Incomplete(run.to, run.s0, op.s1) = {}

\* Otherwise the command ends with waiting_for_catchup, or fails.
CatchUp ==
    /\ op.pc = "catchup"
    /\ IF CaughtUp
       THEN op' = [op EXCEPT !.pc = "live", !.s1 = 0, !.repair = (op.cmd = "rebuild")]
       ELSE Ends
    /\ UNCHANGED <<feedVars, run, replayed>>

-----------------------------------------------------------------------------
(* Reconciliation *)

ReadLive ==
    /\ op.pc = "live"
    /\ run' = [run EXCEPT !.status = "reconciling"]
    /\ op' = [op EXCEPT !.pc = "gone",
                        !.live = [n \in Notification |->
                                     IF canon[n].state \in {"unread", "read"} THEN canon[n].rev ELSE 0]]
    /\ UNCHANGED <<feedVars, replayed>>

ReadGone ==
    /\ op.pc = "gone"
    /\ op' = [op EXCEPT !.pc = "scan",
                        !.gone = [n \in Notification |->
                                     IF canon[n].state = "deleted" THEN canon[n].rev ELSE 0]]
    /\ UNCHANGED <<feedVars, run, replayed>>

\* A notification deleted between the two reads comes up twice and counts as missing once.
Expected(n) == Larger(op.live[n], op.gone[n])
Twice == {n \in Notification : op.live[n] > 0 /\ op.gone[n] > 0}

Scan ==
    LET at == index[run.to]
        behind == {n \in Notification : at[n] < Expected(n)}
        extra == {n \in Notification : at[n] > 0 /\ Expected(n) = 0}
        same == \A n \in Notification : at[n] = Expected(n)
        repairs == op.repair /\ behind \cup extra \cup Twice # {}
    IN  /\ op.pc = "scan"
        /\ op' = [op EXCEPT !.pc = IF repairs THEN "repair" ELSE "record",
                            !.live = NoDocs, !.gone = NoDocs,
                            !.fix = IF repairs
                                    THEN [n \in Notification |-> IF n \in behind THEN Expected(n) ELSE 0]
                                    ELSE NoDocs,
                            !.extra = IF repairs THEN extra ELSE {},
                            !.repair = repairs,
                            !.passed = same /\ Twice = {}]
        /\ UNCHANGED <<feedVars, run, replayed>>

\* Missing and stale documents are projected, extra ones deleted whatever their version.
Repair ==
    /\ op.pc = "repair"
    /\ index' = [index EXCEPT ![run.to] = [n \in Notification |->
                     IF n \in op.extra THEN 0 ELSE Larger(@[n], op.fix[n])]]
    /\ op' = [op EXCEPT !.pc = "record", !.fix = NoDocs, !.extra = {}]
    /\ UNCHANGED <<canonVars, rowVars, target, alias, fence, handler, trouble, run, replayed>>

\* A repaired index is reconciled once more, without repair.
RecordReconciliation ==
    /\ op.pc = "record"
    /\ run' = [run EXCEPT !.status = IF op.passed THEN "ready" ELSE "reconciling"]
    /\ target' = [target EXCEPT ![run.to].checked = op.passed]
    /\ \/ op.passed /\ op.cmd = "promote" /\ op' = [Idle EXCEPT !.cmd = "promote", !.pc = "begin"]
       \/ op.passed /\ op.cmd = "rebuild" /\ Ends
       \/ ~op.passed /\ op.repair /\ op' = [Idle EXCEPT !.cmd = "rebuild", !.pc = "live"]
       \/ ~op.passed /\ ~op.repair /\ Ends
    /\ UNCHANGED <<canonVars, rowVars, index, alias, fence, handler, trouble, replayed>>

-----------------------------------------------------------------------------
(* notification:projection-promote *)

\* A ready run is checked afresh; one that is cutting over goes on.
StartPromotion ==
    /\ op = Idle
    /\ \/ run.status = "ready" /\ op' = [Idle EXCEPT !.cmd = "promote", !.pc = "capture"]
       \/ run.status = "cutting_over" /\ op' = [Idle EXCEPT !.cmd = "promote", !.pc = "swap"]
    /\ UNCHANGED <<feedVars, run, replayed>>

BeginCutover ==
    /\ op.pc = "begin" /\ op.cmd = "promote"
    /\ run' = [run EXCEPT !.status = "cutting_over"]
    /\ Goes("swap")
    /\ UNCHANGED <<feedVars, replayed>>

\* Both aliases move in one request unless they have moved already.
SwapAlias(to) ==
    /\ alias' = to
    /\ fence' = op.cmd
    /\ Goes("commit")
    /\ UNCHANGED <<canonVars, rowVars, target, index, handler, trouble, run, replayed>>

\* A command that throws under the fence leaves nothing behind.
Refuse == Ends /\ UNCHANGED <<feedVars, run, replayed>>

\* Mutant of PromoteAlias: the checkpoint is trusted, deliveries are not counted.
PromoteAliasAtCheckpoint ==
    /\ op.pc = "swap" /\ op.cmd = "promote"
    /\ WritersDrained
    /\ IF (\A s \in Committed : s <= target[run.to].checkpoint) /\ alias \in {run.source, run.to}
       THEN SwapAlias(run.to)
       ELSE Refuse

\* finalizeCutover up to the alias request.
PromoteAlias ==
    /\ op.pc = "swap" /\ op.cmd = "promote"
    /\ WritersDrained
    /\ IF Incomplete(run.to, run.s0, MaxWork) = {} /\ alias \in {run.source, run.to}
       THEN SwapAlias(run.to)
       ELSE Refuse

\* notification_projection_targets_one_primary_idx, when the primary is one of S.
OnlyPrimary(S) == \A u \in Target : target[u].status = "primary" => u \in S

\* The rest of its transaction, which a target that is not promotable or another
\* primary rolls back.
CommitPromotion ==
    /\ op.pc = "commit" /\ op.cmd = "promote"
    /\ IF target[run.to].status = "building" /\ target[run.to].checked /\ OnlyPrimary({run.source, run.to})
       THEN /\ target' = [target EXCEPT
                    ![run.source] = IF @.status = "primary"
                                    THEN [@ EXCEPT !.status = "rollback", !.window = TRUE, !.checked = TRUE]
                                    ELSE @,
                    ![run.to].status = "primary"]
            /\ run' = [run EXCEPT !.status = "completed"]
       ELSE UNCHANGED <<target, run>>
    /\ fence' = "free"
    /\ Ends
    /\ UNCHANGED <<canonVars, rowVars, index, alias, handler, trouble, replayed>>

-----------------------------------------------------------------------------
(* notification:projection-rollback *)

Eligible(t) == target[t].status = "rollback" /\ target[t].window

\* rollbackPlan.
PlanRollback(p, t) ==
    /\ op = Idle
    /\ target[p].status = "primary"
    /\ Eligible(t) /\ target[t].checked
    /\ target[t].checkpoint >= target[p].checkpoint
    /\ Incomplete(t, target[t].from, target[p].checkpoint) = {}
    /\ alias \in {p, t}
    /\ op' = [Idle EXCEPT !.cmd = "rollback", !.pc = "begin", !.from = p, !.to = t]
    /\ UNCHANGED <<feedVars, run, replayed>>

\* beginRollback; the approval it records is not modelled.
BeginRollback ==
    /\ op.pc = "begin" /\ op.cmd = "rollback"
    /\ WritersDrained
    /\ IF Eligible(op.to) THEN Goes("swap") ELSE Ends
    /\ UNCHANGED <<feedVars, run, replayed>>

\* Mutant of RollbackAlias: the window is not read again under the fence.
RollbackAliasAsPlanned ==
    /\ op.pc = "swap" /\ op.cmd = "rollback"
    /\ WritersDrained
    /\ IF Incomplete(op.to, target[op.to].from, MaxWork) = {} /\ alias \in {op.from, op.to}
       THEN SwapAlias(op.to)
       ELSE Refuse

\* finalizeRollback up to the alias request.
RollbackAlias ==
    /\ op.pc = "swap" /\ op.cmd = "rollback"
    /\ WritersDrained
    /\ IF /\ target[op.from].status = "primary" /\ Eligible(op.to)
          /\ Incomplete(op.to, target[op.to].from, MaxWork) = {}
          /\ alias \in {op.from, op.to}
       THEN SwapAlias(op.to)
       ELSE Refuse

\* The former primary inherits the end of the window.
CommitRollback ==
    /\ op.pc = "commit" /\ op.cmd = "rollback"
    /\ target' = [target EXCEPT
            ![op.from] = [@ EXCEPT !.status = "rollback", !.window = target[op.to].window],
            ![op.to] = [@ EXCEPT !.status = "primary", !.window = FALSE]]
    /\ fence' = "free"
    /\ Ends
    /\ UNCHANGED <<canonVars, rowVars, index, alias, handler, trouble, run, replayed>>

-----------------------------------------------------------------------------
(* Time, dead letters, crashes *)

\* required_until passes, wherever the aliases are.
CloseWindow(t) ==
    /\ Eligible(t)
    /\ target' = [target EXCEPT ![t].window = FALSE]
    /\ UNCHANGED <<canonVars, rowVars, index, alias, fence, handler, trouble, run, op, replayed>>

\* retireExpiredProjectionTargets, under the fence and never during a run.
Retire(t) ==
    /\ target[t].status = "rollback" /\ ~target[t].window
    /\ fence = "free" /\ WritersDrained
    /\ run.status \notin Unfinished
    /\ target' = [target EXCEPT ![t].status = "retired"]
    /\ UNCHANGED <<canonVars, rowVars, index, alias, fence, handler, trouble, run, op, replayed>>

\* replayDeadLetters: the row of the outbox, not its deliveries.
Replay(s) ==
    /\ outbox[s].status = "dead_letter"
    /\ s \notin replayed
    /\ outbox' = [outbox EXCEPT ![s] = [@ EXCEPT !.status = "pending", !.attempts = 0]]
    /\ replayed' = replayed \cup {s}
    /\ UNCHANGED <<canonVars, delivery, target, index, alias, fence, handler, trouble, run, op>>

\* A job that is not a tombstone's may be given up.
Discard(s) ==
    /\ outbox[s].status = "dead_letter"
    /\ canon[outbox[s].note].state # "deleted" \/ outbox[s].rev < canon[outbox[s].note].rev
    /\ outbox' = [outbox EXCEPT ![s].status = "discarded"]
    /\ UNCHANGED <<canonVars, delivery, target, index, alias, fence, handler, trouble, run, op, replayed>>

\* A command stops; its open transaction is rolled back.
CrashOperator ==
    /\ op # Idle
    /\ Trouble
    /\ Ends
    /\ fence' = "free"
    /\ UNCHANGED <<canonVars, rowVars, target, index, alias, handler, run, replayed>>

RebuildStep == ReadBatch \/ WriteBatch \/ RecordBackfillBatch \/ CompleteBackfill \/ CaptureS1 \/ CatchUp
ReconcileStep == ReadLive \/ ReadGone \/ Scan \/ Repair \/ RecordReconciliation
PromoteStep == BeginCutover \/ PromoteAlias \/ CommitPromotion
RollbackStep == BeginRollback \/ RollbackAlias \/ CommitRollback
CommandStep == RebuildStep \/ ReconcileStep \/ PromoteStep \/ RollbackStep

Next ==
    \/ FeedNext /\ UNCHANGED <<run, op, replayed>>
    \/ ResumeRebuild \/ StartPromotion
    \/ \E t \in Target : \/ Initialize(t) \/ CloseWindow(t) \/ Retire(t)
                         \/ \E p \in Target : PlanRollback(p, t)
    \/ CommandStep
    \/ \E s \in Seqs : Replay(s) \/ Discard(s)
    \/ CrashOperator

Spec == Init /\ [][Next]_vars

\* Transactions end, workers poll and handle, abandoned leases lapse, and a command
\* that was started goes on to its end unless it crashes.
Fairness ==
    /\ WF_vars(\E n \in Notification : CommitChange(n) /\ UNCHANGED <<run, op, replayed>>)
    /\ WF_vars(\E w \in Handler, s \in Seqs : Claim(w, s) /\ UNCHANGED <<run, op, replayed>>)
    /\ \A w \in Handler : WF_vars((HandlerStep(w) \/ StopAborted(w)) /\ UNCHANGED <<run, op, replayed>>)
    /\ \A s \in Seqs :
          /\ WF_vars(LapseJob(s) /\ Abandoned(outbox[s].by) /\ UNCHANGED <<run, op, replayed>>)
          /\ \A t \in Target :
                WF_vars(LapseDelivery(s, t) /\ Abandoned(delivery[s][t].by) /\ UNCHANGED <<run, op, replayed>>)
    /\ WF_vars(CommandStep)

FairSpec == Spec /\ Fairness

-----------------------------------------------------------------------------
(* Properties *)

\* No index shows a revision that the canonical store has not reached, whatever was
\* written late, twice or by a repair (projectMany, loadLatestDocument).
IndexNeverAhead ==
    \A t \in Target, n \in Notification : index[t][n] <= canon[n].rev

\* Targets that new jobs are delivered to.
Fed(t) == target[t].status \in {"primary", "building"} \/ Eligible(t)

\* A job counts as processed only while its revision, or a later one, is in the index
\* readers use, as long as that index is fed: through promotions, rollbacks and crashes
\* between the alias request and its commit (NotificationFeedProjectionHandler.handle,
\* finalizeCutover, finalizeRollback).
ProcessedIsVisible ==
    Fed(alias) =>
        \A s \in Seqs : outbox[s].status = "processed" => outbox[s].rev <= index[alias][outbox[s].note]

\* Targets that are written or may take over again, for the jobs after their start.
Owed(t, s) == Fed(t) /\ s > target[t].from

\* A feed job is processed only when every target its sequence requires has it, also
\* the targets that were added or changed places while it was handled
\* (prepareRequiredDeliveries, finalizeCutover, finalizeRollback).
ProcessedEverywhere ==
    \A s \in Seqs, t \in Target :
        outbox[s].status = "processed" /\ Owed(t, s) => delivery[s][t].status = "processed"

\* The aliases are on an index that new jobs are delivered to, and move to no other.
\* What takes that away from them is time alone: the window of the rollback target
\* they are on ends, after a rollback moved them there and did not commit
\* (finalizeCutover, finalizeRollback, retireExpiredProjectionTargets).
AliasIsFed ==
    [][\/ Fed(alias)'
       \/ CloseWindow(alias)
       \/ ~Fed(alias) /\ alias' = alias]_vars

\* Rows, sequence numbers and canonical revisions: the newest revision has its job, and
\* only a job that exists has been delivered.
RowInv ==
    /\ \A s \in Committed : /\ s <= drawn
                             /\ outbox[s].note \in Notification
                             /\ outbox[s].rev \in 1..canon[outbox[s].note].rev
    /\ \A s \in Seqs, t \in Target : delivery[s][t].status = "processed" => s \in Committed
    /\ \A n \in Notification :
          /\ canon[n].state = "none" => canon[n].rev = 0
          /\ canon[n].rev > 0 =>
                \E s \in Committed : outbox[s].note = n /\ outbox[s].rev = canon[n].rev

\* An open transaction has a number of its own, above the start of every target.
DrawInv ==
    /\ \A t \in Target : target[t].from <= drawn
    /\ \A n \in Notification : open[n] > 0 =>
          /\ open[n] <= drawn
          /\ open[n] \notin Committed
          /\ \A t \in Target : target[t].from < open[n]
          /\ \A m \in Notification : open[m] = open[n] => m = n

\* A handler works on a job that exists, and its document is one of its revisions or
\* a later one; the targets its job is owed to are done or still ahead of it.
OnCourse(w) ==
    LET h == handler[w] IN
    /\ h.pc # "free" => h.job \in Committed
    /\ h.pc \notin {"free", "load"} => h.rev \in outbox[h.job].rev..canon[outbox[h.job].note].rev
    /\ h.pc \in {"lease", "project", "ack"} => h.at \in Target
    /\ h.pc \in {"lease", "project", "ack", "done"} =>
          \A t \in Target : Owed(t, h.job) =>
              \/ delivery[h.job][t].status = "processed"
              \/ h.pc # "done" /\ h.at = t
              \/ h.pc # "done" /\ \E i \in h.todo : i.to = t

HandlerInv == \A w \in Handler : OnCourse(w)

\* While a rollback holds the fence nothing is committed, and its target still has all.
HoldsFence ==
    /\ fence = "rollback" /\ WritersDrained
    /\ Incomplete(op.to, target[op.to].from, MaxWork) = {}

\* The command and its run belong together; what it read is not ahead of the rows.
OpInv ==
    /\ op.pc \in {"read", "write", "mark"} =>
          op.cmd = "rebuild" /\ run.status \in {"initialized", "backfilling"}
    /\ op.pc \in {"write", "mark"} => op.doc \in Notification /\ op.rev <= canon[op.doc].rev
    /\ op.pc \in {"capture", "catchup", "live", "gone", "scan", "repair", "record"} =>
          op.cmd \in {"rebuild", "promote"} /\ run.status \in {"catching_up", "reconciling", "ready"}
    /\ op.repair \/ op.pc = "repair" => op.cmd = "rebuild"
    /\ \A n \in Notification :
          op.live[n] <= canon[n].rev /\ op.gone[n] <= canon[n].rev /\ op.fix[n] <= canon[n].rev
    /\ op.cmd = "promote" =>
          /\ op.pc = "begin" => run.status = "ready"
          /\ op.pc \in {"swap", "commit"} => run.status = "cutting_over"
          /\ op.pc = "commit" => alias = run.to
    /\ op.cmd = "rollback" =>
          /\ op.from \in Target /\ op.to \in Target
          /\ op.pc \in {"begin", "swap", "commit"}
          /\ op.pc = "commit" =>
                /\ alias = op.to /\ HoldsFence
                /\ target[op.to].status = "rollback" /\ target[op.from].status = "primary"

\* One target is primary, and the aliases are on one that was registered; a building one
\* has them only while an approved cutover is unfinished.
PrimaryInv ==
    /\ \E p \in Target : {t \in Target : target[t].status = "primary"} = {p}
    /\ target[alias].status # "absent"
    /\ target[alias].status = "building" => run.status = "cutting_over" /\ run.to = alias

\* An unfinished run fills the one target that is building.
RunInv ==
    /\ run.status \in Unfinished =>
          run.to \in Target /\ target[run.to].status = "building" /\ target[run.to].from = run.s0
    /\ \A t \in Target : target[t].status = "building" => run.status \in Unfinished /\ t = run.to

\* The reconciliation of a promotion, and the least it will expect of n.
Checking == op.cmd = "promote" /\ op.pc \in {"gone", "scan"}

Known(n) ==
    IF op.pc = "gone" THEN IF canon[n].state = "deleted" THEN canon[n].rev ELSE op.live[n]
    ELSE Expected(n)

Seen(t, n, r) == r <= index[t][n] \/ (t = run.to /\ Checking /\ r <= Known(n))

\* Targets that are checked, being checked or have served.
Trusted(t) ==
    \/ target[t].status \in {"primary", "rollback"}
    \/ t = run.to /\ run.status = "cutting_over"
    \/ /\ t = run.to /\ op.cmd = "promote"
       /\ op.pc \in {"gone", "scan", "begin"} \/ (op.pc = "record" /\ op.passed)

\* Nothing that came before a trusted target or was delivered to it is missing there.
NothingLost ==
    \A t \in Target : Trusted(t) =>
        /\ \A s \in Committed :
              s <= target[t].from \/ delivery[s][t].status = "processed" =>
                  Seen(t, outbox[s].note, outbox[s].rev)
        /\ \A w \in Handler :
              handler[w].pc = "ack" /\ handler[w].at = t =>
                  Seen(t, outbox[handler[w].job].note, handler[w].rev)

\* What the properties above and the refinement below rest on, and inductive with them:
\* how rows, handlers, the command, the run and the targets fit together at any time.
ProjectionInv ==
    /\ RowInv /\ DrawInv /\ HandlerInv /\ OpInv /\ RunInv /\ PrimaryInv
    /\ NothingLost /\ IndexNeverAhead /\ ProcessedEverywhere

\* Readers see the revisions of a notification in order, and nothing is missing at the
\* moment another index takes over.
Followed == INSTANCE FollowedFeed
    WITH revision <- [n \in Notification |-> canon[n].rev], visible <- index[alias]

FollowsFeed == Followed!FeedSpec

\* When every job of a notification is processed, the feed shows exactly its newest
\* revision, in whichever fed index is behind the aliases.
DrainedIsExact ==
    Fed(alias) =>
        \A n \in Notification :
            (\A s \in Committed : outbox[s].note = n => outbox[s].status = "processed")
                => index[alias][n] = canon[n].rev

\* The job of a deletion is never given up: a job that was discarded is older than the
\* tombstone of its notification (discardDeadLetters).
TombstonesAreKept ==
    \A s \in Seqs : outbox[s].status = "discarded" =>
        LET c == canon[outbox[s].note] IN c.state = "deleted" => outbox[s].rev < c.rev

\* A reader never finds an older revision than before, neither after a late or repeated
\* write nor when a promotion or a rollback moves the aliases.
FeedNeverGoesBack ==
    [][\A n \in Notification : index[alias][n] <= index'[alias'][n]]_vars

\* A deleted notification that has left the feed never comes back to it.
DeletedStaysDeleted ==
    [][\A n \in Notification :
          canon[n].state = "deleted" /\ index[alias][n] = canon[n].rev
              => canon'[n] = canon[n] /\ index'[alias'][n] = index[alias][n]]_vars

\* What was processed is not claimed, retried or delivered again, whoever comes late.
ProcessedStays ==
    [][\A s \in Seqs :
          /\ outbox[s].status \in {"processed", "discarded"} => outbox'[s].status = outbox[s].status
          /\ \A t \in Target :
                delivery[s][t].status = "processed" => delivery'[s][t].status = "processed"]_vars

\* "After successful replay it becomes processed": a job the operator replayed ends
\* processed, unless it is discarded (replayDeadLetters, leaseDelivery, handle).
ReplayedIsProcessed ==
    \A s \in Seqs : s \in replayed ~> outbox[s].status \in {"processed", "discarded"}

=============================================================================
