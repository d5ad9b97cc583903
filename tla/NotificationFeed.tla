-------------------------- MODULE NotificationFeed --------------------------
(***************************************************************************)
(* The notification feed and the workers that project it.  A transaction   *)
(* changes the canonical row of a notification and appends a job to        *)
(* notification_outbox; a worker leases the job, loads the newest document *)
(* of the notification and writes it into every index that requires the    *)
(* job, with one row of notification_projection_deliveries per index.      *)
(*                                                                         *)
(* Notifications belong to different recipients, so that nothing but their *)
(* own row orders their transactions, and a transaction changes one of     *)
(* them.  A job that waits for its available_at is one that is not claimed *)
(* yet.  A lease token is the handler that holds it; the row of a handler  *)
(* that has ended carries a token nobody knows.                            *)
(***************************************************************************)
EXTENDS Integers, FiniteSets

CONSTANTS
    MaxNote,      \* notifications, numbered in the order of their ids
    MaxTarget,    \* physical indices, numbered as they are created
    MaxWork,      \* bound on the changes and the troubles of a run, together
    Handler,      \* handlers that may run at the same time, in any process
    None,
    MaxAttempts   \* NOTIFICATION_OUTBOX_MAX_ATTEMPTS

ASSUME FeedAssumption ==
    /\ MaxNote \in Nat /\ MaxTarget \in Nat \ {0} /\ MaxWork \in Nat
    /\ MaxAttempts \in Nat \ {0}
    /\ None \notin Handler

Notification == 1..MaxNote
Target == 1..MaxTarget
Seqs == 1..MaxWork

VARIABLES
    canon,     \* committed state and revision of each notification, its row or its tombstone
    open,      \* sequence number drawn by the transaction that is changing it, 0 for none
    drawn,     \* last sequence number drawn
    outbox,    \* rows of notification_outbox by sequence
    delivery,  \* rows of notification_projection_deliveries by sequence and target
    target,    \* rows of notification_projection_targets
    index,     \* revision of each notification in each physical index
    alias,     \* physical index behind the read and the write alias
    fence,     \* operator transaction that holds the cutover fence across its alias request
    handler,   \* handlers of the workers
    trouble    \* troubles so far

canonVars == <<canon, open, drawn>>
rowVars == <<outbox, delivery>>
feedVars == <<canon, open, drawn, outbox, delivery, target, index, alias, fence, handler, trouble>>

NoRow == [note |-> 0, rev |-> 0, status |-> "none", by |-> None, valid |-> FALSE, attempts |-> 0]
NoDelivery == [status |-> "none", by |-> None, valid |-> FALSE]
NoTarget == [status |-> "absent", from |-> 0, checkpoint |-> 0, window |-> FALSE, checked |-> FALSE]
Free == [pc |-> "free", job |-> 0, rev |-> 0, at |-> 0, todo |-> {}, owned |-> FALSE]

Item == [rank : 0..2, to : Target, dead : BOOLEAN]
Row == [note : 0..MaxNote, rev : Nat,
        status : {"none", "pending", "leased", "processed", "dead_letter", "discarded"},
        by : Handler \cup {None}, valid : BOOLEAN, attempts : 0..MaxAttempts]
Delivery == [status : {"none", "pending", "leased", "processed", "dead_letter"},
             by : Handler \cup {None}, valid : BOOLEAN]
TargetRow == [status : {"absent", "building", "primary", "rollback", "retired"},
              from : 0..MaxWork, checkpoint : 0..MaxWork, window : BOOLEAN, checked : BOOLEAN]
Work == [pc : {"free", "load", "prepare", "lease", "project", "ack", "done", "retry", "bury"},
         job : 0..MaxWork, rev : Nat, at : 0..MaxTarget, todo : SUBSET Item, owned : BOOLEAN]

FeedTypeOK ==
    /\ canon \in [Notification -> [state : {"none", "unread", "read", "deleted"}, rev : Nat]]
    /\ open \in [Notification -> 0..MaxWork]
    /\ drawn \in 0..MaxWork
    /\ outbox \in [Seqs -> Row]
    /\ delivery \in [Seqs -> [Target -> Delivery]]
    /\ target \in [Target -> TargetRow]
    /\ index \in [Target -> [Notification -> Nat]]
    /\ alias \in Target
    /\ fence \in {"free", "promote", "rollback"}
    /\ handler \in [Handler -> Work]
    /\ trouble \in 0..MaxWork

\* A feed whose first index was bootstrapped by ensurePrimaryTarget and ensureIndex.
FeedInit ==
    /\ canon = [n \in Notification |-> [state |-> "none", rev |-> 0]]
    /\ open = [n \in Notification |-> 0]
    /\ drawn = 0
    /\ outbox = [s \in Seqs |-> NoRow]
    /\ delivery = [s \in Seqs |-> [t \in Target |-> NoDelivery]]
    /\ target = [t \in Target |-> IF t = 1 THEN [NoTarget EXCEPT !.status = "primary"] ELSE NoTarget]
    /\ index = [t \in Target |-> [n \in Notification |-> 0]]
    /\ alias = 1
    /\ fence = "free"
    /\ handler = [w \in Handler |-> Free]
    /\ trouble = 0

Larger(a, b) == IF a < b THEN b ELSE a

Committed == {s \in Seqs : outbox[s].status # "none"}

\* max(sequence) of the outbox.
IsWatermark(s) == s \in Committed \cup {0} /\ \A c \in Committed : c <= s

Trouble == drawn + trouble < MaxWork /\ trouble' = trouble + 1

-----------------------------------------------------------------------------
(* Writers: a transaction takes the writer fence, the rows of the recipient *)
(* and of the notification, draws its sequence number and commits it all.   *)

\* Accept; mark as read; delete or expire.
Changes == {<<"none", "unread">>, <<"unread", "read">>, <<"unread", "deleted">>, <<"read", "deleted">>}

BeginChange(n) ==
    /\ fence = "free"
    /\ open[n] = 0
    /\ canon[n].state # "deleted"
    /\ drawn + trouble < MaxWork
    /\ drawn' = drawn + 1
    /\ open' = [open EXCEPT ![n] = drawn + 1]
    /\ UNCHANGED <<canon, rowVars, target, index, alias, fence, handler, trouble>>

CommitChange(n) ==
    LET r == canon[n].rev + 1
    IN  /\ open[n] > 0
        /\ \E c \in Changes :
              /\ canon[n].state = c[1]
              /\ canon' = [canon EXCEPT ![n] = [state |-> c[2], rev |-> r]]
        /\ outbox' = [outbox EXCEPT ![open[n]] =
                          [NoRow EXCEPT !.note = n, !.rev = r, !.status = "pending"]]
        /\ open' = [open EXCEPT ![n] = 0]
        /\ UNCHANGED <<drawn, delivery, target, index, alias, fence, handler, trouble>>

\* Mutant of WritersDrained: the operator takes the fence shared.
WritersIgnored == TRUE

\* The cutover fence is exclusive: it waits for the writers that hold it shared.
WritersDrained == \A n \in Notification : open[n] = 0

-----------------------------------------------------------------------------
(* The outbox and its leases *)

Claimable(s) ==
    \/ outbox[s].status = "pending"
    \/ outbox[s].status = "leased" /\ ~outbox[s].valid

Attempt(row) == IF row.attempts < MaxAttempts THEN row.attempts + 1 ELSE row.attempts

\* claimBatch; a claimed job may wait in its batch before it is loaded.
Claim(w, s) ==
    /\ handler[w].pc = "free"
    /\ Claimable(s)
    /\ outbox' = [outbox EXCEPT ![s] =
                       [@ EXCEPT !.status = "leased", !.by = w, !.valid = TRUE, !.attempts = Attempt(outbox[s])]]
    /\ handler' = [handler EXCEPT ![w] = [Free EXCEPT !.pc = "load", !.job = s, !.owned = TRUE]]
    /\ UNCHANGED <<canonVars, delivery, target, index, alias, fence, trouble>>

\* What acknowledge, retry, deadLetter and heartbeat ask of the row.
Held(w) ==
    LET row == outbox[handler[w].job]
    IN  row.status = "leased" /\ row.by = w /\ row.valid

\* The outbox row as a handler that still holds it leaves it.
Settled(w, s) ==
    IF handler[w].owned /\ Held(w)
    THEN [outbox EXCEPT ![handler[w].job] = [@ EXCEPT !.status = s, !.by = None, !.valid = FALSE]]
    ELSE outbox

\* The tokens of a handler that has ended are known to nobody.
JobsWithout(rows, w) ==
    [s \in Seqs |-> IF rows[s].by = w THEN [rows[s] EXCEPT !.by = None] ELSE rows[s]]

DeliveriesWithout(w) ==
    [s \in Seqs |-> [t \in Target |->
        IF delivery[s][t].by = w THEN [delivery[s][t] EXCEPT !.by = None] ELSE delivery[s][t]]]

\* The handler ends and the job row becomes s.
End(w, s) ==
    /\ outbox' = JobsWithout(Settled(w, s), w)
    /\ delivery' = DeliveriesWithout(w)
    /\ handler' = [handler EXCEPT ![w] = Free]

RetryOrBury(w) == IF outbox[handler[w].job].attempts >= MaxAttempts THEN "dead_letter" ELSE "pending"

-----------------------------------------------------------------------------
(* The handler *)

\* Mutant of LatestRevision: the load sees a transaction that is still open.
UncommittedRevision(n) == IF open[n] > 0 THEN canon[n].rev + 1 ELSE canon[n].rev

\* The row or the tombstone, whichever there is, as committed.
LatestRevision(n) == canon[n].rev

\* loadLatestDocument.
Load(w) ==
    /\ handler[w].pc = "load"
    /\ handler' = [handler EXCEPT ![w] =
                        [@ EXCEPT !.pc = "prepare", !.rev = LatestRevision(outbox[handler[w].job].note)]]
    /\ UNCHANGED <<canonVars, rowVars, target, index, alias, fence, trouble>>

Rank(t) == CASE target[t].status = "primary" -> 0
             [] target[t].status = "building" -> 1
             [] OTHER -> 2

\* Mutant of IsRequired: the former primary is not written any more.
IsServing(t, s) ==
    \/ target[t].status = "primary"
    \/ target[t].status = "building" /\ s > target[t].from

IsRequired(t, s) ==
    \/ target[t].status = "primary"
    \/ target[t].status = "building" /\ s > target[t].from
    \/ target[t].status = "rollback" /\ s > target[t].from /\ target[t].window

Before(a, b) == a.rank < b.rank \/ (a.rank = b.rank /\ a.to < b.to)

Goto(w, pc) == handler' = [handler EXCEPT ![w] = [@ EXCEPT !.pc = pc]]

\* The handler returns or throws.
Leave(w, pc) == handler' = [handler EXCEPT ![w] = [@ EXCEPT !.pc = pc, !.at = 0, !.todo = {}]]

\* The head of the loop: an aborted handler throws, and so does one whose next
\* delivery was dead when the targets were read.
Continue(w, todo) ==
    \/ /\ todo = {}
       /\ Leave(w, "done")
    \/ \E i \in todo :
         /\ \A j \in todo \ {i} : Before(i, j)
         /\ \/ ~handler[w].owned /\ Leave(w, "retry")
            \/ handler[w].owned /\ i.dead /\ Leave(w, "bury")
            \/ /\ handler[w].owned /\ ~i.dead
               /\ handler' = [handler EXCEPT ![w] =
                                  [@ EXCEPT !.pc = "lease", !.at = i.to, !.todo = todo \ {i}]]

\* prepareRequiredDeliveries; a promotion holds its advisory lock.
Prepare(w) ==
    LET s == handler[w].job
        required == {t \in Target : IsRequired(t, s)}
        todo == {[rank |-> Rank(t), to |-> t, dead |-> delivery[s][t].status = "dead_letter"] :
                    t \in {u \in required : delivery[s][u].status # "processed"}}
    IN  /\ handler[w].pc = "prepare"
        /\ fence # "promote"
        /\ delivery' = [delivery EXCEPT ![s] = [t \in Target |->
                            IF t \in required /\ @[t].status = "none"
                            THEN [NoDelivery EXCEPT !.status = "pending"] ELSE @[t]]]
        /\ Continue(w, todo)
        /\ UNCHANGED <<canonVars, outbox, target, index, alias, fence, trouble>>

\* The lease ends when the lease of the job ended at the claim, so that one taken
\* after the job was lost may have lapsed from the start.
LeaseDelivery(w) ==
    LET s == handler[w].job
        t == handler[w].at
        row == delivery[s][t]
    IN  /\ handler[w].pc = "lease"
        /\ \/ /\ \/ row.status = "pending"
                 \/ row.status = "leased" /\ (~row.valid \/ row.by = w)
              /\ \E v \in BOOLEAN :
                    /\ Held(w) => v
                    /\ delivery' = [delivery EXCEPT ![s][t] = [status |-> "leased", by |-> w, valid |-> v]]
              /\ Goto(w, "project")
           \/ /\ row.status \in {"processed", "dead_letter"}
                    \/ (row.status = "leased" /\ row.valid /\ row.by # w)
              /\ Leave(w, "retry")
              /\ UNCHANGED delivery
        /\ UNCHANGED <<canonVars, outbox, target, index, alias, fence, trouble>>

\* Mutant of Project: the documents carry no external version.
ProjectUnversioned(w) ==
    LET t == handler[w].at
        n == outbox[handler[w].job].note
    IN  /\ handler[w].pc = "project"
        /\ index' = [index EXCEPT ![t][n] = handler[w].rev]
        /\ Goto(w, "ack")
        /\ UNCHANGED <<canonVars, rowVars, target, alias, fence, trouble>>

\* The index keeps the higher external version; a conflict counts as success.
Project(w) ==
    LET t == handler[w].at
        n == outbox[handler[w].job].note
    IN  /\ handler[w].pc = "project"
        /\ index' = [index EXCEPT ![t][n] = Larger(@, handler[w].rev)]
        /\ Goto(w, "ack")
        /\ UNCHANGED <<canonVars, rowVars, target, alias, fence, trouble>>

HeldDelivery(w) ==
    LET row == delivery[handler[w].job][handler[w].at]
    IN  row.status = "leased" /\ row.by = w /\ row.valid

\* The index rejects the document: failDelivery, then an error of the same kind.
Reject(w, permanent) ==
    /\ handler[w].pc = "project"
    /\ Trouble
    /\ delivery' = IF HeldDelivery(w)
                   THEN [delivery EXCEPT ![handler[w].job][handler[w].at] =
                           [NoDelivery EXCEPT !.status = IF permanent THEN "dead_letter" ELSE "pending"]]
                   ELSE delivery
    /\ Leave(w, IF permanent THEN "bury" ELSE "retry")
    /\ UNCHANGED <<canonVars, outbox, target, index, alias, fence>>

\* The index does not answer, before the write or after it.
Unanswered(w) ==
    /\ handler[w].pc \in {"project", "ack"}
    /\ Trouble
    /\ Leave(w, "retry")
    /\ UNCHANGED <<canonVars, rowVars, target, index, alias, fence>>

\* advanceContiguousCheckpoint over the deliveries d: what c may be.
Advances(t, d, c) ==
    LET later == {s \in Committed : s > target[t].checkpoint}
        clear == {s \in later : \A g \in later : d[g][t].status # "processed" => s < g}
    IN  IF target[t].checkpoint < target[t].from \/ clear = {} THEN c = target[t].checkpoint
        ELSE c \in clear /\ \A s \in clear : s <= c

AcknowledgeDelivery(w) ==
    LET s == handler[w].job
        t == handler[w].at
        d == [delivery EXCEPT ![s][t] = [NoDelivery EXCEPT !.status = "processed"]]
    IN  /\ handler[w].pc = "ack"
        /\ \/ /\ HeldDelivery(w)
              /\ delivery' = d
              /\ \E c \in 0..MaxWork :
                    /\ Advances(t, d, c)
                    /\ target' = [target EXCEPT ![t].checkpoint = c]
              /\ Continue(w, handler[w].todo)
           \/ /\ ~HeldDelivery(w)
              /\ Leave(w, "retry")
              /\ UNCHANGED <<delivery, target>>
        /\ UNCHANGED <<canonVars, outbox, index, alias, fence, trouble>>

\* processJob settles the job, unless its handler was aborted or its lease is gone.
SettleJob(w) ==
    /\ \/ handler[w].pc = "done" /\ End(w, "processed")
       \/ handler[w].pc = "retry" /\ End(w, RetryOrBury(w))
       \/ handler[w].pc = "bury" /\ End(w, "dead_letter")
    /\ UNCHANGED <<canonVars, target, index, alias, fence, trouble>>

-----------------------------------------------------------------------------
(* Deadlines, lapsed leases, crashes *)

Running(w) == handler[w].pc \in {"load", "prepare", "lease", "project", "ack"}

\* The deadline aborts a handler, which runs on while its job is given back.
Deadline(w) ==
    /\ Running(w) /\ handler[w].owned
    /\ Trouble
    /\ outbox' = Settled(w, RetryOrBury(w))
    /\ handler' = [handler EXCEPT ![w].owned = FALSE]
    /\ UNCHANGED <<canonVars, delivery, target, index, alias, fence>>

\* A heartbeat was refused or failed: the handler is aborted, the row is left alone.
LeaseLoss(w) ==
    /\ Running(w) /\ handler[w].owned
    /\ IF Held(w) THEN Trouble ELSE UNCHANGED trouble
    /\ handler' = [handler EXCEPT ![w].owned = FALSE]
    /\ UNCHANGED <<canonVars, rowVars, target, index, alias, fence>>

\* An aborted handler that has not passed the check of its loop stops there.
StopAborted(w) ==
    /\ handler[w].pc = "lease" /\ ~handler[w].owned
    /\ Leave(w, "retry")
    /\ UNCHANGED <<canonVars, rowVars, target, index, alias, fence, trouble>>

CrashHandler(w) ==
    /\ handler[w].pc # "free"
    /\ Trouble
    /\ outbox' = JobsWithout(outbox, w)
    /\ delivery' = DeliveriesWithout(w)
    /\ handler' = [handler EXCEPT ![w] = Free]
    /\ UNCHANGED <<canonVars, target, index, alias, fence>>

\* A lease that nobody extends any more.
Abandoned(by) == by = None \/ ~handler[by].owned

\* locked_until passes: of an abandoned lease, or before the handler is done.
LapseJob(s) ==
    /\ outbox[s].status = "leased" /\ outbox[s].valid
    /\ IF Abandoned(outbox[s].by) THEN UNCHANGED trouble ELSE Trouble
    /\ outbox' = [outbox EXCEPT ![s].valid = FALSE]
    /\ UNCHANGED <<canonVars, delivery, target, index, alias, fence, handler>>

LapseDelivery(s, t) ==
    /\ delivery[s][t].status = "leased" /\ delivery[s][t].valid
    /\ IF Abandoned(delivery[s][t].by) THEN UNCHANGED trouble ELSE Trouble
    /\ delivery' = [delivery EXCEPT ![s][t].valid = FALSE]
    /\ UNCHANGED <<canonVars, outbox, target, index, alias, fence, handler>>

HandlerStep(w) ==
    \/ Load(w) \/ Prepare(w) \/ LeaseDelivery(w) \/ Project(w) \/ AcknowledgeDelivery(w)
    \/ SettleJob(w)

FeedNext ==
    \/ \E n \in Notification : BeginChange(n) \/ CommitChange(n)
    \/ \E w \in Handler :
         \/ \E s \in Seqs : Claim(w, s)
         \/ HandlerStep(w)
         \/ \E permanent \in BOOLEAN : Reject(w, permanent)
         \/ Unanswered(w) \/ Deadline(w) \/ LeaseLoss(w) \/ StopAborted(w) \/ CrashHandler(w)
    \/ \E s \in Seqs : LapseJob(s) \/ \E t \in Target : LapseDelivery(s, t)

=============================================================================
