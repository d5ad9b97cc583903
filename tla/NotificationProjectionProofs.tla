--------------------- MODULE NotificationProjectionProofs ---------------------
(***************************************************************************)
(* The invariant of NotificationProjection for any number of notifications,*)
(* targets, handlers, changes and troubles, the safety properties that     *)
(* follow from it, and that the feed implements FollowedFeed.              *)
(***************************************************************************)
EXTENDS NotificationProjection, TLAPS

Inv == TypeOK /\ ProjectionInv

-----------------------------------------------------------------------------
(* Types *)

\* The values handlers, rows and deliveries start with have their types.
LEMMA Values ==
    /\ NoRow \in Row /\ NoDelivery \in Delivery /\ NoTarget \in TargetRow /\ Free \in Work
    /\ NoDocs \in Docs /\ NoRun \in Run /\ Idle \in Command
  BY FeedAssumption DEF NoRow, Row, NoDelivery, Delivery, NoTarget, TargetRow, Free, Work,
     NoDocs, Docs, NoRun, Run, Idle, Command, Unfinished, Item

LEMMA InitType == Init => TypeOK
<1> SUFFICES ASSUME Init PROVE TypeOK
  OBVIOUS
<1> USE FeedAssumption, Values
<1>1. [NoTarget EXCEPT !.status = "primary"] \in TargetRow
  BY DEF NoTarget, TargetRow
<1>2. FeedTypeOK
  BY <1>1 DEF Init, FeedInit, FeedTypeOK, Target, Seqs, Notification
<1> QED
  BY <1>2 DEF Init, TypeOK

HandlerOK == handler \in [Handler -> Work]

Others(w) == \A v \in Handler \ {w} : handler'[v] = handler[v]

SameJob(w) == handler'[w].job = handler[w].job /\ handler'[w].rev = handler[w].rev

SameStep(w) ==
    /\ SameJob(w) /\ handler'[w].pc = handler[w].pc
    /\ handler'[w].at = handler[w].at /\ handler'[w].todo = handler[w].todo

LEMMA GotoFacts ==
    ASSUME TypeOK, NEW w \in Handler,
           NEW pc \in {"free", "load", "prepare", "lease", "project", "ack", "done", "retry", "bury"},
           Goto(w, pc)
    PROVE  /\ HandlerOK' /\ Others(w) /\ SameJob(w)
           /\ handler'[w].pc = pc /\ handler'[w].at = handler[w].at /\ handler'[w].todo = handler[w].todo
<1>1. handler[w] \in Work /\ handler \in [Handler -> Work]
  BY DEF TypeOK, FeedTypeOK
<1> DEFINE h == [handler[w] EXCEPT !.pc = pc]
<1>2. h \in Work /\ h.pc = pc /\ h.job = handler[w].job /\ h.rev = handler[w].rev
      /\ h.at = handler[w].at /\ h.todo = handler[w].todo
  BY <1>1 DEF Work
<1>3. handler' = [handler EXCEPT ![w] = h]
  BY DEF Goto
<1> QED
  BY <1>1, <1>2, <1>3 DEF HandlerOK, Others, SameJob

LEMMA LeaveFacts ==
    ASSUME TypeOK, NEW w \in Handler, NEW pc \in {"done", "retry", "bury"}, Leave(w, pc)
    PROVE  HandlerOK' /\ Others(w) /\ SameJob(w) /\ handler'[w].pc = pc
<1>1. handler[w] \in Work /\ 0 \in 0..MaxTarget /\ {} \in SUBSET Item /\ handler \in [Handler -> Work]
  BY FeedAssumption DEF TypeOK, FeedTypeOK
<1> DEFINE h == [handler[w] EXCEPT !.pc = pc, !.at = 0, !.todo = {}]
<1>2. h \in Work /\ h.pc = pc /\ h.job = handler[w].job /\ h.rev = handler[w].rev
  BY <1>1 DEF Work
<1>3. handler' = [handler EXCEPT ![w] = h]
  BY DEF Leave
<1> QED
  BY <1>1, <1>2, <1>3 DEF HandlerOK, Others, SameJob

LEMMA ContinueFacts ==
    ASSUME TypeOK, NEW w \in Handler, NEW todo \in SUBSET Item, Continue(w, todo)
    PROVE  /\ HandlerOK' /\ Others(w) /\ SameJob(w)
           /\ \/ handler'[w].pc \in {"retry", "bury"}
              \/ handler'[w].pc = "done" /\ todo = {}
              \/ /\ handler'[w].pc = "lease"
                 /\ \E i \in todo : handler'[w].at = i.to /\ handler'[w].todo = todo \ {i}
<1>1. ASSUME todo = {}, Leave(w, "done")
      PROVE  /\ HandlerOK' /\ Others(w) /\ SameJob(w) /\ handler'[w].pc = "done"
  BY <1>1, LeaveFacts
<1>2. ASSUME Leave(w, "retry") \/ Leave(w, "bury")
      PROVE  /\ HandlerOK' /\ Others(w) /\ SameJob(w) /\ handler'[w].pc \in {"retry", "bury"}
  BY <1>2, LeaveFacts
<1>3. ASSUME NEW i \in todo,
             handler' = [handler EXCEPT ![w] = [@ EXCEPT !.pc = "lease", !.at = i.to, !.todo = todo \ {i}]]
      PROVE  /\ HandlerOK' /\ Others(w) /\ SameJob(w) /\ handler'[w].pc = "lease"
             /\ handler'[w].at = i.to /\ handler'[w].todo = todo \ {i}
  <2>1. handler[w] \in Work /\ i.to \in 0..MaxTarget /\ todo \ {i} \in SUBSET Item /\ handler \in [Handler -> Work]
    BY FeedAssumption DEF Item, Target, TypeOK, FeedTypeOK
  <2> DEFINE h == [handler[w] EXCEPT !.pc = "lease", !.at = i.to, !.todo = todo \ {i}]
  <2>2. h \in Work /\ h.pc = "lease" /\ h.job = handler[w].job /\ h.rev = handler[w].rev
        /\ h.at = i.to /\ h.todo = todo \ {i}
    BY <2>1 DEF Work
  <2>3. handler' = [handler EXCEPT ![w] = h]
    BY <1>3
  <2> QED
    BY <2>1, <2>2, <2>3 DEF HandlerOK, Others, SameJob
<1> QED
  BY <1>1, <1>2, <1>3 DEF Continue

-----------------------------------------------------------------------------
(* What the steps of the workers leave alone *)

Alike(rows, as) == \A s \in Seqs :
    /\ rows[s].note = as[s].note /\ rows[s].rev = as[s].rev
    /\ rows[s].status = "none" <=> as[s].status = "none"

NoneProcessed(rows, as) ==
    \A s \in Seqs : rows[s].status = "processed" => as[s].status = "processed"

WorkerFrame ==
    /\ UNCHANGED <<canonVars, alias, fence, run, op, replayed>>
    /\ Alike(outbox', outbox)
    /\ \A s \in Seqs : outbox'[s].status = "processed" =>
          outbox[s].status = "processed" \/ \E w \in Handler : handler[w].pc = "done" /\ handler[w].job = s
    /\ \A s \in Seqs, t \in Target :
          /\ delivery[s][t].status = "processed" => delivery'[s][t].status = "processed"
          /\ delivery'[s][t].status = "processed" =>
                \/ delivery[s][t].status = "processed"
                \/ \E w \in Handler : handler[w].pc = "ack" /\ handler[w].job = s /\ handler[w].at = t
    /\ \A t \in Target :
          /\ target'[t].status = target[t].status /\ target'[t].from = target[t].from
          /\ target'[t].window = target[t].window
    /\ \A t \in Target, n \in Notification : index[t][n] <= index'[t][n] /\ index'[t][n] <= canon[n].rev
    /\ \A w \in Handler : handler'[w].pc = "ack" =>
          /\ handler'[w].job = handler[w].job /\ handler'[w].at = handler[w].at
          /\ handler'[w].rev = handler[w].rev
          /\ \/ handler[w].pc = "ack"
             \/ /\ handler[w].pc = "project"
                /\ handler[w].rev <= index'[handler[w].at][outbox[handler[w].job].note]

LEMMA SettledRows ==
    ASSUME TypeOK, NEW w \in Handler, NEW st \in {"pending", "processed", "dead_letter"}
    PROVE  /\ Settled(w, st) \in [Seqs -> Row]
           /\ Alike(Settled(w, st), outbox)
           /\ \A s \in Seqs : Settled(w, st)[s].status = "processed" =>
                 outbox[s].status = "processed" \/ (st = "processed" /\ handler[w].job = s)
<1> DEFINE j == handler[w].job
           r == [outbox[j] EXCEPT !.status = st, !.by = None, !.valid = FALSE]
<1>1. CASE handler[w].owned /\ Held(w) /\ j \in Seqs
  <2>1. outbox[j] \in Row /\ outbox[j].status = "leased"
    BY <1>1 DEF TypeOK, FeedTypeOK, Held
  <2>2. r \in Row /\ r.note = outbox[j].note /\ r.rev = outbox[j].rev /\ r.status = st
    BY <2>1 DEF Row
  <2>3. Settled(w, st) = [outbox EXCEPT ![j] = r]
    BY <1>1 DEF Settled
  <2> QED
    BY <1>1, <2>1, <2>2, <2>3 DEF TypeOK, FeedTypeOK, Alike
<1>2. CASE ~(handler[w].owned /\ Held(w) /\ j \in Seqs)
  <2>1. Settled(w, st) = outbox
    BY <1>2 DEF Settled, TypeOK, FeedTypeOK
  <2> QED
    BY <2>1 DEF TypeOK, FeedTypeOK, Alike
<1> QED
  BY <1>1, <1>2

LEMMA WithoutRows ==
    ASSUME NEW rows \in [Seqs -> Row], NEW w
    PROVE  /\ JobsWithout(rows, w) \in [Seqs -> Row]
           /\ \A s \in Seqs : /\ JobsWithout(rows, w)[s].status = rows[s].status
                              /\ JobsWithout(rows, w)[s].note = rows[s].note
                              /\ JobsWithout(rows, w)[s].rev = rows[s].rev
<1>1. \A s \in Seqs : [rows[s] EXCEPT !.by = None] \in Row
  BY DEF Row
<1> QED
  BY <1>1 DEF JobsWithout, Row

LEMMA WithoutDeliveries ==
    ASSUME TypeOK, NEW w
    PROVE  /\ DeliveriesWithout(w) \in [Seqs -> [Target -> Delivery]]
           /\ \A s \in Seqs, t \in Target : DeliveriesWithout(w)[s][t].status = delivery[s][t].status
<1>1. \A s \in Seqs, t \in Target : delivery[s][t] \in Delivery
  BY DEF TypeOK, FeedTypeOK
<1>2. \A d \in Delivery : [d EXCEPT !.by = None] \in Delivery /\ [d EXCEPT !.by = None].status = d.status
  BY DEF Delivery
<1> QED
  BY <1>1, <1>2 DEF DeliveriesWithout

LEMMA TroubleType == ASSUME TypeOK, Trouble PROVE trouble' \in 0..MaxWork
  BY FeedAssumption DEF Trouble, TypeOK, FeedTypeOK

\* What the worker steps, and the others, have in common.
Grows ==
    /\ \A s \in Committed : s \in Committed' /\ outbox'[s].note = outbox[s].note /\ outbox'[s].rev = outbox[s].rev
    /\ \A n \in Notification : canon[n].rev <= canon'[n].rev
    /\ \A s \in Seqs, t \in Target :
          delivery[s][t].status = "processed" => delivery'[s][t].status = "processed"
    /\ \A s \in Committed, t \in Target :
          Owed(t, s)' => Owed(t, s) \/ delivery[s][t].status = "processed"

LEMMA FrameGrows == ASSUME Inv, TypeOK', WorkerFrame PROVE Grows /\ Committed' = Committed
<1>1. Committed' = Committed
  BY DEF WorkerFrame, Alike, Committed
<1>2. \A n \in Notification : canon[n].rev \in Nat /\ canon'[n].rev = canon[n].rev
  BY DEF WorkerFrame, canonVars, Inv, TypeOK, FeedTypeOK
<1>3. \A t \in Target : Eligible(t)' <=> Eligible(t)
  BY DEF WorkerFrame, Eligible
<1>4. \A s \in Committed, t \in Target : Owed(t, s)' => Owed(t, s)
  BY <1>3 DEF WorkerFrame, Owed, Fed
<1> QED
  BY <1>1, <1>2, <1>4 DEF Grows, WorkerFrame, Alike, Committed

LEMMA OtherOnCourse ==
    ASSUME Inv, TypeOK', Grows, NEW v \in Handler, SameStep(v)
    PROVE  OnCourse(v)'
<1>1. OnCourse(v) /\ handler[v] \in Work /\ handler'[v] \in Work
  BY DEF Inv, ProjectionInv, HandlerInv, TypeOK, FeedTypeOK
<1> DEFINE h == handler[v]
           j == h.job
<1>2. CASE h.pc = "free"
  BY <1>2 DEF OnCourse, SameStep
<1>3. CASE h.pc # "free"
  <2>1. j \in Committed /\ j \in Seqs /\ j \in Committed'
    BY <1>1, <1>3 DEF OnCourse, Grows, Committed
  <2>2. outbox[j].note \in Notification /\ outbox[j].rev \in Nat
    BY <2>1 DEF Inv, ProjectionInv, RowInv, TypeOK, FeedTypeOK, Row
  <2>3. canon[outbox[j].note].rev \in Nat /\ canon'[outbox[j].note].rev \in Nat
        /\ canon[outbox[j].note].rev <= canon'[outbox[j].note].rev
    BY <2>2 DEF Inv, TypeOK, FeedTypeOK, Grows
  <2>4. h.pc # "load" => h.rev \in outbox'[j].rev..canon'[outbox'[j].note].rev
    BY <1>1, <1>3, <2>1, <2>2, <2>3 DEF OnCourse, Grows, Work
  <2>5. ASSUME h.pc \in {"lease", "project", "ack", "done"}, NEW t \in Target, Owed(t, j)'
        PROVE  \/ delivery'[j][t].status = "processed"
               \/ h.pc # "done" /\ h.at = t
               \/ h.pc # "done" /\ \E i \in h.todo : i.to = t
    <3>1. Owed(t, j) \/ delivery[j][t].status = "processed"
      BY <2>1, <2>5 DEF Grows, SameStep, SameJob, Owed, Fed, Eligible
    <3>2. delivery[j][t].status = "processed" => delivery'[j][t].status = "processed"
      BY <2>1 DEF Grows
    <3> QED
      BY <1>1, <2>1, <2>5, <3>1, <3>2 DEF OnCourse
  <2> QED
    BY <1>1, <1>3, <2>1, <2>4, <2>5 DEF OnCourse, SameStep, SameJob, Owed, Fed, Eligible
<1> QED
  BY <1>2, <1>3

LEMMA StoppedOnCourse ==
    ASSUME Inv, TypeOK', Grows, NEW w \in Handler, SameJob(w),
           handler'[w].pc \in {"retry", "bury"}, handler[w].pc \notin {"free", "load"}
    PROVE  OnCourse(w)'
<1>1. OnCourse(w) /\ handler[w] \in Work /\ handler'[w] \in Work
  BY DEF Inv, ProjectionInv, HandlerInv, TypeOK, FeedTypeOK
<1> DEFINE j == handler[w].job
<1>2. j \in Committed /\ j \in Seqs /\ j \in Committed'
  BY <1>1 DEF OnCourse, Grows, Committed
<1>3. outbox[j].note \in Notification /\ outbox[j].rev \in Nat
  BY <1>2 DEF Inv, ProjectionInv, RowInv, TypeOK, FeedTypeOK, Row
<1>4. canon[outbox[j].note].rev \in Nat /\ canon'[outbox[j].note].rev \in Nat
      /\ canon[outbox[j].note].rev <= canon'[outbox[j].note].rev
  BY <1>3 DEF Inv, TypeOK, FeedTypeOK, Grows
<1> QED
  BY <1>1, <1>2, <1>3, <1>4 DEF OnCourse, Grows, SameJob, Work

LEMMA ContinueOnCourse ==
    ASSUME Inv, TypeOK', Grows, NEW w \in Handler, handler[w].pc \in {"prepare", "ack"},
           NEW todo \in SUBSET Item, Continue(w, todo),
           \A t \in Target : Owed(t, handler[w].job)' =>
              delivery'[handler[w].job][t].status = "processed" \/ \E i \in todo : i.to = t
    PROVE  OnCourse(w)'
<1>1. OnCourse(w) /\ handler[w] \in Work /\ handler'[w] \in Work
  BY DEF Inv, ProjectionInv, HandlerInv, TypeOK, FeedTypeOK
<1> DEFINE j == handler[w].job
<1>2. j \in Committed /\ j \in Seqs /\ j \in Committed'
  BY <1>1 DEF OnCourse, Grows, Committed
<1>3. outbox[j].note \in Notification /\ outbox[j].rev \in Nat
  BY <1>2 DEF Inv, ProjectionInv, RowInv, TypeOK, FeedTypeOK, Row
<1>4. canon[outbox[j].note].rev \in Nat /\ canon'[outbox[j].note].rev \in Nat
      /\ canon[outbox[j].note].rev <= canon'[outbox[j].note].rev
  BY <1>3 DEF Inv, TypeOK, FeedTypeOK, Grows
<1>5. handler[w].rev \in outbox'[j].rev..canon'[outbox'[j].note].rev
  BY <1>1, <1>2, <1>3, <1>4 DEF OnCourse, Grows, Work
<1>6. SameJob(w) /\ \/ handler'[w].pc \in {"retry", "bury"}
                    \/ handler'[w].pc = "done" /\ todo = {}
                    \/ /\ handler'[w].pc = "lease"
                       /\ \E i \in todo : handler'[w].at = i.to /\ handler'[w].todo = todo \ {i}
  BY ContinueFacts DEF Inv
<1>7. CASE handler'[w].pc \in {"retry", "bury"}
  BY <1>6, <1>7, StoppedOnCourse
<1>8. CASE handler'[w].pc = "done" /\ todo = {}
  BY <1>1, <1>2, <1>5, <1>6, <1>8 DEF OnCourse, SameJob, Owed, Fed, Eligible
<1>9. ASSUME NEW i \in todo, handler'[w].pc = "lease", handler'[w].at = i.to, handler'[w].todo = todo \ {i}
      PROVE  OnCourse(w)'
  <2>1. i.to \in Target
    BY DEF Item
  <2>2. \A t \in Target : Owed(t, j)' =>
            delivery'[j][t].status = "processed" \/ i.to = t \/ \E k \in todo \ {i} : k.to = t
    OBVIOUS
  <2> QED
    BY <1>1, <1>2, <1>5, <1>6, <1>9, <2>1, <2>2 DEF OnCourse, SameJob, Owed, Fed, Eligible
<1> QED
  BY <1>6, <1>7, <1>8, <1>9

-----------------------------------------------------------------------------
(* The steps of the workers, one by one *)

LEMMA OthersOnCourse ==
    ASSUME Inv, TypeOK', Grows, NEW w \in Handler, Others(w), OnCourse(w)'
    PROVE  HandlerInv'
<1>1. ASSUME NEW v \in Handler, v # w PROVE OnCourse(v)'
  BY <1>1, OtherOnCourse DEF Others, SameStep, SameJob
<1> QED
  BY <1>1 DEF HandlerInv

\* A step that moves one handler and nothing else.
LEMMA HandlerOnly ==
    ASSUME Inv, UNCHANGED <<canonVars, rowVars, target, index, alias, fence, run, op, replayed>>,
           HandlerOK', trouble' \in 0..MaxWork, NEW w \in Handler, Others(w),
           handler'[w].pc # "ack" \/ SameStep(w)
    PROVE  TypeOK' /\ WorkerFrame
<1>1. TypeOK'
  BY DEF Inv, TypeOK, FeedTypeOK, HandlerOK, canonVars, rowVars
<1>2. \A t \in Target, n \in Notification : index[t][n] <= index'[t][n] /\ index'[t][n] <= canon[n].rev
  BY DEF Inv, TypeOK, FeedTypeOK, ProjectionInv, IndexNeverAhead
<1>3. \A v \in Handler : handler'[v].pc = "ack" => SameStep(v)
  BY DEF Others, SameStep, SameJob
<1> QED
  BY <1>1, <1>2, <1>3 DEF WorkerFrame, Alike, rowVars, SameStep, SameJob

LEMMA LoadStep ==
    ASSUME Inv, UNCHANGED <<run, op, replayed>>, NEW w \in Handler, Load(w)
    PROVE  TypeOK' /\ WorkerFrame /\ HandlerInv'
<1> DEFINE j == handler[w].job
           r == LatestRevision(outbox[j].note)
           h == [handler[w] EXCEPT !.pc = "prepare", !.rev = r]
<1>1. handler \in [Handler -> Work] /\ handler[w] \in Work /\ OnCourse(w) /\ handler[w].pc = "load"
  BY DEF Inv, TypeOK, FeedTypeOK, ProjectionInv, HandlerInv, Load
<1>2. j \in Committed /\ j \in Seqs
  BY <1>1 DEF OnCourse, Committed
<1>3. outbox[j].note \in Notification /\ outbox[j].rev \in 1..canon[outbox[j].note].rev
  BY <1>2 DEF Inv, ProjectionInv, RowInv
<1>4. r \in Nat /\ r = canon[outbox[j].note].rev /\ outbox[j].rev \in Nat
  BY <1>2, <1>3 DEF Inv, TypeOK, FeedTypeOK, LatestRevision, Row
<1>5. h \in Work /\ h.pc = "prepare" /\ h.rev = r /\ h.job = j
  BY <1>1, <1>4 DEF Work
<1>6. handler' = [handler EXCEPT ![w] = h]
  BY DEF Load
<1>7. HandlerOK' /\ Others(w) /\ handler'[w] = h
  BY <1>1, <1>5, <1>6 DEF HandlerOK, Others
<1>8. UNCHANGED <<canonVars, rowVars, target, index, alias, fence, trouble>>
  BY DEF Load
<1>9. TypeOK' /\ WorkerFrame
  BY <1>5, <1>7, <1>8, HandlerOnly DEF Inv, TypeOK, FeedTypeOK
<1>10. OnCourse(w)'
  <2>1. h.rev \in outbox[j].rev..canon[outbox[j].note].rev
    BY <1>3, <1>4, <1>5
  <2> QED
    BY <1>2, <1>5, <1>7, <1>8, <2>1 DEF OnCourse, canonVars, rowVars, Committed
<1> QED
  BY <1>7, <1>9, <1>10, FrameGrows, OthersOnCourse

\* A handler that stops where it is.
LEMMA StopStep ==
    ASSUME Inv, UNCHANGED <<canonVars, rowVars, target, index, alias, fence, run, op, replayed>>,
           trouble' \in 0..MaxWork, NEW w \in Handler, Leave(w, "retry"),
           handler[w].pc \notin {"free", "load"}
    PROVE  TypeOK' /\ WorkerFrame /\ HandlerInv'
<1>1. HandlerOK' /\ Others(w) /\ SameJob(w) /\ handler'[w].pc = "retry"
  BY LeaveFacts DEF Inv
<1>2. TypeOK' /\ WorkerFrame
  BY <1>1, HandlerOnly
<1>3. OnCourse(w)'
  BY <1>1, <1>2, FrameGrows, StoppedOnCourse
<1> QED
  BY <1>1, <1>2, <1>3, FrameGrows, OthersOnCourse

LEMMA StopAbortedStep ==
    ASSUME Inv, UNCHANGED <<run, op, replayed>>, NEW w \in Handler, StopAborted(w)
    PROVE  TypeOK' /\ WorkerFrame /\ HandlerInv'
  BY StopStep DEF StopAborted, Inv, TypeOK, FeedTypeOK

LEMMA UnansweredStep ==
    ASSUME Inv, UNCHANGED <<run, op, replayed>>, NEW w \in Handler, Unanswered(w)
    PROVE  TypeOK' /\ WorkerFrame /\ HandlerInv'
  BY StopStep, TroubleType DEF Unanswered, Inv

\* A handler that is aborted and runs on.
LEMMA AbortFacts ==
    ASSUME TypeOK, NEW w \in Handler, handler' = [handler EXCEPT ![w].owned = FALSE]
    PROVE  HandlerOK' /\ Others(w) /\ SameStep(w)
<1> DEFINE h == [handler[w] EXCEPT !.owned = FALSE]
<1>1. handler[w] \in Work /\ handler \in [Handler -> Work]
  BY DEF TypeOK, FeedTypeOK
<1>2. h \in Work /\ h.pc = handler[w].pc /\ h.job = handler[w].job /\ h.rev = handler[w].rev
      /\ h.at = handler[w].at /\ h.todo = handler[w].todo
  BY <1>1 DEF Work
<1>3. handler' = [handler EXCEPT ![w] = h]
  OBVIOUS
<1> QED
  BY <1>1, <1>2, <1>3 DEF HandlerOK, Others, SameStep, SameJob

LEMMA LeaseLossStep ==
    ASSUME Inv, UNCHANGED <<run, op, replayed>>, NEW w \in Handler, LeaseLoss(w)
    PROVE  TypeOK' /\ WorkerFrame /\ HandlerInv'
<1>1. HandlerOK' /\ Others(w) /\ SameStep(w)
  BY AbortFacts DEF LeaseLoss, Inv
<1>2. trouble' \in 0..MaxWork
  BY TroubleType DEF LeaseLoss, Inv, TypeOK, FeedTypeOK
<1>3. TypeOK' /\ WorkerFrame
  BY <1>1, <1>2, HandlerOnly DEF LeaseLoss
<1> QED
  BY <1>1, <1>3, FrameGrows, OtherOnCourse, OthersOnCourse

LEMMA RetryOrBuryType ==
    ASSUME NEW w PROVE RetryOrBury(w) \in {"pending", "dead_letter"}
  BY DEF RetryOrBury

LEMMA DeadlineStep ==
    ASSUME Inv, UNCHANGED <<run, op, replayed>>, NEW w \in Handler, Deadline(w)
    PROVE  TypeOK' /\ WorkerFrame /\ HandlerInv'
<1>1. HandlerOK' /\ Others(w) /\ SameStep(w)
  BY AbortFacts DEF Deadline, Inv
<1>2. trouble' \in 0..MaxWork /\ UNCHANGED <<canonVars, delivery, target, index, alias, fence>>
  BY TroubleType DEF Deadline, Inv
<1>3. outbox' \in [Seqs -> Row] /\ Alike(outbox', outbox) /\ NoneProcessed(outbox', outbox)
  BY SettledRows, RetryOrBuryType DEF Deadline, Inv, NoneProcessed
<1>4. TypeOK'
  BY <1>1, <1>2, <1>3 DEF Inv, TypeOK, FeedTypeOK, HandlerOK, canonVars
<1>5. \A t \in Target, n \in Notification : index[t][n] <= index'[t][n] /\ index'[t][n] <= canon[n].rev
  BY <1>2 DEF Inv, TypeOK, FeedTypeOK, ProjectionInv, IndexNeverAhead
<1>6. \A v \in Handler : SameStep(v)
  BY <1>1 DEF Others, SameStep, SameJob
<1>7. WorkerFrame
  BY <1>2, <1>3, <1>5, <1>6 DEF WorkerFrame, NoneProcessed, SameStep, SameJob
<1> QED
  BY <1>1, <1>4, <1>7, FrameGrows, OtherOnCourse, OthersOnCourse

LEMMA ClaimStep ==
    ASSUME Inv, UNCHANGED <<run, op, replayed>>, NEW w \in Handler, NEW s \in Seqs, Claim(w, s)
    PROVE  TypeOK' /\ WorkerFrame /\ HandlerInv'
<1> DEFINE r == [outbox[s] EXCEPT !.status = "leased", !.by = w, !.valid = TRUE, !.attempts = Attempt(outbox[s])]
           h == [Free EXCEPT !.pc = "load", !.job = s, !.owned = TRUE]
<1>1. outbox \in [Seqs -> Row] /\ outbox[s] \in Row /\ handler \in [Handler -> Work]
  BY DEF Inv, TypeOK, FeedTypeOK
<1>2. outbox[s].status \in {"pending", "leased"}
  BY DEF Claim, Claimable
<1>3. r \in Row /\ r.note = outbox[s].note /\ r.rev = outbox[s].rev /\ r.status = "leased"
  <2>1. Attempt(outbox[s]) \in 0..MaxAttempts
    BY <1>1, FeedAssumption DEF Row, Attempt
  <2> QED
    BY <1>1, <2>1 DEF Row
<1>4. h \in Work /\ h.pc = "load" /\ h.job = s
  <2>1. s \in 0..MaxWork /\ Free \in Work
    BY Values, FeedAssumption DEF Seqs
  <2> QED
    BY <2>1 DEF Work
<1>5. outbox' = [outbox EXCEPT ![s] = r] /\ handler' = [handler EXCEPT ![w] = h]
      /\ UNCHANGED <<canonVars, delivery, target, index, alias, fence, trouble>>
  BY DEF Claim
<1>6. outbox' \in [Seqs -> Row] /\ Alike(outbox', outbox) /\ NoneProcessed(outbox', outbox)
  BY <1>1, <1>2, <1>3, <1>5 DEF Alike, NoneProcessed
<1>7. HandlerOK' /\ Others(w) /\ handler'[w] = h
  BY <1>1, <1>4, <1>5 DEF HandlerOK, Others
<1>8. TypeOK'
  BY <1>5, <1>6, <1>7 DEF Inv, TypeOK, FeedTypeOK, HandlerOK, canonVars
<1>9. \A t \in Target, n \in Notification : index[t][n] <= index'[t][n] /\ index'[t][n] <= canon[n].rev
  BY <1>5 DEF Inv, TypeOK, FeedTypeOK, ProjectionInv, IndexNeverAhead
<1>10. \A v \in Handler : handler'[v].pc = "ack" => SameStep(v)
  BY <1>4, <1>7 DEF Others, SameStep, SameJob
<1>11. WorkerFrame
  BY <1>5, <1>6, <1>9, <1>10 DEF WorkerFrame, NoneProcessed, SameStep, SameJob
<1>12. s \in Committed
  BY <1>2 DEF Committed
<1>13. OnCourse(w)'
  BY <1>4, <1>7, <1>8, <1>11, <1>12, FrameGrows DEF OnCourse
<1> QED
  BY <1>7, <1>8, <1>11, <1>13, FrameGrows, OthersOnCourse

LEMMA EndStep ==
    ASSUME Inv, UNCHANGED <<canonVars, target, index, alias, fence, run, op, replayed>>,
           trouble' \in 0..MaxWork, NEW w \in Handler, NEW rows \in [Seqs -> Row],
           Alike(rows, outbox),
           \A s \in Seqs : rows[s].status = "processed" =>
              outbox[s].status = "processed" \/ (handler[w].pc = "done" /\ handler[w].job = s),
           outbox' = JobsWithout(rows, w), delivery' = DeliveriesWithout(w),
           handler' = [handler EXCEPT ![w] = Free]
    PROVE  TypeOK' /\ WorkerFrame /\ HandlerInv'
<1>1. outbox' \in [Seqs -> Row] /\ Alike(outbox', outbox)
      /\ \A s \in Seqs : outbox'[s].status = rows[s].status
  BY WithoutRows DEF Alike
<1>2. delivery' \in [Seqs -> [Target -> Delivery]]
      /\ \A s \in Seqs, t \in Target : delivery'[s][t].status = delivery[s][t].status
  BY WithoutDeliveries DEF Inv
<1>3. HandlerOK' /\ Others(w) /\ handler'[w] = Free
  BY Values DEF Inv, TypeOK, FeedTypeOK, HandlerOK, Others
<1>4. TypeOK'
  BY <1>1, <1>2, <1>3 DEF Inv, TypeOK, FeedTypeOK, HandlerOK, canonVars
<1>5. \A t \in Target, n \in Notification : index[t][n] <= index'[t][n] /\ index'[t][n] <= canon[n].rev
  BY DEF Inv, TypeOK, FeedTypeOK, ProjectionInv, IndexNeverAhead
<1>6. \A v \in Handler : handler'[v].pc = "ack" => SameStep(v)
  BY <1>3 DEF Others, SameStep, SameJob, Free
<1>7. WorkerFrame
  <2>1. \A s \in Seqs : outbox'[s].status = "processed" =>
            outbox[s].status = "processed" \/ \E v \in Handler : handler[v].pc = "done" /\ handler[v].job = s
    BY <1>1
  <2> QED
    BY <1>1, <1>2, <1>5, <1>6, <2>1 DEF WorkerFrame, SameStep, SameJob
<1>8. OnCourse(w)'
  BY <1>3 DEF OnCourse, Free
<1> QED
  BY <1>3, <1>4, <1>7, <1>8, FrameGrows, OthersOnCourse

LEMMA SettleJobStep ==
    ASSUME Inv, UNCHANGED <<run, op, replayed>>, NEW w \in Handler, SettleJob(w)
    PROVE  TypeOK' /\ WorkerFrame /\ HandlerInv'
<1>1. PICK st \in {"pending", "processed", "dead_letter"} :
          End(w, st) /\ (st = "processed" => handler[w].pc = "done")
  BY RetryOrBuryType DEF SettleJob
<1>2. /\ Settled(w, st) \in [Seqs -> Row] /\ Alike(Settled(w, st), outbox)
      /\ \A s \in Seqs : Settled(w, st)[s].status = "processed" =>
            outbox[s].status = "processed" \/ (handler[w].pc = "done" /\ handler[w].job = s)
  BY <1>1, SettledRows DEF Inv
<1>3. trouble' \in 0..MaxWork
  BY DEF SettleJob, Inv, TypeOK, FeedTypeOK
<1> QED
  BY <1>1, <1>2, <1>3, EndStep DEF SettleJob, End

LEMMA CrashHandlerStep ==
    ASSUME Inv, UNCHANGED <<run, op, replayed>>, NEW w \in Handler, CrashHandler(w)
    PROVE  TypeOK' /\ WorkerFrame /\ HandlerInv'
<1>1. outbox \in [Seqs -> Row] /\ Alike(outbox, outbox) /\ trouble' \in 0..MaxWork
  BY TroubleType DEF CrashHandler, Inv, TypeOK, FeedTypeOK, Alike
<1> QED
  BY <1>1, EndStep DEF CrashHandler

LEMMA ProjectStep ==
    ASSUME Inv, UNCHANGED <<run, op, replayed>>, NEW w \in Handler, Project(w)
    PROVE  TypeOK' /\ WorkerFrame /\ HandlerInv'
<1> DEFINE j == handler[w].job
           t == handler[w].at
           n == outbox[j].note
           r == handler[w].rev
<1>1. handler[w].pc = "project" /\ UNCHANGED <<canonVars, rowVars, target, alias, fence, trouble>>
  BY DEF Project
<1>2. OnCourse(w) /\ handler[w] \in Work
  BY DEF Inv, ProjectionInv, HandlerInv, TypeOK, FeedTypeOK
<1>3. j \in Committed /\ j \in Seqs /\ t \in Target
  BY <1>1, <1>2 DEF OnCourse, Committed
<1>4. n \in Notification /\ r \in Nat /\ r <= canon[n].rev
  <2>1. n \in Notification /\ outbox[j].rev \in Nat
    BY <1>3 DEF Inv, ProjectionInv, RowInv, TypeOK, FeedTypeOK, Row
  <2>2. canon[n].rev \in Nat
    BY <2>1 DEF Inv, TypeOK, FeedTypeOK
  <2> QED
    BY <1>1, <1>2, <2>1, <2>2 DEF OnCourse, Work
<1>5. index' = [index EXCEPT ![t][n] = Larger(index[t][n], r)] /\ Goto(w, "ack")
  BY DEF Project
<1>6. HandlerOK' /\ Others(w) /\ SameJob(w)
      /\ handler'[w].pc = "ack" /\ handler'[w].at = handler[w].at /\ handler'[w].todo = handler[w].todo
  BY <1>5, GotoFacts DEF Inv
<1>7. index \in [Target -> [Notification -> Nat]]
  BY DEF Inv, TypeOK, FeedTypeOK
<1>8. index[t][n] \in Nat /\ Larger(index[t][n], r) \in Nat
      /\ index[t][n] <= Larger(index[t][n], r) /\ r <= Larger(index[t][n], r)
      /\ (Larger(index[t][n], r) = index[t][n] \/ Larger(index[t][n], r) = r)
  BY <1>3, <1>4, <1>7 DEF Larger
<1>9. index' \in [Target -> [Notification -> Nat]] /\ r <= index'[t][n]
  BY <1>3, <1>4, <1>5, <1>7, <1>8
<1>10. TypeOK'
  BY <1>1, <1>6, <1>9 DEF Inv, TypeOK, FeedTypeOK, HandlerOK, canonVars, rowVars
<1>11. ASSUME NEW u \in Target, NEW m \in Notification
       PROVE  index[u][m] <= index'[u][m] /\ index'[u][m] <= canon[m].rev
  <2>1. index[u][m] \in Nat /\ canon[m].rev \in Nat /\ index[u][m] <= canon[m].rev
    BY <1>7 DEF Inv, TypeOK, FeedTypeOK, ProjectionInv, IndexNeverAhead
  <2>2. CASE u = t /\ m = n
    <3>1. index'[u][m] = Larger(index[u][m], r)
      BY <1>3, <1>4, <1>5, <1>7, <2>2
    <3> QED
      BY <2>1, <2>2, <3>1, <1>4, <1>8
  <2>3. CASE ~(u = t /\ m = n)
    <3>1. index'[u][m] = index[u][m]
      BY <1>3, <1>4, <1>5, <1>7, <2>3
    <3> QED
      BY <2>1, <3>1
  <2> QED
    BY <2>2, <2>3
<1>12. \A v \in Handler : handler'[v].pc = "ack" =>
          /\ handler'[v].job = handler[v].job /\ handler'[v].at = handler[v].at
          /\ handler'[v].rev = handler[v].rev
          /\ \/ handler[v].pc = "ack"
             \/ /\ handler[v].pc = "project"
                /\ handler[v].rev <= index'[handler[v].at][outbox[handler[v].job].note]
  BY <1>1, <1>6, <1>9 DEF Others, SameJob
<1>13. WorkerFrame
  BY <1>1, <1>11, <1>12 DEF WorkerFrame, Alike, rowVars
<1>14. OnCourse(w)'
  BY <1>1, <1>2, <1>6, FrameGrows DEF OnCourse, SameJob, Committed, Owed, Fed, Eligible, canonVars, rowVars
<1> QED
  BY <1>6, <1>10, <1>13, <1>14, FrameGrows, OthersOnCourse

LEMMA DeliveryUpdate ==
    ASSUME TypeOK, NEW s \in Seqs, NEW t \in Target, NEW d \in Delivery,
           delivery[s][t].status = "processed" => d.status = "processed"
    PROVE  LET e == [delivery EXCEPT ![s][t] = d]
           IN  /\ e \in [Seqs -> [Target -> Delivery]]
               /\ \A q \in Seqs, u \in Target :
                     /\ delivery[q][u].status = "processed" => e[q][u].status = "processed"
                     /\ e[q][u].status = "processed" => 
                           delivery[q][u].status = "processed" \/ (q = s /\ u = t /\ d.status = "processed")
               /\ e[s][t] = d
<1>1. delivery \in [Seqs -> [Target -> Delivery]]
  BY DEF TypeOK, FeedTypeOK
<1> QED
  BY <1>1

\* A step that moves one handler and touches deliveries without finishing one.
LEMMA DeliveryFrame ==
    ASSUME Inv, UNCHANGED <<canonVars, outbox, target, index, alias, fence, run, op, replayed>>,
           HandlerOK', trouble' \in 0..MaxWork, NEW w \in Handler, Others(w), handler'[w].pc # "ack",
           delivery' \in [Seqs -> [Target -> Delivery]],
           \A s \in Seqs, t \in Target :
              delivery'[s][t].status = "processed" <=> delivery[s][t].status = "processed"
    PROVE  TypeOK' /\ WorkerFrame
<1>1. TypeOK'
  BY DEF Inv, TypeOK, FeedTypeOK, HandlerOK, canonVars
<1>2. \A t \in Target, n \in Notification : index[t][n] <= index'[t][n] /\ index'[t][n] <= canon[n].rev
  BY DEF Inv, TypeOK, FeedTypeOK, ProjectionInv, IndexNeverAhead
<1>3. \A v \in Handler : handler'[v].pc = "ack" => SameStep(v)
  BY DEF Others, SameStep, SameJob
<1> QED
  BY <1>1, <1>2, <1>3 DEF WorkerFrame, Alike, SameStep, SameJob

LEMMA RejectStep ==
    ASSUME Inv, UNCHANGED <<run, op, replayed>>, NEW w \in Handler, NEW permanent \in BOOLEAN,
           Reject(w, permanent)
    PROVE  TypeOK' /\ WorkerFrame /\ HandlerInv'
<1> DEFINE j == handler[w].job
           t == handler[w].at
           d == [NoDelivery EXCEPT !.status = IF permanent THEN "dead_letter" ELSE "pending"]
<1>1. PICK pc \in {"retry", "bury"} : Leave(w, pc)
  BY DEF Reject
<1>2. HandlerOK' /\ Others(w) /\ SameJob(w) /\ handler'[w].pc = pc /\ handler[w].pc = "project"
  BY <1>1, LeaveFacts DEF Inv, Reject
<1>3. trouble' \in 0..MaxWork /\ UNCHANGED <<canonVars, outbox, target, index, alias, fence>>
  BY TroubleType DEF Reject, Inv
<1>4. OnCourse(w)
  BY DEF Inv, ProjectionInv, HandlerInv
<1>5. j \in Seqs /\ t \in Target
  BY <1>2, <1>4 DEF OnCourse, Committed
<1>6. d \in Delivery /\ d.status # "processed"
  BY Values DEF NoDelivery, Delivery
<1>7. /\ delivery' \in [Seqs -> [Target -> Delivery]]
      /\ \A s \in Seqs, u \in Target :
            delivery'[s][u].status = "processed" <=> delivery[s][u].status = "processed"
  <2>1. CASE HeldDelivery(w)
    <3>1. delivery[j][t].status = "leased"
      BY <2>1 DEF HeldDelivery
    <3>2. delivery' = [delivery EXCEPT ![j][t] = d]
      BY <2>1 DEF Reject
    <3> QED
      BY <1>5, <1>6, <3>1, <3>2, DeliveryUpdate DEF Inv
  <2>2. CASE ~HeldDelivery(w)
    <3>1. delivery' = delivery
      BY <2>2 DEF Reject
    <3> QED
      BY <3>1 DEF Inv, TypeOK, FeedTypeOK
  <2> QED
    BY <2>1, <2>2
<1>8. TypeOK' /\ WorkerFrame
  BY <1>2, <1>3, <1>7, DeliveryFrame
<1>9. OnCourse(w)'
  BY <1>2, <1>8, FrameGrows, StoppedOnCourse
<1> QED
  BY <1>2, <1>8, <1>9, FrameGrows, OthersOnCourse

LEMMA LeaseDeliveryStep ==
    ASSUME Inv, UNCHANGED <<run, op, replayed>>, NEW w \in Handler, LeaseDelivery(w)
    PROVE  TypeOK' /\ WorkerFrame /\ HandlerInv'
<1> DEFINE j == handler[w].job
           t == handler[w].at
<1>1. handler[w].pc = "lease" /\ UNCHANGED <<canonVars, outbox, target, index, alias, fence, trouble>>
  BY DEF LeaseDelivery
<1>2. OnCourse(w) /\ handler[w] \in Work /\ trouble' \in 0..MaxWork
  BY <1>1 DEF Inv, ProjectionInv, HandlerInv, TypeOK, FeedTypeOK
<1>3. j \in Seqs /\ t \in Target
  BY <1>1, <1>2 DEF OnCourse, Committed
<1>4. CASE Leave(w, "retry") /\ UNCHANGED delivery
  BY <1>1, <1>2, <1>4, StopStep DEF rowVars
<1>5. ASSUME delivery[j][t].status \in {"pending", "leased"}, Goto(w, "project"), NEW v \in BOOLEAN,
             delivery' = [delivery EXCEPT ![j][t] = [status |-> "leased", by |-> w, valid |-> v]]
      PROVE  TypeOK' /\ WorkerFrame /\ HandlerInv'
  <2> DEFINE d == [status |-> "leased", by |-> w, valid |-> v]
  <2>1. d \in Delivery /\ d.status = "leased"
    BY DEF Delivery
  <2>2. /\ delivery' \in [Seqs -> [Target -> Delivery]]
        /\ \A s \in Seqs, u \in Target :
              delivery'[s][u].status = "processed" <=> delivery[s][u].status = "processed"
    BY <1>3, <1>5, <2>1, DeliveryUpdate DEF Inv
  <2>3. HandlerOK' /\ Others(w) /\ SameJob(w)
        /\ handler'[w].pc = "project" /\ handler'[w].at = handler[w].at /\ handler'[w].todo = handler[w].todo
    BY <1>5, GotoFacts DEF Inv
  <2>4. TypeOK' /\ WorkerFrame
    BY <1>1, <1>2, <2>2, <2>3, DeliveryFrame
  <2>5. OnCourse(w)'
    BY <1>1, <1>2, <1>3, <2>2, <2>3 DEF OnCourse, SameJob, Committed, Owed, Fed, Eligible, canonVars
  <2> QED
    BY <2>3, <2>4, <2>5, FrameGrows, OthersOnCourse
<1> QED
  BY <1>4, <1>5 DEF LeaseDelivery

LEMMA ItemType ==
    ASSUME NEW rank \in 0..2, NEW t \in Target, NEW dead \in BOOLEAN
    PROVE  [rank |-> rank, to |-> t, dead |-> dead] \in Item /\ [rank |-> rank, to |-> t, dead |-> dead].to = t
  BY DEF Item

LEMMA PrepareStep ==
    ASSUME Inv, UNCHANGED <<run, op, replayed>>, NEW w \in Handler, Prepare(w)
    PROVE  TypeOK' /\ WorkerFrame /\ HandlerInv'
<1> DEFINE j == handler[w].job
           required == {t \in Target : IsRequired(t, j)}
           item(t) == [rank |-> Rank(t), to |-> t, dead |-> delivery[j][t].status = "dead_letter"]
           todo == {item(t) : t \in {u \in required : delivery[j][u].status # "processed"}}
<1>1. handler[w].pc = "prepare" /\ UNCHANGED <<canonVars, outbox, target, index, alias, fence, trouble>>
  BY DEF Prepare
<1>2. OnCourse(w) /\ handler[w] \in Work /\ trouble' \in 0..MaxWork
  BY <1>1 DEF Inv, ProjectionInv, HandlerInv, TypeOK, FeedTypeOK
<1>3. j \in Seqs
  BY <1>1, <1>2 DEF OnCourse, Committed
<1>4a. ASSUME NEW t \in Target PROVE item(t) \in Item /\ item(t).to = t
  <2>1. Rank(t) \in 0..2
    BY DEF Rank
  <2>2. (delivery[j][t].status = "dead_letter") \in BOOLEAN
    OBVIOUS
  <2> QED
    BY <2>1, <2>2, ItemType
<1>4. todo \in SUBSET Item
  <2> HIDE DEF item
  <2> QED
    BY <1>4a
<1>5. Continue(w, todo)
  BY DEF Prepare
<1>6. HandlerOK' /\ Others(w) /\ SameJob(w) /\ handler'[w].pc # "ack"
  BY <1>4, <1>5, ContinueFacts DEF Inv
<1>7. /\ delivery' \in [Seqs -> [Target -> Delivery]]
      /\ \A s \in Seqs, t \in Target :
            delivery'[s][t].status = "processed" <=> delivery[s][t].status = "processed"
  <2> DEFINE d == [NoDelivery EXCEPT !.status = "pending"]
             row == [t \in Target |-> IF t \in required /\ delivery[j][t].status = "none" THEN d ELSE delivery[j][t]]
  <2>1. d \in Delivery /\ d.status # "processed"
    BY Values DEF NoDelivery, Delivery
  <2>2. delivery \in [Seqs -> [Target -> Delivery]]
    BY DEF Inv, TypeOK, FeedTypeOK
  <2>3. row \in [Target -> Delivery]
        /\ \A t \in Target : row[t].status = "processed" <=> delivery[j][t].status = "processed"
    BY <1>3, <2>1, <2>2
  <2>4. delivery' = [delivery EXCEPT ![j] = row]
    BY DEF Prepare
  <2> QED
    BY <1>3, <2>2, <2>3, <2>4
<1>8. TypeOK' /\ WorkerFrame
  BY <1>1, <1>2, <1>6, <1>7, DeliveryFrame
<1>9. ASSUME NEW t \in Target, Owed(t, handler[w].job)'
      PROVE  delivery'[j][t].status = "processed" \/ \E i \in todo : i.to = t
  <2>1. Owed(t, j)
    BY <1>1, <1>6, <1>9 DEF Owed, Fed, Eligible, SameJob
  <2>2. t \in required
    BY <2>1 DEF Owed, Fed, Eligible, IsRequired
  <2>3. CASE delivery[j][t].status = "processed"
    BY <1>3, <1>7, <2>3
  <2>4. CASE delivery[j][t].status # "processed"
    <3>1. item(t) \in todo
      BY <2>2, <2>4
    <3> QED
      BY <1>4a, <3>1
  <2> QED
    BY <2>3, <2>4
<1>10. OnCourse(w)'
  <2>1. \A t \in Target : Owed(t, handler[w].job)' =>
            delivery'[handler[w].job][t].status = "processed" \/ \E i \in todo : i.to = t
    BY <1>9
  <2> HIDE DEF todo
  <2> QED
    BY <1>1, <1>4, <1>5, <1>8, <2>1, FrameGrows, ContinueOnCourse
<1> QED
  BY <1>6, <1>8, <1>10, FrameGrows, OthersOnCourse

LEMMA AcknowledgeDeliveryStep ==
    ASSUME Inv, UNCHANGED <<run, op, replayed>>, NEW w \in Handler, AcknowledgeDelivery(w)
    PROVE  TypeOK' /\ WorkerFrame /\ HandlerInv'
<1> DEFINE j == handler[w].job
           t == handler[w].at
           d == [NoDelivery EXCEPT !.status = "processed"]
           todo == handler[w].todo
<1>1. handler[w].pc = "ack" /\ UNCHANGED <<canonVars, outbox, index, alias, fence, trouble>>
  BY DEF AcknowledgeDelivery
<1>2. OnCourse(w) /\ handler[w] \in Work /\ trouble' \in 0..MaxWork
  BY <1>1 DEF Inv, ProjectionInv, HandlerInv, TypeOK, FeedTypeOK
<1>3. j \in Seqs /\ t \in Target /\ todo \in SUBSET Item
  BY <1>1, <1>2 DEF OnCourse, Committed, Work
<1>4. CASE Leave(w, "retry") /\ UNCHANGED <<delivery, target>>
  BY <1>1, <1>2, <1>4, StopStep DEF rowVars
<1>5. ASSUME HeldDelivery(w), delivery' = [delivery EXCEPT ![j][t] = d], NEW c \in 0..MaxWork,
             target' = [target EXCEPT ![t].checkpoint = c], Continue(w, todo)
      PROVE  TypeOK' /\ WorkerFrame /\ HandlerInv'
  <2>1. d \in Delivery /\ d.status = "processed"
    BY Values DEF NoDelivery, Delivery
  <2>2. /\ delivery' \in [Seqs -> [Target -> Delivery]]
        /\ \A q \in Seqs, u \in Target :
              /\ delivery[q][u].status = "processed" => delivery'[q][u].status = "processed"
              /\ delivery'[q][u].status = "processed" =>
                    delivery[q][u].status = "processed" \/ (q = j /\ u = t)
        /\ delivery'[j][t] = d
    <3> HIDE DEF d
    <3> QED
      BY <1>3, <1>5, <2>1, DeliveryUpdate DEF Inv
  <2>3. /\ target' \in [Target -> TargetRow]
        /\ \A u \in Target : /\ target'[u].status = target[u].status /\ target'[u].from = target[u].from
                             /\ target'[u].window = target[u].window
    <3> DEFINE r == [target[t] EXCEPT !.checkpoint = c]
    <3>1. target \in [Target -> TargetRow] /\ target[t] \in TargetRow
      BY <1>3 DEF Inv, TypeOK, FeedTypeOK
    <3>2. r \in TargetRow /\ r.status = target[t].status /\ r.from = target[t].from /\ r.window = target[t].window
      BY <3>1 DEF TargetRow
    <3>3. target' = [target EXCEPT ![t] = r]
      BY <1>5
    <3> QED
      BY <1>3, <3>1, <3>2, <3>3
  <2>4. HandlerOK' /\ Others(w) /\ SameJob(w) /\ handler'[w].pc # "ack"
    BY <1>3, <1>5, ContinueFacts DEF Inv
  <2>5. TypeOK'
    BY <1>1, <2>2, <2>3, <2>4 DEF Inv, TypeOK, FeedTypeOK, HandlerOK, canonVars
  <2>6. WorkerFrame
    <3>1. \A u \in Target, n \in Notification : index[u][n] <= index'[u][n] /\ index'[u][n] <= canon[n].rev
      BY <1>1 DEF Inv, TypeOK, FeedTypeOK, ProjectionInv, IndexNeverAhead
    <3>2. \A v \in Handler : handler'[v].pc = "ack" => SameStep(v)
      BY <2>4 DEF Others, SameStep, SameJob
    <3> QED
      BY <1>1, <2>2, <2>3, <3>1, <3>2 DEF WorkerFrame, Alike, SameStep, SameJob
  <2>7. \A u \in Target : Owed(u, handler[w].job)' =>
            delivery'[handler[w].job][u].status = "processed" \/ \E i \in todo : i.to = u
    <3> SUFFICES ASSUME NEW u \in Target, Owed(u, handler[w].job)'
                 PROVE  delivery'[j][u].status = "processed" \/ \E i \in todo : i.to = u
      OBVIOUS
    <3>1. Owed(u, j)
      BY <2>3, <2>4 DEF Owed, Fed, Eligible, SameJob
    <3>2. delivery[j][u].status = "processed" \/ t = u \/ \E i \in todo : i.to = u
      BY <1>1, <1>2, <3>1 DEF OnCourse
    <3> QED
      BY <1>3, <2>1, <2>2, <3>2
  <2>8. OnCourse(w)'
    BY <1>1, <1>3, <1>5, <2>5, <2>6, <2>7, FrameGrows, ContinueOnCourse
  <2> QED
    BY <2>4, <2>5, <2>6, <2>8, FrameGrows, OthersOnCourse
<1> QED
  BY <1>4, <1>5 DEF AcknowledgeDelivery

LEMMA LapseStep ==
    ASSUME Inv, UNCHANGED <<canonVars, target, index, alias, fence, handler, run, op, replayed>>,
           trouble' \in 0..MaxWork, outbox' \in [Seqs -> Row],
           Alike(outbox', outbox), NoneProcessed(outbox', outbox),
           delivery' \in [Seqs -> [Target -> Delivery]],
           \A s \in Seqs, t \in Target :
              delivery'[s][t].status = "processed" <=> delivery[s][t].status = "processed"
    PROVE  TypeOK' /\ WorkerFrame /\ HandlerInv'
<1>1. TypeOK'
  BY DEF Inv, TypeOK, FeedTypeOK, canonVars
<1>2. \A t \in Target, n \in Notification : index[t][n] <= index'[t][n] /\ index'[t][n] <= canon[n].rev
  BY DEF Inv, TypeOK, FeedTypeOK, ProjectionInv, IndexNeverAhead
<1>3. WorkerFrame
  BY <1>2 DEF WorkerFrame, NoneProcessed
<1>4. \A v \in Handler : OnCourse(v)'
  BY <1>1, <1>3, FrameGrows, OtherOnCourse DEF SameStep, SameJob
<1> QED
  BY <1>1, <1>3, <1>4 DEF HandlerInv

LEMMA LapseJobStep ==
    ASSUME Inv, UNCHANGED <<run, op, replayed>>, NEW s \in Seqs, LapseJob(s)
    PROVE  TypeOK' /\ WorkerFrame /\ HandlerInv'
<1> DEFINE r == [outbox[s] EXCEPT !.valid = FALSE]
<1>1. outbox \in [Seqs -> Row] /\ outbox[s] \in Row
  BY DEF Inv, TypeOK, FeedTypeOK
<1>2. r \in Row /\ r.note = outbox[s].note /\ r.rev = outbox[s].rev /\ r.status = outbox[s].status
  BY <1>1 DEF Row
<1>3. outbox' = [outbox EXCEPT ![s] = r]
  BY DEF LapseJob
<1>4. outbox' \in [Seqs -> Row] /\ Alike(outbox', outbox) /\ NoneProcessed(outbox', outbox)
  BY <1>1, <1>2, <1>3 DEF Alike, NoneProcessed
<1>5. trouble' \in 0..MaxWork /\ delivery' \in [Seqs -> [Target -> Delivery]]
  BY TroubleType DEF LapseJob, Inv, TypeOK, FeedTypeOK
<1> QED
  BY <1>4, <1>5, LapseStep DEF LapseJob

LEMMA LapseDeliveryStep ==
    ASSUME Inv, UNCHANGED <<run, op, replayed>>, NEW s \in Seqs, NEW t \in Target, LapseDelivery(s, t)
    PROVE  TypeOK' /\ WorkerFrame /\ HandlerInv'
<1> DEFINE d == [delivery[s][t] EXCEPT !.valid = FALSE]
<1>1. delivery[s][t] \in Delivery /\ delivery[s][t].status = "leased"
  BY DEF LapseDelivery, Inv, TypeOK, FeedTypeOK
<1>2. d \in Delivery /\ d.status = "leased"
  BY <1>1 DEF Delivery
<1>3. delivery' = [delivery EXCEPT ![s][t] = d]
  BY DEF LapseDelivery
<1>4. /\ delivery' \in [Seqs -> [Target -> Delivery]]
      /\ \A q \in Seqs, u \in Target :
            delivery'[q][u].status = "processed" <=> delivery[q][u].status = "processed"
  BY <1>2, <1>3, DeliveryUpdate DEF Inv
<1>5. trouble' \in 0..MaxWork /\ outbox' \in [Seqs -> Row]
      /\ Alike(outbox', outbox) /\ NoneProcessed(outbox', outbox)
  BY TroubleType DEF LapseDelivery, Inv, TypeOK, FeedTypeOK, Alike, NoneProcessed
<1> QED
  BY <1>4, <1>5, LapseStep DEF LapseDelivery

\* The steps of the workers together.
WorkerNext ==
    \/ \E w \in Handler :
         \/ \E s \in Seqs : Claim(w, s)
         \/ HandlerStep(w)
         \/ \E permanent \in BOOLEAN : Reject(w, permanent)
         \/ Unanswered(w) \/ Deadline(w) \/ LeaseLoss(w) \/ StopAborted(w) \/ CrashHandler(w)
    \/ \E s \in Seqs : LapseJob(s) \/ \E t \in Target : LapseDelivery(s, t)

LEMMA WorkerStep ==
    ASSUME Inv, UNCHANGED <<run, op, replayed>>, WorkerNext
    PROVE  TypeOK' /\ WorkerFrame /\ HandlerInv'
  BY ClaimStep, LoadStep, PrepareStep, LeaseDeliveryStep, ProjectStep, AcknowledgeDeliveryStep,
     SettleJobStep, RejectStep, UnansweredStep, DeadlineStep, LeaseLossStep, StopAbortedStep,
     CrashHandlerStep, LapseJobStep, LapseDeliveryStep
     DEF WorkerNext, HandlerStep

-----------------------------------------------------------------------------
(* The parts of the invariant that a step leaves alone *)

SameTargets == \A t \in Target :
    /\ target'[t].status = target[t].status /\ target'[t].from = target[t].from
    /\ target'[t].window = target[t].window

\* The fence of a rollback keeps what it was taken for while nothing is committed.
LEMMA FenceFrame ==
    ASSUME Inv, UNCHANGED <<op, fence, open>>, SameTargets, Grows, Committed' = Committed,
           op.cmd = "rollback", HoldsFence
    PROVE  HoldsFence'
<1>1. op.to \in Target /\ target'[op.to].from = target[op.to].from
  BY DEF Inv, ProjectionInv, OpInv, SameTargets
<1>2. \A s \in Committed : delivery[s][op.to].status = "processed" => delivery'[s][op.to].status = "processed"
  BY <1>1 DEF Grows, Committed
<1>3. Incomplete(op.to, target[op.to].from, MaxWork)' = {}
  BY <1>1, <1>2 DEF HoldsFence, Incomplete
<1> QED
  BY <1>3 DEF HoldsFence, WritersDrained

LEMMA OpFrame ==
    ASSUME Inv, TypeOK', UNCHANGED <<run, op, alias>>, SameTargets,
           \A n \in Notification : canon[n].rev <= canon'[n].rev,
           op.cmd = "rollback" /\ HoldsFence => HoldsFence'
    PROVE  OpInv'
<1> USE DEF Inv, ProjectionInv
<1>1. OpInv
  OBVIOUS
<1>2. \A n \in Notification : canon[n].rev \in Nat /\ canon'[n].rev \in Nat
  BY DEF TypeOK, FeedTypeOK
<1>3. op.rev \in Nat /\ op.live \in Docs /\ op.gone \in Docs /\ op.fix \in Docs
  BY DEF TypeOK, Command
<1>4. op.pc \in {"write", "mark"} => op.doc \in Notification /\ op.rev <= canon'[op.doc].rev
  BY <1>1, <1>2, <1>3 DEF OpInv
<1>5. \A n \in Notification :
          op.live[n] <= canon'[n].rev /\ op.gone[n] <= canon'[n].rev /\ op.fix[n] <= canon'[n].rev
  BY <1>1, <1>2, <1>3 DEF OpInv, Docs
<1>6. op.cmd = "rollback" =>
          /\ op.from \in Target /\ op.to \in Target
          /\ op.pc \in {"begin", "swap", "commit"}
          /\ op.pc = "commit" =>
                /\ alias' = op.to /\ HoldsFence'
                /\ target'[op.to].status = "rollback" /\ target'[op.from].status = "primary"
  BY <1>1 DEF OpInv, SameTargets
<1> QED
  BY <1>1, <1>4, <1>5, <1>6 DEF OpInv

LEMMA RunFrame == ASSUME Inv, UNCHANGED run, SameTargets PROVE RunInv'
  BY DEF Inv, ProjectionInv, RunInv, SameTargets

LEMMA AliasFrame == ASSUME Inv, UNCHANGED <<run, alias>>, SameTargets PROVE PrimaryInv'
<1>1. alias \in Target
  BY DEF Inv, TypeOK, FeedTypeOK
<1>2. {t \in Target : target'[t].status = "primary"} = {t \in Target : target[t].status = "primary"}
  BY DEF SameTargets
<1> QED
  BY <1>1, <1>2 DEF Inv, ProjectionInv, PrimaryInv, SameTargets

LEMMA TrustedFrame ==
    ASSUME UNCHANGED <<run, op>>, SameTargets, NEW t \in Target
    PROVE  Trusted(t)' <=> Trusted(t)
  BY DEF Trusted, SameTargets

LEMMA DrawFrame ==
    ASSUME Inv, UNCHANGED <<open, drawn>>, Committed' = Committed,
           \A t \in Target : target'[t].from = target[t].from
    PROVE  DrawInv'
  BY DEF Inv, ProjectionInv, DrawInv

LEMMA RowFrame ==
    ASSUME Inv, UNCHANGED canonVars, Alike(outbox', outbox), Committed' = Committed,
           \A s \in Seqs, t \in Target : delivery'[s][t].status = "processed" => s \in Committed
    PROVE  RowInv'
<1>1. \A s \in Committed : outbox'[s].note = outbox[s].note /\ outbox'[s].rev = outbox[s].rev
  BY DEF Alike, Committed
<1> QED
  BY <1>1 DEF Inv, ProjectionInv, RowInv, canonVars

\* What a reconciliation will expect stays when nobody changes a notification.
LEMMA KnownFrame ==
    ASSUME UNCHANGED <<canon, op>>, NEW n
    PROVE  Known(n)' = Known(n)
  BY DEF Known, Expected

LEMMA WorkerKeepsNothingLost == ASSUME Inv, TypeOK', WorkerFrame PROVE NothingLost'
<1>1. Committed' = Committed /\ SameTargets
  BY FrameGrows DEF WorkerFrame, SameTargets
<1>2. ASSUME NEW t \in Target, NEW n \in Notification, NEW r \in Nat, Seen(t, n, r)
      PROVE  Seen(t, n, r)'
  <2>1. index[t][n] \in Nat /\ index'[t][n] \in Nat /\ index[t][n] <= index'[t][n]
    BY DEF WorkerFrame, Inv, TypeOK, FeedTypeOK
  <2>2. Known(n)' = Known(n) /\ (Checking' <=> Checking)
    BY KnownFrame DEF WorkerFrame, canonVars, Checking
  <2> QED
    BY <1>2, <2>1, <2>2 DEF Seen, WorkerFrame
<1> SUFFICES ASSUME NEW t \in Target, Trusted(t)'
             PROVE  /\ \A s \in Committed : \A n, r :
                          /\ s <= target[t].from \/ delivery'[s][t].status = "processed"
                          /\ n = outbox[s].note /\ r = outbox[s].rev
                          => Seen(t, n, r)'
                    /\ \A w \in Handler : \A n, r :
                          /\ handler'[w].pc = "ack" /\ handler'[w].at = t
                          /\ n = outbox[handler[w].job].note /\ r = handler[w].rev
                          => Seen(t, n, r)'
  <2>1. \A s \in Committed : outbox'[s].note = outbox[s].note /\ outbox'[s].rev = outbox[s].rev
    BY DEF WorkerFrame, Alike, Committed
  <2>2. \A w \in Handler : handler[w].pc \in {"ack", "project"} => handler[w].job \in Committed
    BY DEF Inv, ProjectionInv, HandlerInv, OnCourse
  <2>3. \A w \in Handler : handler'[w].pc = "ack" =>
           /\ handler[w].pc \in {"ack", "project"}
           /\ handler'[w].job = handler[w].job /\ handler'[w].at = handler[w].at /\ handler'[w].rev = handler[w].rev
    BY DEF WorkerFrame
  <2>4. ASSUME NEW t \in Target, Trusted(t)', NEW s \in Committed,
               s <= target'[t].from \/ delivery'[s][t].status = "processed"
        PROVE  Seen(t, outbox[s].note, outbox[s].rev)'
    BY <1>1, <2>1, <2>4 DEF SameTargets
  <2>5. ASSUME NEW t \in Target, Trusted(t)', NEW w \in Handler, handler'[w].pc = "ack", handler'[w].at = t
        PROVE  Seen(t, outbox[handler[w].job].note, handler[w].rev)'
    BY <2>1, <2>2, <2>3, <2>5
  <2> QED
    BY <1>1, <2>4, <2>5 DEF NothingLost
<1>3. Trusted(t) /\ t \in Target
  BY <1>1, TrustedFrame DEF WorkerFrame
<1>4. \A s \in Committed : outbox[s].note \in Notification /\ outbox[s].rev \in Nat
  BY DEF Inv, ProjectionInv, RowInv, TypeOK, FeedTypeOK, Row, Committed
<1>5. \A w \in Handler : handler[w].pc \in {"ack", "project"} =>
         handler[w].job \in Committed /\ handler[w].rev \in Nat /\ outbox[handler[w].job].rev <= handler[w].rev
  <2> SUFFICES ASSUME NEW w \in Handler, handler[w].pc \in {"ack", "project"}
               PROVE  handler[w].job \in Committed /\ handler[w].rev \in Nat
                      /\ outbox[handler[w].job].rev <= handler[w].rev
    OBVIOUS
  <2>1. OnCourse(w) /\ handler[w] \in Work
    BY DEF Inv, ProjectionInv, HandlerInv, TypeOK, FeedTypeOK
  <2> QED
    BY <2>1 DEF OnCourse, Work
<1>6. ASSUME NEW w \in Handler, handler[w].pc = "ack", handler[w].at = t
      PROVE  Seen(t, outbox[handler[w].job].note, handler[w].rev)
  BY <1>3, <1>6 DEF Inv, ProjectionInv, NothingLost
<1>7. ASSUME NEW s \in Committed, NEW n, NEW r, n = outbox[s].note, r = outbox[s].rev,
             s <= target[t].from \/ delivery'[s][t].status = "processed"
      PROVE  Seen(t, n, r)'
  <2>1. CASE s <= target[t].from \/ delivery[s][t].status = "processed"
    <3>1. Seen(t, n, r)
      BY <1>3, <1>7, <2>1 DEF Inv, ProjectionInv, NothingLost
    <3> QED
      BY <1>2, <1>3, <1>4, <1>7, <3>1
  <2>2. ASSUME NEW w \in Handler, handler[w].pc = "ack", handler[w].job = s, handler[w].at = t
        PROVE  Seen(t, n, r)'
    <3>1. Seen(t, n, handler[w].rev) /\ handler[w].rev \in Nat /\ r <= handler[w].rev
      BY <1>5, <1>6, <1>7, <2>2
    <3>2. index[t][n] \in Nat /\ Known(n) \in Int /\ r \in Nat
      BY <1>3, <1>4, <1>7 DEF Inv, TypeOK, FeedTypeOK, Known, Expected, Larger, Command, Docs
    <3>3. Seen(t, n, r)
      BY <3>1, <3>2 DEF Seen
    <3> QED
      BY <1>2, <1>3, <1>4, <1>7, <3>3
  <2>3. s \in Seqs
    BY DEF Committed
  <2> QED
    BY <1>3, <1>7, <2>1, <2>2, <2>3 DEF WorkerFrame
<1>8. ASSUME NEW w \in Handler, NEW n, NEW r, handler'[w].pc = "ack", handler'[w].at = t,
             n = outbox[handler[w].job].note, r = handler[w].rev
      PROVE  Seen(t, n, r)'
  <2>1. handler[w].at = t /\ (handler[w].pc = "ack" \/ r <= index'[t][n])
    BY <1>8 DEF WorkerFrame
  <2>2. CASE handler[w].pc = "ack"
    BY <1>2, <1>3, <1>4, <1>5, <1>6, <1>8, <2>1, <2>2
  <2>3. CASE r <= index'[t][n]
    BY <2>3 DEF Seen
  <2> QED
    BY <2>1, <2>2, <2>3
<1> QED
  BY <1>7, <1>8

LEMMA WorkerPreserves ==
    ASSUME Inv, UNCHANGED <<run, op, replayed>>, WorkerNext
    PROVE  Inv'
<1>1. TypeOK' /\ WorkerFrame /\ HandlerInv'
  BY WorkerStep
<1>2. Committed' = Committed /\ Grows /\ SameTargets /\ UNCHANGED canonVars /\ Alike(outbox', outbox)
  BY <1>1, FrameGrows DEF WorkerFrame, SameTargets
<1>3. RowInv'
  <2>1. \A s \in Seqs, t \in Target : delivery'[s][t].status = "processed" => s \in Committed
    <3>1. \A w \in Handler : handler[w].pc = "ack" => handler[w].job \in Committed
      BY DEF Inv, ProjectionInv, HandlerInv, OnCourse
    <3> QED
      BY <1>1, <3>1 DEF WorkerFrame, Inv, ProjectionInv, RowInv
  <2> QED
    BY <1>2, <2>1, RowFrame
<1>4. DrawInv'
  BY <1>2, DrawFrame DEF canonVars, SameTargets
<1>5. OpInv' /\ RunInv' /\ PrimaryInv'
  <2>1. \A n \in Notification : canon[n].rev <= canon'[n].rev
    BY <1>2 DEF Grows
  <2>2. op.cmd = "rollback" /\ HoldsFence => HoldsFence'
    BY <1>1, <1>2, FenceFrame DEF WorkerFrame, canonVars
  <2> QED
    BY <1>1, <1>2, <2>1, <2>2, OpFrame, RunFrame, AliasFrame DEF WorkerFrame
<1>6. IndexNeverAhead'
  BY <1>1, <1>2 DEF WorkerFrame, IndexNeverAhead, canonVars
<1>7. ProcessedEverywhere'
  <2> SUFFICES ASSUME NEW s \in Seqs, NEW t \in Target, outbox'[s].status = "processed", Owed(t, s)'
               PROVE  delivery'[s][t].status = "processed"
    BY DEF ProcessedEverywhere
  <2>1. s \in Committed /\ (Owed(t, s) \/ delivery'[s][t].status = "processed")
    BY <1>2 DEF Grows, Committed
  <2>2. CASE outbox[s].status = "processed"
    BY <1>2, <2>1, <2>2 DEF Inv, ProjectionInv, ProcessedEverywhere, Grows
  <2>3. ASSUME NEW w \in Handler, handler[w].pc = "done", handler[w].job = s
        PROVE  delivery'[s][t].status = "processed"
    <3>1. OnCourse(w)
      BY DEF Inv, ProjectionInv, HandlerInv
    <3> QED
      BY <1>2, <2>1, <2>3, <3>1 DEF OnCourse, Grows
  <2> QED
    BY <1>1, <2>2, <2>3 DEF WorkerFrame
<1>8. NothingLost'
  BY <1>1, WorkerKeepsNothingLost
<1> QED
  BY <1>1, <1>3, <1>4, <1>5, <1>6, <1>7, <1>8 DEF Inv, ProjectionInv

-----------------------------------------------------------------------------
(* The writers *)

LEMMA StillOnCourse ==
    ASSUME Inv, TypeOK', Grows, UNCHANGED handler
    PROVE  HandlerInv'
  BY OtherOnCourse DEF HandlerInv, SameStep, SameJob

\* Nothing is lost by a step after which fewer targets are trusted, no more of them
\* is claimed to be delivered, and what was seen is still seen.
LEMMA LostFrame ==
    ASSUME Inv, UNCHANGED <<delivery, handler>>,
           \A s \in Committed : outbox'[s].note = outbox[s].note /\ outbox'[s].rev = outbox[s].rev,
           \A t \in Target : Trusted(t)' =>
              /\ Trusted(t)
              /\ \A s \in Committed' : s \in Committed \/ ~(s <= target'[t].from \/ delivery[s][t].status = "processed")
              /\ target'[t].from = target[t].from
              /\ \A n \in Notification, r \in Nat : Seen(t, n, r) => Seen(t, n, r)'
    PROVE  NothingLost'
<1>1. \A s \in Committed : outbox[s].note \in Notification /\ outbox[s].rev \in Nat
  BY DEF Inv, ProjectionInv, RowInv, TypeOK, FeedTypeOK, Row, Committed
<1>2. \A w \in Handler : handler[w].pc = "ack" =>
         handler[w].job \in Committed /\ handler[w].rev \in Nat
  <2>1. \A w \in Handler : OnCourse(w) /\ handler[w] \in Work
    BY DEF Inv, ProjectionInv, HandlerInv, TypeOK, FeedTypeOK
  <2> QED
    BY <2>1 DEF OnCourse, Work
<1>3. ASSUME NEW t \in Target, Trusted(t)', NEW s \in Committed',
             s <= target'[t].from \/ delivery'[s][t].status = "processed"
      PROVE  Seen(t, outbox[s].note, outbox[s].rev)'
  <2>1. s \in Committed
    BY <1>3
  <2>2. Seen(t, outbox[s].note, outbox[s].rev)
    BY <1>3, <2>1 DEF Inv, ProjectionInv, NothingLost
  <2> QED
    BY <1>1, <1>3, <2>1, <2>2
<1>4. ASSUME NEW t \in Target, Trusted(t)', NEW w \in Handler, handler'[w].pc = "ack", handler'[w].at = t
      PROVE  Seen(t, outbox[handler[w].job].note, handler[w].rev)'
  <2>1. Seen(t, outbox[handler[w].job].note, handler[w].rev)
    BY <1>4 DEF Inv, ProjectionInv, NothingLost
  <2> QED
    BY <1>1, <1>2, <1>4, <2>1
<1> QED
  BY <1>3, <1>4 DEF NothingLost

LEMMA BeginChangePreserves ==
    ASSUME Inv, UNCHANGED <<run, op, replayed>>, NEW n \in Notification, BeginChange(n)
    PROVE  Inv'
<1> USE DEF Inv, ProjectionInv
<1>1. UNCHANGED <<canon, rowVars, target, index, alias, fence, handler, trouble>>
  BY DEF BeginChange
<1>2. drawn \in Nat /\ drawn' = drawn + 1 /\ drawn' \in 0..MaxWork /\ open' = [open EXCEPT ![n] = drawn']
      /\ open \in [Notification -> 0..MaxWork]
  BY FeedAssumption DEF BeginChange, TypeOK, FeedTypeOK
<1>3. TypeOK'
  BY <1>1, <1>2 DEF TypeOK, FeedTypeOK, rowVars
<1>4. Committed' = Committed /\ SameTargets
  BY <1>1 DEF Committed, rowVars, SameTargets
<1>5. Grows
  <2>1. \A m \in Notification : canon[m].rev \in Nat
    BY DEF TypeOK, FeedTypeOK
  <2> QED
    BY <1>1, <1>4, <2>1 DEF Grows, rowVars, Owed, Fed, Eligible
<1>6. RowInv'
  <2>1. \A s \in Committed : s \in Nat /\ s <= drawn
    BY DEF RowInv, Committed, Seqs
  <2>2. \A s \in Committed : s <= drawn'
    BY <1>2, <2>1
  <2> QED
    BY <1>1, <1>4, <2>2 DEF RowInv, rowVars
<1>7. DrawInv'
  <2>1. \A t \in Target : target[t].from \in Nat /\ target[t].from <= drawn
    BY DEF DrawInv, TypeOK, FeedTypeOK, TargetRow
  <2>2. \A s \in Committed : s \in Nat /\ s <= drawn
    BY DEF RowInv, Committed, Seqs
  <2>3. \A m \in Notification : open[m] \in Nat /\ open[m] <= drawn
    BY <1>2 DEF DrawInv
  <2>4. \A m \in Notification : open'[m] = IF m = n THEN drawn + 1 ELSE open[m]
    BY <1>2
  <2> QED
    BY <1>1, <1>2, <1>4, <2>1, <2>2, <2>3, <2>4 DEF DrawInv
<1>8. HandlerInv'
  BY <1>1, <1>3, <1>5, StillOnCourse
<1>9. OpInv' /\ RunInv' /\ PrimaryInv'
  <2>1. ~HoldsFence
    BY DEF HoldsFence, BeginChange
  <2> QED
    BY <1>1, <1>3, <1>4, <1>5, <2>1, OpFrame, RunFrame, AliasFrame DEF Grows
<1>10. NothingLost'
  <2>1. \A t \in Target : Trusted(t)' => Trusted(t)
    BY <1>4, TrustedFrame
  <2>2. \A t \in Target, m \in Notification, r \in Nat : Seen(t, m, r) => Seen(t, m, r)'
    BY <1>1, KnownFrame DEF Seen, Checking
  <2> QED
    BY <1>1, <1>4, <2>1, <2>2, LostFrame DEF rowVars, SameTargets
<1>11. IndexNeverAhead'
  BY <1>1 DEF IndexNeverAhead
<1>12. ProcessedEverywhere'
  BY <1>1 DEF ProcessedEverywhere, rowVars, Owed, Fed, Eligible
<1> QED
  BY <1>3, <1>6, <1>7, <1>8, <1>9, <1>10, <1>11, <1>12

\* What the commit of a change leaves.
CommitFacts(n) ==
    /\ open[n] \in Seqs /\ open[n] \notin Committed
    /\ Committed' = Committed \cup {open[n]}
    /\ outbox'[open[n]].note = n /\ outbox'[open[n]].status = "pending"
    /\ outbox'[open[n]].rev = canon[n].rev + 1
    /\ \A s \in Seqs : s # open[n] => outbox'[s] = outbox[s]
    /\ \A m \in Notification : m # n => canon'[m] = canon[m]
    /\ canon[n].state # "deleted" /\ canon'[n].state # "none"
    /\ canon'[n].rev = canon[n].rev + 1
    /\ \A m \in Notification : open'[m] = IF m = n THEN 0 ELSE open[m]
    /\ UNCHANGED <<drawn, delivery, target, index, alias, fence, handler, trouble>>

LEMMA CommitChangeFacts ==
    ASSUME Inv, UNCHANGED <<run, op, replayed>>, NEW n \in Notification, CommitChange(n)
    PROVE  TypeOK' /\ CommitFacts(n)
<1> DEFINE k == open[n]
           row == [NoRow EXCEPT !.note = n, !.rev = canon[n].rev + 1, !.status = "pending"]
<1>1. canon \in [Notification -> [state : {"none", "unread", "read", "deleted"}, rev : Nat]]
      /\ open \in [Notification -> 0..MaxWork] /\ outbox \in [Seqs -> Row]
  BY DEF Inv, TypeOK, FeedTypeOK
<1>2. k \in Seqs /\ k \notin Committed
  BY <1>1, FeedAssumption DEF CommitChange, Inv, ProjectionInv, DrawInv, Seqs
<1>3. canon[n].rev \in Nat /\ canon[n].rev + 1 \in Nat
  BY <1>1
<1>4. row \in Row /\ row.note = n /\ row.rev = canon[n].rev + 1 /\ row.status = "pending"
  <2>1. n \in 0..MaxNote /\ NoRow \in Row
    BY Values, FeedAssumption DEF Notification
  <2> QED
    BY <1>3, <2>1 DEF Row
<1>5. outbox' = [outbox EXCEPT ![k] = row] /\ open' = [open EXCEPT ![n] = 0]
      /\ UNCHANGED <<drawn, delivery, target, index, alias, fence, handler, trouble>>
  BY DEF CommitChange
<1>6. outbox' \in [Seqs -> Row] /\ outbox'[k] = row /\ \A s \in Seqs : s # k => outbox'[s] = outbox[s]
  BY <1>1, <1>2, <1>4, <1>5
<1>7. open' \in [Notification -> 0..MaxWork] /\ \A m \in Notification : open'[m] = IF m = n THEN 0 ELSE open[m]
  BY <1>1, <1>5, FeedAssumption
<1>8. PICK c \in Changes : canon[n].state = c[1]
                           /\ canon' = [canon EXCEPT ![n] = [state |-> c[2], rev |-> canon[n].rev + 1]]
  BY DEF CommitChange
<1>9. c[1] # "deleted" /\ c[2] \in {"unread", "read", "deleted"}
  BY DEF Changes
<1>10. /\ canon' \in [Notification -> [state : {"none", "unread", "read", "deleted"}, rev : Nat]]
       /\ canon'[n] = [state |-> c[2], rev |-> canon[n].rev + 1]
       /\ \A m \in Notification : m # n => canon'[m] = canon[m]
  BY <1>1, <1>3, <1>8, <1>9
<1>11. TypeOK'
  BY <1>5, <1>6, <1>7, <1>10 DEF Inv, TypeOK, FeedTypeOK
<1>12. Committed' = Committed \cup {k}
  BY <1>2, <1>4, <1>6 DEF Committed
<1> QED
  BY <1>2, <1>4, <1>5, <1>6, <1>7, <1>8, <1>9, <1>10, <1>11, <1>12 DEF CommitFacts

LEMMA CommitChangePreserves ==
    ASSUME Inv, UNCHANGED <<run, op, replayed>>, NEW n \in Notification, CommitChange(n)
    PROVE  Inv'
<1> USE DEF Inv, ProjectionInv
<1> DEFINE k == open[n]
<1>1. TypeOK' /\ CommitFacts(n)
  BY CommitChangeFacts
<1>2. \A m \in Notification : /\ canon[m].rev \in Nat /\ canon'[m].rev \in Nat
                              /\ canon[m].rev <= canon'[m].rev
  BY <1>1 DEF CommitFacts, TypeOK, FeedTypeOK
<1>3. SameTargets
  BY <1>1 DEF CommitFacts, SameTargets
<1>4. \A s \in Committed : s \in Seqs /\ s # k /\ outbox'[s] = outbox[s]
  BY <1>1 DEF CommitFacts, Committed
<1>5. Grows
  BY <1>1, <1>2, <1>4 DEF CommitFacts, Grows, Owed, Fed, Eligible
<1>6. RowInv'
  <2>1. ASSUME NEW s \in Committed'
        PROVE  /\ s <= drawn' /\ outbox'[s].note \in Notification
               /\ outbox'[s].rev \in 1..canon'[outbox'[s].note].rev
    <3>1. CASE s \in Committed
      <4>1. outbox[s].note \in Notification /\ outbox[s].rev \in 1..canon[outbox[s].note].rev /\ s <= drawn
        BY <3>1 DEF RowInv
      <4> QED
        BY <1>1, <1>2, <1>4, <3>1, <4>1 DEF CommitFacts
    <3>2. CASE s = k
      <4>1. k <= drawn
        BY <1>1, FeedAssumption DEF CommitFacts, DrawInv, Seqs
      <4> QED
        BY <1>1, <1>2, <3>2, <4>1 DEF CommitFacts
    <3> QED
      BY <1>1, <3>1, <3>2 DEF CommitFacts
  <2>2. ASSUME NEW m \in Notification
        PROVE  /\ canon'[m].state = "none" => canon'[m].rev = 0
               /\ canon'[m].rev > 0 =>
                     \E s \in Committed' : outbox'[s].note = m /\ outbox'[s].rev = canon'[m].rev
    <3>1. CASE m = n
      BY <1>1, <3>1 DEF CommitFacts
    <3>2. CASE m # n
      <4>1. canon'[m] = canon[m]
        BY <1>1, <3>2 DEF CommitFacts
      <4> QED
        BY <1>1, <1>4, <4>1 DEF CommitFacts, RowInv
    <3> QED
      BY <3>1, <3>2
  <2>3. \A s \in Seqs, t \in Target : delivery'[s][t].status = "processed" => s \in Committed'
    BY <1>1 DEF CommitFacts, RowInv
  <2> QED
    BY <2>1, <2>2, <2>3 DEF RowInv
<1>7. DrawInv'
  <2>1. \A m \in Notification : open[m] \in Nat
    BY DEF TypeOK, FeedTypeOK
  <2>2. open[n] > 0
    BY <1>1 DEF CommitFacts, Seqs
  <2>3. \A m \in Notification : open'[m] > 0 => m # n /\ open'[m] = open[m] /\ open[m] # k
    BY <1>1, <2>1, <2>2 DEF CommitFacts, DrawInv
  <2> QED
    BY <1>1, <2>1, <2>3 DEF CommitFacts, DrawInv
<1>8. HandlerInv'
  BY <1>1, <1>5, StillOnCourse DEF CommitFacts
<1>9. OpInv' /\ RunInv' /\ PrimaryInv'
  <2>1. ~HoldsFence
    BY <1>1 DEF HoldsFence, WritersDrained, CommitFacts, Seqs
  <2> QED
    BY <1>1, <1>3, <1>5, <2>1, OpFrame, RunFrame, AliasFrame DEF Grows, CommitFacts
<1>10. ASSUME NEW t \in Target, NEW m \in Notification, NEW r \in Nat, Seen(t, m, r)
       PROVE  Seen(t, m, r)'
  <2>1. op.live[m] \in Nat /\ op.gone[m] \in Nat /\ op.live[m] <= canon[m].rev
    BY DEF TypeOK, Command, Docs, OpInv
  <2>2. Known(m) \in Nat /\ Known(m)' \in Nat /\ Known(m) <= Known(m)'
    <3>1. CASE op.pc = "gone"
      BY <1>1, <1>2, <2>1, <3>1 DEF Known, CommitFacts
    <3>2. CASE op.pc # "gone"
      BY <1>1, <2>1, <3>2 DEF Known, Expected, Larger, CommitFacts
    <3> QED
      BY <3>1, <3>2
  <2> QED
    BY <1>1, <1>10, <2>2 DEF Seen, Checking, CommitFacts
<1>11. NothingLost'
  <2>1. \A t \in Target : Trusted(t)' => Trusted(t)
    BY <1>3, TrustedFrame
  <2>2. \A t \in Target : ~(k <= target[t].from \/ delivery[k][t].status = "processed")
    <3>1. \A t \in Target : target[t].from \in Nat
      BY DEF TypeOK, FeedTypeOK, TargetRow
    <3>2. k \in Nat /\ k > 0
      BY <1>1 DEF CommitFacts, Seqs
    <3> QED
      BY <1>1, <3>1, <3>2 DEF CommitFacts, DrawInv, RowInv
  <2>3. \A t \in Target, s \in Committed' :
           s \in Committed \/ ~(s <= target'[t].from \/ delivery[s][t].status = "processed")
    BY <1>1, <2>2 DEF CommitFacts
  <2>4. UNCHANGED <<delivery, handler, target>>
    BY <1>1 DEF CommitFacts
  <2> QED
    BY <1>4, <1>10, <2>1, <2>3, <2>4, LostFrame
<1>12. IndexNeverAhead'
  BY <1>1, <1>2 DEF CommitFacts, IndexNeverAhead, TypeOK, FeedTypeOK
<1>13. ProcessedEverywhere'
  BY <1>1 DEF CommitFacts, ProcessedEverywhere, Owed, Fed, Eligible
<1> QED
  BY <1>1, <1>6, <1>7, <1>8, <1>9, <1>11, <1>12, <1>13

-----------------------------------------------------------------------------
(* The commands of the operator that only move their run and their memory *)

\* The run goes on, or is left alone.
RunGoesOn ==
    \/ UNCHANGED run
    \/ /\ run.status \in Unfinished \ {"cutting_over"} /\ run'.status \in Unfinished
       /\ run'.to = run.to /\ run'.s0 = run.s0

LEMMA Control ==
    ASSUME Inv, TypeOK', UNCHANGED <<canonVars, rowVars, index, handler, alias>>, SameTargets,
           RunGoesOn, OpInv', NothingLost'
    PROVE  Inv'
<1> USE DEF Inv, ProjectionInv
<1>1. Committed' = Committed /\ \A n \in Notification : canon[n].rev \in Nat
  BY DEF Committed, rowVars, TypeOK, FeedTypeOK
<1>2. Grows
  BY <1>1 DEF Grows, canonVars, rowVars, Owed, Fed, Eligible, SameTargets
<1>3. RowInv' /\ DrawInv'
  <2>1. \A s \in Seqs, t \in Target : delivery[s][t].status = "processed" => s \in Committed
    BY DEF RowInv
  <2> QED
    BY <1>1, <2>1, RowFrame, DrawFrame DEF Alike, canonVars, rowVars, SameTargets
<1>4. HandlerInv'
  BY <1>2, StillOnCourse
<1>5. RunInv'
  BY DEF RunInv, RunGoesOn, SameTargets
<1>6. PrimaryInv'
  <2>1. CASE UNCHANGED run
    BY <2>1, AliasFrame
  <2>2. CASE run.status # "cutting_over"
    <3>1. alias \in Target
      BY DEF TypeOK, FeedTypeOK
    <3>2. {t \in Target : target'[t].status = "primary"} = {t \in Target : target[t].status = "primary"}
      BY DEF SameTargets
    <3> QED
      BY <2>2, <3>1, <3>2 DEF PrimaryInv, SameTargets
  <2> QED
    BY <2>1, <2>2 DEF RunGoesOn
<1>7. IndexNeverAhead' /\ ProcessedEverywhere'
  BY <1>1, <1>2 DEF IndexNeverAhead, ProcessedEverywhere, canonVars, rowVars, Grows, Committed
<1> QED
  BY <1>3, <1>4, <1>5, <1>6, <1>7

\* No target becomes trusted, and the one that is being checked stays so or is given up.
LEMMA PlainLost ==
    ASSUME Inv, UNCHANGED <<canonVars, rowVars, index, handler>>, SameTargets,
           \A t \in Target : Trusted(t)' => Trusted(t) /\ ~(Checking /\ t = run.to)
    PROVE  NothingLost'
<1>1. Committed' = Committed
  BY DEF Committed, rowVars
<1>2. \A t \in Target : Trusted(t)' => \A n \in Notification, r \in Nat : Seen(t, n, r) => Seen(t, n, r)'
  BY DEF Seen
<1> QED
  BY <1>1, <1>2, LostFrame DEF rowVars, SameTargets

\* A command that has ended asks nothing.
LEMMA EndedOp == ASSUME TypeOK', Ends PROVE OpInv'
<1>1. \A n \in Notification : canon'[n].rev \in Nat
  BY DEF TypeOK, FeedTypeOK
<1> QED
  BY <1>1 DEF Ends, Idle, OpInv, NoDocs

\* A command that has just started, at pc.
LEMMA StartedOp ==
    ASSUME TypeOK', NEW cmd \in {"rebuild", "promote"},
           NEW pc \in {"read", "capture", "live", "begin", "swap"},
           op' = [Idle EXCEPT !.cmd = cmd, !.pc = pc],
           pc = "read" => cmd = "rebuild" /\ run'.status \in {"initialized", "backfilling"},
           pc \in {"capture", "live"} => run'.status \in {"catching_up", "reconciling", "ready"},
           pc = "begin" => run'.status = "ready",
           pc = "swap" => run'.status = "cutting_over"
    PROVE  OpInv'
<1>1. \A n \in Notification : canon'[n].rev \in Nat
  BY DEF TypeOK, FeedTypeOK
<1>2. /\ op'.cmd = cmd /\ op'.pc = pc /\ op'.repair = FALSE
      /\ op'.live = NoDocs /\ op'.gone = NoDocs /\ op'.fix = NoDocs
  BY DEF Idle
<1> QED
  BY <1>1, <1>2 DEF OpInv, NoDocs

LEMMA StartedType ==
    ASSUME NEW cmd \in {"rebuild", "promote"}, NEW pc \in {"read", "capture", "live", "begin", "swap"}
    PROVE  [Idle EXCEPT !.cmd = cmd, !.pc = pc] \in Command
  BY Values DEF Command

\* Where the trust in a target comes from when the command is not a promotion.
LEMMA PlainTrust ==
    ASSUME Inv, RunGoesOn, run' = run \/ run'.status # "cutting_over", SameTargets,
           op'.cmd # "promote" \/ op'.pc \in {"idle", "capture", "catchup", "live", "swap"},
           NEW t \in Target, Trusted(t)'
    PROVE  Trusted(t) /\ ~(Checking /\ t = run.to)
<1>1. target[t].status \in {"primary", "rollback"} \/ (t = run.to /\ run.status = "cutting_over")
  BY DEF Trusted, SameTargets, RunGoesOn
<1>2. Checking => target[run.to].status = "building" /\ run.status # "cutting_over"
  BY DEF Checking, Inv, ProjectionInv, OpInv, RunInv, Unfinished
<1> QED
  BY <1>1, <1>2 DEF Trusted

LEMMA ResumeRebuildPreserves == ASSUME Inv, ResumeRebuild PROVE Inv'
<1> DEFINE pc == IF run.status \in {"initialized", "backfilling"} THEN "read" ELSE "capture"
<1>1. op' = [Idle EXCEPT !.cmd = "rebuild", !.pc = pc] /\ UNCHANGED <<feedVars, run, replayed>>
      /\ pc \in {"read", "capture"} /\ run.status \in Unfinished \ {"cutting_over"}
  BY DEF ResumeRebuild
<1>2. op' \in Command /\ op'.cmd = "rebuild"
  BY <1>1, StartedType DEF Idle
<1>3. TypeOK' /\ SameTargets
  BY <1>1, <1>2 DEF Inv, TypeOK, FeedTypeOK, feedVars, SameTargets
<1>4. OpInv'
  BY <1>1, <1>3, StartedOp DEF Unfinished
<1>5. NothingLost'
  BY <1>1, <1>2, <1>3, PlainTrust, PlainLost DEF feedVars, canonVars, rowVars, RunGoesOn
<1> QED
  BY <1>1, <1>3, <1>4, <1>5, Control DEF feedVars, canonVars, rowVars, RunGoesOn

LEMMA StartPromotionPreserves == ASSUME Inv, StartPromotion PROVE Inv'
<1>1. PICK pc \in {"capture", "swap"} : 
          /\ op' = [Idle EXCEPT !.cmd = "promote", !.pc = pc] /\ UNCHANGED <<feedVars, run, replayed>>
          /\ pc = "capture" => run.status = "ready"
          /\ pc = "swap" => run.status = "cutting_over"
  BY DEF StartPromotion
<1>2. op' \in Command /\ op'.cmd = "promote" /\ op'.pc = pc
  BY <1>1, StartedType DEF Idle
<1>3. TypeOK' /\ SameTargets
  BY <1>1, <1>2 DEF Inv, TypeOK, FeedTypeOK, feedVars, SameTargets
<1>4. OpInv'
  BY <1>1, <1>3, StartedOp
<1>5. NothingLost'
  BY <1>1, <1>2, <1>3, PlainTrust, PlainLost DEF feedVars, canonVars, rowVars, RunGoesOn
<1> QED
  BY <1>1, <1>3, <1>4, <1>5, Control DEF feedVars, canonVars, rowVars, RunGoesOn

\* A command that ends or crashes without having moved anything.
LEMMA EndsPreserves ==
    ASSUME Inv, Ends, UNCHANGED <<canonVars, rowVars, target, index, alias, handler, run, replayed>>,
           fence' \in {"free", "promote", "rollback"}, trouble' \in 0..MaxWork
    PROVE  Inv'
<1>1. TypeOK' /\ SameTargets
  BY Values DEF Inv, TypeOK, FeedTypeOK, canonVars, rowVars, Ends, SameTargets
<1>2. op'.cmd # "promote"
  BY DEF Ends, Idle
<1>3. OpInv'
  BY <1>1, EndedOp
<1>4. NothingLost'
  BY <1>1, <1>2, PlainTrust, PlainLost DEF RunGoesOn
<1> QED
  BY <1>1, <1>3, <1>4, Control DEF RunGoesOn

LEMMA RefusePreserves == ASSUME Inv, Refuse PROVE Inv'
<1>1. fence' \in {"free", "promote", "rollback"} /\ trouble' \in 0..MaxWork
  BY DEF Refuse, feedVars, Inv, TypeOK, FeedTypeOK
<1> QED
  BY <1>1, EndsPreserves DEF Refuse, feedVars, canonVars, rowVars

LEMMA CrashOperatorPreserves == ASSUME Inv, CrashOperator PROVE Inv'
  BY TroubleType, EndsPreserves DEF CrashOperator, Inv

\* What the parts of the invariant say of a rebuild that is reading.
LEMMA Reading ==
    ASSUME Inv, op.pc \in {"read", "write", "mark"}
    PROVE  /\ op.cmd = "rebuild" /\ run.status \in {"initialized", "backfilling"}
           /\ run.to \in Target /\ target[run.to].status = "building"
  BY DEF Inv, ProjectionInv, OpInv, RunInv, Unfinished

\* ... and of a rebuild or a promotion that catches up or reconciles.
LEMMA Reconciling ==
    ASSUME Inv, op.pc \in {"capture", "catchup", "live", "gone", "scan", "repair", "record"}
    PROVE  /\ op.cmd \in {"rebuild", "promote"} /\ run.status \in {"catching_up", "reconciling", "ready"}
           /\ run.to \in Target /\ target[run.to].status = "building"
  BY DEF Inv, ProjectionInv, OpInv, RunInv, Unfinished

LEMMA ReadBatchPreserves == ASSUME Inv, ReadBatch PROVE Inv'
<1>1. /\ op.pc = "read" /\ UNCHANGED <<feedVars, replayed>>
      /\ run' = [run EXCEPT !.status = "backfilling"]
  BY DEF ReadBatch
<1>2. op.cmd = "rebuild" /\ run.status \in {"initialized", "backfilling"}
  BY <1>1, Reading
<1>3. op \in Command /\ run \in Run /\ \A n \in Notification : canon[n].rev \in Nat
  BY DEF Inv, TypeOK, FeedTypeOK
<1>4. run' \in Run /\ run'.status = "backfilling" /\ run'.to = run.to /\ run'.s0 = run.s0
  BY <1>1, <1>3 DEF Run, Unfinished
<1>5. ASSUME NEW n \in Notification, op' = [op EXCEPT !.pc = "write", !.doc = n, !.rev = canon[n].rev]
      PROVE  op' \in Command /\ op'.cmd = "rebuild" /\ (TypeOK' => OpInv')
  <2>1. n \in 0..MaxNote
    BY FeedAssumption DEF Notification
  <2>2. /\ op' \in Command /\ op'.pc = "write" /\ op'.cmd = "rebuild" /\ op'.doc = n /\ op'.rev = canon[n].rev
        /\ op'.live = op.live /\ op'.gone = op.gone /\ op'.fix = op.fix /\ op'.repair = op.repair
    BY <1>2, <1>3, <1>5, <2>1 DEF Command
  <2> QED
    BY <1>1, <1>3, <1>4, <2>2 DEF OpInv, feedVars, Inv, ProjectionInv
<1>6. ASSUME op' = [op EXCEPT !.tombs = TRUE]
      PROVE  op' \in Command /\ op'.cmd = "rebuild" /\ (TypeOK' => OpInv')
  <2>1. /\ op' \in Command /\ op'.pc = "read" /\ op'.cmd = "rebuild"
        /\ op'.live = op.live /\ op'.gone = op.gone /\ op'.fix = op.fix /\ op'.repair = op.repair
    BY <1>1, <1>2, <1>3, <1>6 DEF Command
  <2> QED
    BY <1>1, <1>4, <2>1 DEF OpInv, feedVars, Inv, ProjectionInv
<1>7. op' \in Command /\ op'.cmd = "rebuild" /\ (TypeOK' => OpInv')
  BY <1>5, <1>6 DEF ReadBatch, Remaining
<1>8. TypeOK' /\ SameTargets /\ RunGoesOn
  BY <1>1, <1>2, <1>4, <1>7 DEF Inv, TypeOK, FeedTypeOK, feedVars, SameTargets, RunGoesOn, Unfinished
<1>9. NothingLost'
  BY <1>1, <1>4, <1>7, <1>8, PlainTrust, PlainLost DEF feedVars, canonVars, rowVars
<1> QED
  BY <1>1, <1>7, <1>8, <1>9, Control DEF feedVars, canonVars, rowVars

LEMMA RecordBackfillBatchPreserves == ASSUME Inv, RecordBackfillBatch PROVE Inv'
<1>1. /\ op.pc = "mark" /\ UNCHANGED <<feedVars, replayed>>
      /\ run' = IF op.tombs THEN [run EXCEPT !.tombs = op.doc] ELSE [run EXCEPT !.rows = op.doc]
      /\ op' = [op EXCEPT !.pc = "read", !.doc = 0, !.rev = 0]
  BY DEF RecordBackfillBatch
<1>2. op.cmd = "rebuild" /\ run.status \in {"initialized", "backfilling"}
  BY <1>1, Reading
<1>3. op \in Command /\ run \in Run /\ 0 \in 0..MaxNote
  BY FeedAssumption DEF Inv, TypeOK
<1>4. run' \in Run /\ run'.status = run.status /\ run'.to = run.to /\ run'.s0 = run.s0
  BY <1>1, <1>3 DEF Run, Command
<1>5. /\ op' \in Command /\ op'.pc = "read" /\ op'.cmd = "rebuild"
      /\ op'.live = op.live /\ op'.gone = op.gone /\ op'.fix = op.fix /\ op'.repair = op.repair
  BY <1>1, <1>2, <1>3 DEF Command
<1>6. TypeOK' /\ SameTargets /\ RunGoesOn
  BY <1>1, <1>2, <1>4, <1>5 DEF Inv, TypeOK, FeedTypeOK, feedVars, SameTargets, RunGoesOn, Unfinished
<1>7. OpInv'
  BY <1>1, <1>2, <1>4, <1>5 DEF OpInv, feedVars, Inv, ProjectionInv
<1>8. NothingLost'
  BY <1>1, <1>2, <1>4, <1>5, <1>6, PlainTrust, PlainLost DEF feedVars, canonVars, rowVars
<1> QED
  BY <1>1, <1>6, <1>7, <1>8, Control DEF feedVars, canonVars, rowVars

LEMMA CompleteBackfillPreserves == ASSUME Inv, CompleteBackfill PROVE Inv'
<1>1. /\ op.pc = "read" /\ UNCHANGED <<canonVars, rowVars, index, alias, fence, handler, trouble, replayed>>
      /\ target' = [target EXCEPT ![run.to].checkpoint = run.s0]
      /\ run' = [run EXCEPT !.status = "catching_up"]
      /\ op' = [op EXCEPT !.pc = "capture", !.tombs = FALSE]
  BY DEF CompleteBackfill
<1>2. op.cmd = "rebuild" /\ run.status \in {"initialized", "backfilling"} /\ run.to \in Target
  BY <1>1, Reading
<1>3. op \in Command /\ run \in Run
  BY DEF Inv, TypeOK
<1>4. run' \in Run /\ run'.status = "catching_up" /\ run'.to = run.to /\ run'.s0 = run.s0
  BY <1>1, <1>3 DEF Run, Unfinished
<1>5. /\ op' \in Command /\ op'.pc = "capture" /\ op'.cmd = "rebuild"
      /\ op'.live = op.live /\ op'.gone = op.gone /\ op'.fix = op.fix /\ op'.repair = op.repair
  BY <1>1, <1>2, <1>3 DEF Command
<1>6. target' \in [Target -> TargetRow] /\ SameTargets
  <2> DEFINE row == [target[run.to] EXCEPT !.checkpoint = run.s0]
  <2>1. target \in [Target -> TargetRow] /\ target[run.to] \in TargetRow /\ run.s0 \in 0..MaxWork
    BY <1>2, <1>3 DEF Inv, TypeOK, FeedTypeOK, Run
  <2>2. row \in TargetRow /\ row.status = target[run.to].status /\ row.from = target[run.to].from
        /\ row.window = target[run.to].window
    BY <2>1 DEF TargetRow
  <2>3. target' = [target EXCEPT ![run.to] = row]
    BY <1>1
  <2> QED
    BY <1>2, <2>1, <2>2, <2>3 DEF SameTargets
<1>7. TypeOK' /\ RunGoesOn
  BY <1>1, <1>2, <1>4, <1>5, <1>6 DEF Inv, TypeOK, FeedTypeOK, canonVars, rowVars, RunGoesOn, Unfinished
<1>8. OpInv'
  BY <1>1, <1>4, <1>5 DEF OpInv, canonVars, Inv, ProjectionInv
<1>9. NothingLost'
  BY <1>1, <1>4, <1>5, <1>6, <1>7, PlainTrust, PlainLost
<1> QED
  BY <1>1, <1>6, <1>7, <1>8, <1>9, Control

LEMMA CaptureS1Preserves == ASSUME Inv, CaptureS1 PROVE Inv'
<1>1. PICK s1 \in 0..MaxWork : /\ op.pc = "capture" /\ UNCHANGED <<feedVars, run, replayed>>
                               /\ op' = [op EXCEPT !.pc = "catchup", !.s1 = s1]
  BY DEF CaptureS1
<1>2. op \in Command /\ op.cmd \in {"rebuild", "promote"} /\ run.status \in {"catching_up", "reconciling", "ready"}
  BY <1>1, Reconciling DEF Inv, TypeOK
<1>3. /\ op' \in Command /\ op'.pc = "catchup" /\ op'.cmd = op.cmd
      /\ op'.live = op.live /\ op'.gone = op.gone /\ op'.fix = op.fix /\ op'.repair = op.repair
  BY <1>1, <1>2 DEF Command
<1>4. TypeOK' /\ SameTargets /\ RunGoesOn
  BY <1>1, <1>3 DEF Inv, TypeOK, FeedTypeOK, feedVars, SameTargets, RunGoesOn
<1>5. OpInv'
  BY <1>1, <1>2, <1>3 DEF OpInv, feedVars, Inv, ProjectionInv
<1>6. NothingLost'
  BY <1>1, <1>3, <1>4, PlainTrust, PlainLost DEF feedVars, canonVars, rowVars
<1> QED
  BY <1>1, <1>4, <1>5, <1>6, Control DEF feedVars, canonVars, rowVars

LEMMA CatchUpPreserves == ASSUME Inv, CatchUp PROVE Inv'
<1>1. op.pc = "catchup" /\ UNCHANGED <<feedVars, run, replayed>>
  BY DEF CatchUp
<1>2. CASE Ends
  BY <1>1, <1>2, RefusePreserves DEF Refuse
<1>3. CASE op' = [op EXCEPT !.pc = "live", !.s1 = 0, !.repair = (op.cmd = "rebuild")]
  <2>1. /\ op \in Command /\ op.cmd \in {"rebuild", "promote"}
        /\ run.status \in {"catching_up", "reconciling", "ready"}
        /\ 0 \in 0..MaxWork /\ (op.cmd = "rebuild") \in BOOLEAN
    BY <1>1, Reconciling, FeedAssumption DEF Inv, TypeOK
  <2>2. /\ op' \in Command /\ op'.pc = "live" /\ op'.cmd = op.cmd /\ (op'.repair => op.cmd = "rebuild")
        /\ op'.live = op.live /\ op'.gone = op.gone /\ op'.fix = op.fix
    <3> DEFINE b == op.cmd = "rebuild"
    <3>1. b \in BOOLEAN
      OBVIOUS
    <3>2. op' = [op EXCEPT !.pc = "live", !.s1 = 0, !.repair = b]
      BY <1>3
    <3> HIDE DEF b
    <3>3. /\ op' \in Command /\ op'.pc = "live" /\ op'.cmd = op.cmd /\ op'.repair = b
          /\ op'.live = op.live /\ op'.gone = op.gone /\ op'.fix = op.fix
      BY <2>1, <3>1, <3>2 DEF Command
    <3> QED
      BY <3>3 DEF b
  <2>3. TypeOK' /\ SameTargets /\ RunGoesOn
    BY <1>1, <2>2 DEF Inv, TypeOK, FeedTypeOK, feedVars, SameTargets, RunGoesOn
  <2>4. OpInv'
    BY <1>1, <2>1, <2>2 DEF OpInv, feedVars, Inv, ProjectionInv
  <2>5. NothingLost'
    BY <1>1, <2>2, <2>3, PlainTrust, PlainLost DEF feedVars, canonVars, rowVars
  <2> QED
    BY <1>1, <2>3, <2>4, <2>5, Control DEF feedVars, canonVars, rowVars
<1> QED
  BY <1>2, <1>3 DEF CatchUp

LEMMA BeginCutoverPreserves == ASSUME Inv, BeginCutover PROVE Inv'
<1>1. /\ op.pc = "begin" /\ op.cmd = "promote" /\ UNCHANGED <<feedVars, replayed>>
      /\ run' = [run EXCEPT !.status = "cutting_over"] /\ op' = [op EXCEPT !.pc = "swap"]
  BY DEF BeginCutover, Goes
<1>2. run.status = "ready" /\ op \in Command /\ run \in Run
  BY <1>1 DEF Inv, ProjectionInv, OpInv, TypeOK
<1>3. run' \in Run /\ run'.status = "cutting_over" /\ run'.to = run.to /\ run'.s0 = run.s0
  BY <1>1, <1>2 DEF Run, Unfinished
<1>4. /\ op' \in Command /\ op'.pc = "swap" /\ op'.cmd = "promote"
      /\ op'.live = op.live /\ op'.gone = op.gone /\ op'.fix = op.fix /\ op'.repair = op.repair
  BY <1>1, <1>2 DEF Command
<1>5. TypeOK' /\ SameTargets /\ RunGoesOn
  BY <1>1, <1>2, <1>3, <1>4 DEF Inv, TypeOK, FeedTypeOK, feedVars, SameTargets, RunGoesOn, Unfinished
<1>6. OpInv'
  BY <1>1, <1>3, <1>4 DEF OpInv, feedVars, Inv, ProjectionInv
<1>7. NothingLost'
  <2>1. ~Checking /\ \A t \in Target : Trusted(t)' => Trusted(t)
    BY <1>1, <1>3, <1>4, <1>5 DEF Checking, Trusted, SameTargets
  <2> QED
    BY <1>1, <1>5, <2>1, PlainLost DEF feedVars, canonVars, rowVars
<1> QED
  BY <1>1, <1>5, <1>6, <1>7, Control DEF feedVars, canonVars, rowVars

LEMMA PlanRollbackPreserves ==
    ASSUME Inv, NEW p \in Target, NEW t \in Target, PlanRollback(p, t)
    PROVE  Inv'
<1>1. /\ op' = [Idle EXCEPT !.cmd = "rollback", !.pc = "begin", !.from = p, !.to = t]
      /\ UNCHANGED <<feedVars, run, replayed>>
  BY DEF PlanRollback
<1>2. p \in 0..MaxTarget /\ t \in 0..MaxTarget /\ Idle \in Command
  BY Values, FeedAssumption DEF Target
<1>3. op' \in Command
  BY <1>1, <1>2 DEF Command
<1>4. /\ op'.cmd = "rollback" /\ op'.pc = "begin" /\ op'.from = p /\ op'.to = t /\ op'.repair = FALSE
      /\ op'.live = NoDocs /\ op'.gone = NoDocs /\ op'.fix = NoDocs
  BY <1>1 DEF Idle
<1>5. TypeOK' /\ SameTargets /\ RunGoesOn
  BY <1>1, <1>3 DEF Inv, TypeOK, FeedTypeOK, feedVars, SameTargets, RunGoesOn
<1>6. OpInv'
  <2>1. \A n \in Notification : canon'[n].rev \in Nat
    BY <1>5 DEF TypeOK, FeedTypeOK
  <2> QED
    BY <1>4, <2>1 DEF OpInv, NoDocs
<1>7. NothingLost'
  BY <1>1, <1>4, <1>5, PlainTrust, PlainLost DEF feedVars, canonVars, rowVars
<1> QED
  BY <1>1, <1>5, <1>6, <1>7, Control DEF feedVars, canonVars, rowVars

LEMMA BeginRollbackPreserves == ASSUME Inv, BeginRollback PROVE Inv'
<1>1. op.pc = "begin" /\ op.cmd = "rollback" /\ UNCHANGED <<feedVars, run, replayed>>
  BY DEF BeginRollback
<1>2. CASE Ends
  BY <1>1, <1>2, RefusePreserves DEF Refuse
<1>3. CASE op' = [op EXCEPT !.pc = "swap"]
  <2>1. op \in Command
    BY DEF Inv, TypeOK
  <2>2. /\ op' \in Command /\ op'.pc = "swap" /\ op'.cmd = "rollback" /\ op'.from = op.from /\ op'.to = op.to
        /\ op'.live = op.live /\ op'.gone = op.gone /\ op'.fix = op.fix /\ op'.repair = op.repair
    BY <1>1, <1>3, <2>1 DEF Command
  <2>3. TypeOK' /\ SameTargets /\ RunGoesOn
    BY <1>1, <2>2 DEF Inv, TypeOK, FeedTypeOK, feedVars, SameTargets, RunGoesOn
  <2>4. OpInv'
    BY <1>1, <2>2 DEF OpInv, feedVars, Inv, ProjectionInv
  <2>5. NothingLost'
    BY <1>1, <2>2, <2>3, PlainTrust, PlainLost DEF feedVars, canonVars, rowVars
  <2> QED
    BY <1>1, <2>3, <2>4, <2>5, Control DEF feedVars, canonVars, rowVars
<1> QED
  BY <1>2, <1>3 DEF BeginRollback, Goes

-----------------------------------------------------------------------------
(* The reconciliation *)

\* A promotion that has read the rows expects every revision there is.
LEMMA ReadLivePreserves == ASSUME Inv, ReadLive PROVE Inv'
<1> DEFINE live == [n \in Notification |-> IF canon[n].state \in {"unread", "read"} THEN canon[n].rev ELSE 0]
<1>1. /\ op.pc = "live" /\ UNCHANGED <<feedVars, replayed>>
      /\ run' = [run EXCEPT !.status = "reconciling"]
      /\ op' = [op EXCEPT !.pc = "gone", !.live = live]
  BY DEF ReadLive
<1>2. /\ op.cmd \in {"rebuild", "promote"} /\ run.status \in {"catching_up", "reconciling", "ready"}
      /\ run.to \in Target /\ target[run.to].status = "building"
  BY <1>1, Reconciling
<1>3. op \in Command /\ run \in Run /\ \A n \in Notification : canon[n].rev \in Nat
      /\ canon[n].state \in {"none", "unread", "read", "deleted"}
  BY DEF Inv, TypeOK, FeedTypeOK
<1>4. live \in Docs /\ \A n \in Notification : live[n] <= canon[n].rev
  BY <1>3 DEF Docs
<1>5. run' \in Run /\ run'.status = "reconciling" /\ run'.to = run.to /\ run'.s0 = run.s0
  BY <1>1, <1>3 DEF Run, Unfinished
<1>6. /\ op' \in Command /\ op'.pc = "gone" /\ op'.cmd = op.cmd /\ op'.live = live
      /\ op'.gone = op.gone /\ op'.fix = op.fix /\ op'.repair = op.repair
  <2> HIDE DEF live
  <2> QED
    BY <1>1, <1>3, <1>4 DEF Command
<1>7. TypeOK' /\ SameTargets /\ RunGoesOn
  BY <1>1, <1>2, <1>5, <1>6 DEF Inv, TypeOK, FeedTypeOK, feedVars, SameTargets, RunGoesOn, Unfinished
<1>8. OpInv'
  <2> HIDE DEF live
  <2> QED
    BY <1>1, <1>2, <1>4, <1>5, <1>6 DEF OpInv, feedVars, Inv, ProjectionInv
<1>9. ASSUME NEW t \in Target, t = run.to, op'.cmd = "promote",
             NEW n \in Notification, NEW r \in Nat, r <= canon[n].rev
      PROVE  Seen(t, n, r)'
  <2>1. Checking'
    BY <1>6, <1>9 DEF Checking
  <2>2. Known(n)' = canon[n].rev
    <3>1. canon[n].state = "none" => canon[n].rev = 0
      BY DEF Inv, ProjectionInv, RowInv
    <3> QED
      BY <1>1, <1>3, <1>6, <3>1 DEF Known, feedVars
  <2> QED
    BY <1>5, <1>9, <2>1, <2>2 DEF Seen
<1>10. NothingLost'
  <2>1. Committed' = Committed /\ UNCHANGED <<outbox, delivery, handler, target, index, canon>>
    BY <1>1 DEF feedVars, Committed
  <2>2. ~Checking
    BY <1>1 DEF Checking
  <2>3. \A s \in Committed : outbox[s].note \in Notification /\ outbox[s].rev \in Nat
                             /\ outbox[s].rev <= canon[outbox[s].note].rev
    <3>1. \A s \in Committed : outbox[s].note \in Notification /\ outbox[s].rev \in 1..canon[outbox[s].note].rev
      BY DEF Inv, ProjectionInv, RowInv
    <3> QED
      BY <1>3, <3>1
  <2>4. \A w \in Handler : handler[w].pc = "ack" =>
           /\ outbox[handler[w].job].note \in Notification
           /\ handler[w].rev \in Nat /\ handler[w].rev <= canon[outbox[handler[w].job].note].rev
    <3> SUFFICES ASSUME NEW w \in Handler, handler[w].pc = "ack"
                 PROVE  /\ outbox[handler[w].job].note \in Notification
                        /\ handler[w].rev \in Nat /\ handler[w].rev <= canon[outbox[handler[w].job].note].rev
      OBVIOUS
    <3>1. OnCourse(w) /\ handler[w] \in Work
      BY DEF Inv, ProjectionInv, HandlerInv, TypeOK, FeedTypeOK
    <3>2. handler[w].job \in Committed
      BY <3>1 DEF OnCourse
    <3> QED
      BY <1>3, <2>3, <3>1, <3>2 DEF OnCourse, Work
  <2>5. ASSUME NEW t \in Target, Trusted(t)'
        PROVE  \/ t = run.to /\ op'.cmd = "promote"
               \/ Trusted(t)
    BY <1>5, <1>6, <2>1, <2>5 DEF Trusted
  <2>6. ASSUME NEW t \in Target, Trusted(t)', NEW s \in Committed',
               s <= target'[t].from \/ delivery'[s][t].status = "processed"
        PROVE  Seen(t, outbox[s].note, outbox[s].rev)'
    <3>1. CASE t = run.to /\ op'.cmd = "promote"
      BY <1>9, <2>1, <2>3, <2>6, <3>1
    <3>2. CASE Trusted(t)
      <4>1. Seen(t, outbox[s].note, outbox[s].rev)
        BY <2>1, <2>6, <3>2 DEF Inv, ProjectionInv, NothingLost
      <4> QED
        BY <2>1, <2>2, <4>1 DEF Seen
    <3> QED
      BY <2>5, <2>6, <3>1, <3>2
  <2>7. ASSUME NEW t \in Target, Trusted(t)', NEW w \in Handler, handler'[w].pc = "ack", handler'[w].at = t
        PROVE  Seen(t, outbox[handler[w].job].note, handler[w].rev)'
    <3>1. CASE t = run.to /\ op'.cmd = "promote"
      BY <1>9, <2>1, <2>4, <2>7, <3>1
    <3>2. CASE Trusted(t)
      <4>1. Seen(t, outbox[handler[w].job].note, handler[w].rev)
        BY <2>1, <2>7, <3>2 DEF Inv, ProjectionInv, NothingLost
      <4> QED
        BY <2>1, <2>2, <4>1 DEF Seen
    <3> QED
      BY <2>5, <2>7, <3>1, <3>2
  <2> QED
    BY <2>6, <2>7 DEF NothingLost
<1> QED
  BY <1>1, <1>7, <1>8, <1>10, Control DEF feedVars, canonVars, rowVars

LEMMA ReadGonePreserves == ASSUME Inv, ReadGone PROVE Inv'
<1> DEFINE gone == [n \in Notification |-> IF canon[n].state = "deleted" THEN canon[n].rev ELSE 0]
<1>1. /\ op.pc = "gone" /\ UNCHANGED <<feedVars, run, replayed>>
      /\ op' = [op EXCEPT !.pc = "scan", !.gone = gone]
  BY DEF ReadGone
<1>2. op.cmd \in {"rebuild", "promote"} /\ run.status \in {"catching_up", "reconciling", "ready"}
  BY <1>1, Reconciling
<1>3. op \in Command /\ \A n \in Notification : canon[n].rev \in Nat
  BY DEF Inv, TypeOK, FeedTypeOK
<1>4. gone \in Docs /\ \A n \in Notification : gone[n] <= canon[n].rev
  BY <1>3 DEF Docs
<1>5. /\ op' \in Command /\ op'.pc = "scan" /\ op'.cmd = op.cmd /\ op'.gone = gone
      /\ op'.live = op.live /\ op'.fix = op.fix /\ op'.repair = op.repair
  <2> HIDE DEF gone
  <2> QED
    BY <1>1, <1>3, <1>4 DEF Command
<1>6. TypeOK' /\ SameTargets /\ RunGoesOn
  BY <1>1, <1>5 DEF Inv, TypeOK, FeedTypeOK, feedVars, SameTargets, RunGoesOn
<1>7. OpInv'
  <2> HIDE DEF gone
  <2> QED
    BY <1>1, <1>2, <1>4, <1>5 DEF OpInv, feedVars, Inv, ProjectionInv
<1>8. ASSUME NEW n \in Notification
      PROVE  Known(n) \in Nat /\ Known(n)' \in Nat /\ Known(n) <= Known(n)'
  <2>1. op.live[n] \in Nat /\ gone[n] \in Nat /\ canon[n].rev \in Nat
    BY <1>3, <1>4 DEF Command, Docs
  <2>2. Known(n) = IF canon[n].state = "deleted" THEN canon[n].rev ELSE op.live[n]
    BY <1>1 DEF Known
  <2>3. Known(n)' = Larger(op.live[n], gone[n])
    BY <1>5 DEF Known, Expected
  <2>4. gone[n] = IF canon[n].state = "deleted" THEN canon[n].rev ELSE 0
    OBVIOUS
  <2> HIDE DEF gone
  <2> QED
    BY <2>1, <2>2, <2>3, <2>4 DEF Larger
<1>9. NothingLost'
  <2>1. Committed' = Committed /\ UNCHANGED <<outbox, delivery, handler, target, index, run>>
    BY <1>1 DEF feedVars, Committed
  <2>2. (Checking' <=> Checking) /\ \A t \in Target : Trusted(t)' => Trusted(t)
    BY <1>1, <1>5, <2>1 DEF Checking, Trusted
  <2>3. \A t \in Target, n \in Notification, r \in Nat : Seen(t, n, r) => Seen(t, n, r)'
    BY <1>8, <2>1, <2>2 DEF Seen
  <2> QED
    BY <2>1, <2>2, <2>3, LostFrame
<1> QED
  BY <1>1, <1>6, <1>7, <1>9, Control DEF feedVars, canonVars, rowVars

\* A promotion that goes on has found what it expects.
LEMMA ScanPreserves == ASSUME Inv, Scan PROVE Inv'
<1> DEFINE at == index[run.to]
           behind == {n \in Notification : at[n] < Expected(n)}
           extra == {n \in Notification : at[n] > 0 /\ Expected(n) = 0}
           same == \A n \in Notification : at[n] = Expected(n)
           repairs == op.repair /\ behind \cup extra \cup Twice # {}
           pc == IF repairs THEN "repair" ELSE "record"
           fix == IF repairs THEN [n \in Notification |-> IF n \in behind THEN Expected(n) ELSE 0] ELSE NoDocs
           left == IF repairs THEN extra ELSE {}
           passed == same /\ Twice = {}
<1>1. /\ op.pc = "scan" /\ UNCHANGED <<feedVars, run, replayed>>
      /\ op' = [op EXCEPT !.pc = pc, !.live = NoDocs, !.gone = NoDocs, !.fix = fix,
                          !.extra = left, !.repair = repairs, !.passed = passed]
  BY DEF Scan
<1>2. /\ op.cmd \in {"rebuild", "promote"} /\ run.status \in {"catching_up", "reconciling", "ready"}
      /\ run.to \in Target /\ target[run.to].status = "building"
  BY <1>1, Reconciling
<1>3. op \in Command /\ NoDocs \in Docs /\ \A n \in Notification : canon[n].rev \in Nat
  BY Values DEF Inv, TypeOK, FeedTypeOK
<1>4. \A n \in Notification : Expected(n) \in Nat /\ Expected(n) <= canon[n].rev
  <2>1. \A n \in Notification : op.live[n] \in Nat /\ op.gone[n] \in Nat
                                /\ op.live[n] <= canon[n].rev /\ op.gone[n] <= canon[n].rev
    BY <1>3 DEF Command, Docs, Inv, ProjectionInv, OpInv
  <2> QED
    BY <2>1 DEF Expected, Larger
<1>5. fix \in Docs /\ \A n \in Notification : fix[n] <= canon[n].rev
  <2> HIDE DEF behind, repairs
  <2> QED
    BY <1>3, <1>4 DEF Docs, NoDocs
<1>6. left \in SUBSET Notification /\ passed \in BOOLEAN /\ repairs \in BOOLEAN /\ pc \in {"repair", "record"}
      /\ (pc = "repair" => op.repair) /\ (repairs => op.repair)
  <2>1. op.repair \in BOOLEAN
    BY <1>3 DEF Command
  <2>2. repairs \in BOOLEAN /\ passed \in BOOLEAN
    BY <2>1
  <2>3. left \in SUBSET Notification /\ pc \in {"repair", "record"} /\ (pc = "repair" => repairs)
    <3> HIDE DEF repairs
    <3> QED
      OBVIOUS
  <2> QED
    BY <2>2, <2>3
<1>7. /\ op' \in Command /\ op'.pc = pc /\ op'.cmd = op.cmd /\ op'.live = NoDocs /\ op'.gone = NoDocs
      /\ op'.fix = fix /\ op'.repair = repairs /\ op'.passed = passed
  <2> HIDE DEF pc, fix, left, repairs, passed
  <2> QED
    BY <1>1, <1>3, <1>5, <1>6 DEF Command
<1>8. TypeOK' /\ SameTargets /\ RunGoesOn
  <2> HIDE DEF pc, fix, left, repairs, passed
  <2> QED
    BY <1>1, <1>7 DEF Inv, TypeOK, FeedTypeOK, feedVars, SameTargets, RunGoesOn
<1>9. OpInv'
  <2>1. op.repair => op.cmd = "rebuild"
    BY DEF Inv, ProjectionInv, OpInv
  <2>2. \A n \in Notification : NoDocs[n] <= canon[n].rev
    BY <1>3 DEF NoDocs
  <2> HIDE DEF pc, fix, left, repairs, passed
  <2> QED
    BY <1>1, <1>2, <1>5, <1>6, <1>7, <2>1, <2>2 DEF OpInv, feedVars
<1>10. NothingLost'
  <2>1. Committed' = Committed /\ UNCHANGED <<outbox, delivery, handler, target, index, run>>
    BY <1>1 DEF feedVars, Committed
  <2>2. op'.pc \in {"repair", "record"} /\ op'.cmd = op.cmd /\ op'.passed = passed
    <3> HIDE DEF pc, fix, left, repairs, passed
    <3> QED
      BY <1>6, <1>7
  <2>3. \A t \in Target : Trusted(t)' => Trusted(t)
    <3> HIDE DEF passed
    <3> QED
      BY <1>1, <2>1, <2>2 DEF Trusted
  <2>4. ASSUME NEW t \in Target, Trusted(t)', NEW n \in Notification, NEW r \in Nat, Seen(t, n, r)
        PROVE  Seen(t, n, r)'
    <3>1. CASE r <= index[t][n]
      BY <2>1, <3>1 DEF Seen
    <3>2. CASE t = run.to /\ Checking /\ r <= Known(n)
      <4>1. Known(n) = Expected(n) /\ op.cmd = "promote"
        BY <1>1, <3>2 DEF Known, Checking
      <4>2. passed
        <5> HIDE DEF passed
        <5> QED
          BY <1>2, <2>1, <2>2, <2>4, <3>2 DEF Trusted
      <4>3. index[t][n] = Expected(n)
        BY <3>2, <4>2
      <4> QED
        BY <2>1, <3>2, <4>1, <4>3 DEF Seen
    <3> QED
      BY <2>4, <3>1, <3>2 DEF Seen
  <2> QED
    BY <2>1, <2>3, <2>4, LostFrame
<1> QED
  BY <1>1, <1>8, <1>9, <1>10, Control DEF feedVars, canonVars, rowVars

LEMMA RecordReconciliationPreserves == ASSUME Inv, RecordReconciliation PROVE Inv'
<1>1. /\ op.pc = "record" /\ UNCHANGED <<canonVars, rowVars, index, alias, fence, handler, trouble, replayed>>
      /\ run' = [run EXCEPT !.status = IF op.passed THEN "ready" ELSE "reconciling"]
      /\ target' = [target EXCEPT ![run.to].checked = op.passed]
  BY DEF RecordReconciliation
<1>2. /\ op.cmd \in {"rebuild", "promote"} /\ run.status \in {"catching_up", "reconciling", "ready"}
      /\ run.to \in Target /\ target[run.to].status = "building"
  BY <1>1, Reconciling
<1>3. op \in Command /\ run \in Run /\ op.passed \in BOOLEAN
  BY DEF Inv, TypeOK, Command
<1>4. /\ run' \in Run /\ run'.status = (IF op.passed THEN "ready" ELSE "reconciling")
      /\ run'.to = run.to /\ run'.s0 = run.s0
  BY <1>1, <1>3 DEF Run, Unfinished
<1>5. target' \in [Target -> TargetRow] /\ SameTargets
  <2> DEFINE row == [target[run.to] EXCEPT !.checked = op.passed]
  <2>1. target \in [Target -> TargetRow] /\ target[run.to] \in TargetRow
    BY <1>2 DEF Inv, TypeOK, FeedTypeOK
  <2>2. row \in TargetRow /\ row.status = target[run.to].status /\ row.from = target[run.to].from
        /\ row.window = target[run.to].window
    BY <1>3, <2>1 DEF TargetRow
  <2>3. target' = [target EXCEPT ![run.to] = row]
    BY <1>1
  <2> QED
    BY <1>2, <2>1, <2>2, <2>3 DEF SameTargets
<1>6. \/ /\ op.passed /\ op.cmd = "promote"
         /\ op' = [Idle EXCEPT !.cmd = "promote", !.pc = "begin"]
      \/ op' = [Idle EXCEPT !.cmd = "rebuild", !.pc = "live"]
      \/ Ends
  BY DEF RecordReconciliation
<1>7. op' \in Command
  BY <1>6, StartedType, Values DEF Ends
<1>8. TypeOK' /\ RunGoesOn
  BY <1>1, <1>2, <1>4, <1>5, <1>7 DEF Inv, TypeOK, FeedTypeOK, canonVars, rowVars, RunGoesOn, Unfinished
<1>9. OpInv'
  BY <1>4, <1>6, <1>8, StartedOp, EndedOp
<1>10. NothingLost'
  <2>1. ~Checking
    BY <1>1 DEF Checking
  <2>2. \A t \in Target : Trusted(t)' => Trusted(t)
    <3>1. op'.cmd = "promote" => op.cmd = "promote" /\ op.passed
      <4>1. op' = [Idle EXCEPT !.cmd = "rebuild", !.pc = "live"] => op'.cmd = "rebuild"
        BY DEF Idle
      <4>2. Ends => op'.cmd = "none"
        BY DEF Idle, Ends
      <4> QED
        BY <1>6, <4>1, <4>2
    <3>2. run'.status # "cutting_over" /\ run'.to = run.to
      BY <1>4
    <3> QED
      BY <1>1, <1>5, <3>1, <3>2 DEF Trusted, SameTargets
  <2> QED
    BY <1>1, <1>5, <2>1, <2>2, PlainLost
<1> QED
  BY <1>1, <1>5, <1>8, <1>9, <1>10, Control

-----------------------------------------------------------------------------
(* The steps of the operator that write the index, the aliases or the rows *)

\* A write into the index that is being filled: it has no one's trust yet.
LEMMA WritePreserves ==
    ASSUME Inv, UNCHANGED <<canonVars, rowVars, target, alias, fence, handler, trouble, run, replayed>>,
           op.cmd = "rebuild", run.status \in Unfinished \ {"cutting_over"}, op'.cmd = "rebuild",
           op' \in Command, OpInv',
           index' \in [Target -> [Notification -> Nat]],
           \A t \in Target \ {run.to} : index'[t] = index[t],
           \A n \in Notification : index'[run.to][n] <= canon[n].rev
    PROVE  Inv'
<1> USE DEF Inv, ProjectionInv
<1>1. TypeOK' /\ SameTargets /\ Committed' = Committed
  BY DEF TypeOK, FeedTypeOK, canonVars, rowVars, SameTargets, Committed
<1>2. Grows
  <2>1. \A n \in Notification : canon[n].rev \in Nat
    BY DEF TypeOK, FeedTypeOK
  <2> QED
    BY <1>1, <2>1 DEF Grows, canonVars, rowVars, Owed, Fed, Eligible
<1>3. RowInv' /\ DrawInv'
  <2>1. \A s \in Seqs, t \in Target : delivery[s][t].status = "processed" => s \in Committed
    BY DEF RowInv
  <2> QED
    BY <1>1, <2>1, RowFrame, DrawFrame DEF Alike, canonVars, rowVars
<1>4. HandlerInv' /\ RunInv' /\ PrimaryInv'
  BY <1>1, <1>2, StillOnCourse, RunFrame, AliasFrame
<1>5. IndexNeverAhead'
  BY DEF IndexNeverAhead, canonVars
<1>6. ProcessedEverywhere'
  BY <1>1, <1>2 DEF ProcessedEverywhere, rowVars, Grows, Committed
<1>7. NothingLost'
  <2>1. ~Checking
    BY DEF Checking
  <2>2. \A t \in Target : Trusted(t)' => Trusted(t) /\ t # run.to
    BY DEF Trusted, RunInv
  <2>3. \A t \in Target : Trusted(t)' => \A n \in Notification, r \in Nat : Seen(t, n, r) => Seen(t, n, r)'
    BY <2>1, <2>2 DEF Seen
  <2> QED
    BY <1>1, <2>2, <2>3, LostFrame DEF rowVars
<1> QED
  BY <1>1, <1>3, <1>4, <1>5, <1>6, <1>7

LEMMA WriteBatchPreserves == ASSUME Inv, WriteBatch PROVE Inv'
<1>1. /\ op.pc = "write" /\ op' = [op EXCEPT !.pc = "mark"]
      /\ index' = [index EXCEPT ![run.to][op.doc] = Larger(index[run.to][op.doc], op.rev)]
      /\ UNCHANGED <<canonVars, rowVars, target, alias, fence, handler, trouble, run, replayed>>
  BY DEF WriteBatch, Goes
<1>2. /\ op.cmd = "rebuild" /\ run.status \in {"initialized", "backfilling"}
      /\ run.to \in Target
  BY <1>1, Reading
<1>3. op \in Command /\ op.doc \in Notification /\ op.rev <= canon[op.doc].rev
  BY <1>1 DEF Inv, TypeOK, ProjectionInv, OpInv
<1>4. /\ op' \in Command /\ op'.pc = "mark" /\ op'.cmd = "rebuild" /\ op'.doc = op.doc /\ op'.rev = op.rev
      /\ op'.live = op.live /\ op'.gone = op.gone /\ op'.fix = op.fix /\ op'.repair = op.repair
  BY <1>1, <1>2, <1>3 DEF Command
<1>5. OpInv'
  BY <1>1, <1>2, <1>3, <1>4 DEF OpInv, canonVars, Inv, ProjectionInv
<1>6. index \in [Target -> [Notification -> Nat]] /\ op.rev \in Nat
      /\ \A n \in Notification : index[run.to][n] <= canon[n].rev
  BY <1>2, <1>3 DEF Inv, TypeOK, FeedTypeOK, Command, ProjectionInv, IndexNeverAhead
<1>7. Larger(index[run.to][op.doc], op.rev) \in Nat
      /\ Larger(index[run.to][op.doc], op.rev) <= canon[op.doc].rev
  BY <1>2, <1>3, <1>6 DEF Larger
<1>8. /\ index' \in [Target -> [Notification -> Nat]]
      /\ \A t \in Target \ {run.to} : index'[t] = index[t]
      /\ \A n \in Notification : index'[run.to][n] <= canon[n].rev
  BY <1>1, <1>2, <1>3, <1>6, <1>7
<1> QED
  BY <1>1, <1>2, <1>4, <1>5, <1>8, WritePreserves DEF Unfinished

LEMMA RepairPreserves == ASSUME Inv, Repair PROVE Inv'
<1> DEFINE at == [n \in Notification |-> IF n \in op.extra THEN 0 ELSE Larger(index[run.to][n], op.fix[n])]
<1>1. /\ op.pc = "repair" /\ op' = [op EXCEPT !.pc = "record", !.fix = NoDocs, !.extra = {}]
      /\ index' = [index EXCEPT ![run.to] = at]
      /\ UNCHANGED <<canonVars, rowVars, target, alias, fence, handler, trouble, run, replayed>>
  BY DEF Repair
<1>2. /\ op.cmd = "rebuild" /\ run.status \in {"catching_up", "reconciling", "ready"}
      /\ run.to \in Target
  BY <1>1, Reconciling DEF Inv, ProjectionInv, OpInv
<1>3. op \in Command /\ NoDocs \in Docs /\ {} \in SUBSET Notification
      /\ \A n \in Notification : canon[n].rev \in Nat
  BY Values DEF Inv, TypeOK, FeedTypeOK
<1>4. /\ op' \in Command /\ op'.pc = "record" /\ op'.cmd = "rebuild" /\ op'.fix = NoDocs
      /\ op'.live = op.live /\ op'.gone = op.gone /\ op'.repair = op.repair
  BY <1>1, <1>2, <1>3 DEF Command
<1>5. OpInv'
  <2>1. \A n \in Notification : NoDocs[n] <= canon[n].rev
    BY <1>3 DEF NoDocs
  <2> QED
    BY <1>1, <1>2, <1>4, <2>1 DEF OpInv, canonVars, Inv, ProjectionInv
<1>6. index \in [Target -> [Notification -> Nat]] 
      /\ \A n \in Notification : index[run.to][n] <= canon[n].rev /\ op.fix[n] <= canon[n].rev /\ op.fix[n] \in Nat
  BY <1>2, <1>3 DEF Inv, TypeOK, FeedTypeOK, Command, Docs, ProjectionInv, IndexNeverAhead, OpInv
<1>7. at \in [Notification -> Nat] /\ \A n \in Notification : at[n] <= canon[n].rev
  BY <1>2, <1>3, <1>6 DEF Larger
<1>8. /\ index' \in [Target -> [Notification -> Nat]]
      /\ \A t \in Target \ {run.to} : index'[t] = index[t]
      /\ \A n \in Notification : index'[run.to][n] <= canon[n].rev
  <2> HIDE DEF at
  <2> QED
    BY <1>1, <1>2, <1>6, <1>7
<1> QED
  BY <1>1, <1>2, <1>4, <1>5, <1>8, WritePreserves DEF Unfinished

LEMMA RowsPreserve ==
    ASSUME Inv, UNCHANGED <<canonVars, delivery, target, index, alias, fence, handler, trouble, run, op>>,
           replayed' \in SUBSET Seqs, outbox' \in [Seqs -> Row], Alike(outbox', outbox),
           NoneProcessed(outbox', outbox)
    PROVE  Inv'
<1> USE DEF Inv, ProjectionInv
<1>1. TypeOK' /\ SameTargets /\ Committed' = Committed
  BY DEF TypeOK, FeedTypeOK, canonVars, SameTargets, Alike, Committed
<1>2. Grows
  <2>1. \A n \in Notification : canon[n].rev \in Nat
    BY DEF TypeOK, FeedTypeOK
  <2> QED
    BY <1>1, <2>1 DEF Grows, canonVars, Alike, Owed, Fed, Eligible, Committed
<1>3. RowInv' /\ DrawInv'
  <2>1. \A s \in Seqs, t \in Target : delivery[s][t].status = "processed" => s \in Committed
    BY DEF RowInv
  <2> QED
    BY <1>1, <2>1, RowFrame, DrawFrame DEF canonVars
<1>4. HandlerInv' /\ OpInv' /\ RunInv' /\ PrimaryInv'
  <2>1. op.cmd = "rollback" /\ HoldsFence => HoldsFence'
    BY <1>1, <1>2, FenceFrame DEF canonVars
  <2> QED
    BY <1>1, <1>2, <2>1, StillOnCourse, OpFrame, RunFrame, AliasFrame DEF Grows
<1>5. IndexNeverAhead'
  BY DEF IndexNeverAhead, canonVars
<1>6. ProcessedEverywhere'
  BY <1>1, <1>2 DEF ProcessedEverywhere, NoneProcessed, Grows, Committed
<1>7. NothingLost'
  <2>1. \A t \in Target : Trusted(t)' => Trusted(t)
    BY <1>1, TrustedFrame
  <2>2. \A t \in Target, n \in Notification, r \in Nat : Seen(t, n, r) => Seen(t, n, r)'
    BY KnownFrame DEF Seen, Checking, canonVars
  <2>3. \A s \in Committed : outbox'[s].note = outbox[s].note /\ outbox'[s].rev = outbox[s].rev
    BY DEF Alike, Committed
  <2> QED
    BY <1>1, <2>1, <2>2, <2>3, LostFrame
<1> QED
  BY <1>1, <1>3, <1>4, <1>5, <1>6, <1>7

LEMMA DeadLettersPreserve ==
    ASSUME Inv, NEW s \in Seqs, Replay(s) \/ Discard(s)
    PROVE  Inv'
<1>1. outbox \in [Seqs -> Row] /\ outbox[s] \in Row /\ outbox[s].status = "dead_letter"
      /\ UNCHANGED <<canonVars, delivery, target, index, alias, fence, handler, trouble, run, op>>
      /\ replayed' \in SUBSET Seqs
  BY DEF Inv, TypeOK, FeedTypeOK, Replay, Discard
<1>2. PICK row \in Row : /\ outbox' = [outbox EXCEPT ![s] = row] /\ row.note = outbox[s].note
                         /\ row.rev = outbox[s].rev /\ row.status \in {"pending", "discarded"}
  <2>1. CASE Replay(s)
    <3> DEFINE row == [outbox[s] EXCEPT !.status = "pending", !.attempts = 0]
    <3>1. row \in Row /\ row.note = outbox[s].note /\ row.rev = outbox[s].rev /\ row.status = "pending"
      <4>1. 0 \in 0..MaxAttempts
        BY FeedAssumption
      <4> QED
        BY <1>1, <4>1 DEF Row
    <3> QED
      BY <2>1, <3>1 DEF Replay
  <2>2. CASE Discard(s)
    <3> DEFINE row == [outbox[s] EXCEPT !.status = "discarded"]
    <3>1. row \in Row /\ row.note = outbox[s].note /\ row.rev = outbox[s].rev /\ row.status = "discarded"
      BY <1>1 DEF Row
    <3> QED
      BY <2>2, <3>1 DEF Discard
  <2> QED
    BY <2>1, <2>2
<1>3. outbox' \in [Seqs -> Row] /\ Alike(outbox', outbox) /\ NoneProcessed(outbox', outbox)
  BY <1>1, <1>2 DEF Alike, NoneProcessed
<1> QED
  BY <1>1, <1>3, RowsPreserve

\* A step of the operator on the targets, the aliases or the run.
LEMMA TargetsPreserve ==
    ASSUME Inv, TypeOK', UNCHANGED <<canonVars, rowVars, index, handler>>,
           \A s \in Committed, t \in Target :
              Owed(t, s)' => Owed(t, s) \/ delivery[s][t].status = "processed",
           DrawInv', OpInv', RunInv', PrimaryInv',
           \A t \in Target : Trusted(t)' => Trusted(t) /\ target'[t].from = target[t].from,
           \A t \in Target : Trusted(t)' => \A n \in Notification, r \in Nat : Seen(t, n, r) => Seen(t, n, r)'
    PROVE  Inv'
<1> USE DEF Inv, ProjectionInv
<1>1. Committed' = Committed /\ \A n \in Notification : canon[n].rev \in Nat
  BY DEF Committed, rowVars, TypeOK, FeedTypeOK
<1>2. Grows
  BY <1>1 DEF Grows, canonVars, rowVars
<1>3. RowInv'
  <2>1. \A s \in Seqs, t \in Target : delivery[s][t].status = "processed" => s \in Committed
    BY DEF RowInv
  <2> QED
    BY <1>1, <2>1, RowFrame DEF Alike, rowVars
<1>4. HandlerInv'
  BY <1>2, StillOnCourse
<1>5. IndexNeverAhead' /\ ProcessedEverywhere'
  BY <1>1 DEF IndexNeverAhead, ProcessedEverywhere, canonVars, rowVars, Committed
<1>6. NothingLost'
  BY <1>1, LostFrame DEF rowVars
<1> QED
  BY <1>3, <1>4, <1>5, <1>6

\* When no reconciliation of a promotion is under way, what is seen is in the index.
LEMMA SeenInIndex ==
    ASSUME Inv, ~Checking, UNCHANGED index, NEW t \in Target, NEW n \in Notification, NEW r \in Nat, Seen(t, n, r)
    PROVE  Seen(t, n, r)'
  BY DEF Seen

LEMMA SwapPreserves ==
    ASSUME Inv, NEW to \in Target, SwapAlias(to), op.pc = "swap", op.cmd \in {"promote", "rollback"},
           op.cmd = "promote" => to = run.to,
           op.cmd = "rollback" =>
              /\ to = op.to /\ Eligible(to) /\ target[op.from].status = "primary"
              /\ WritersDrained /\ Incomplete(to, target[to].from, MaxWork) = {}
    PROVE  Inv'
<1>1. /\ alias' = to /\ fence' = op.cmd /\ op' = [op EXCEPT !.pc = "commit"]
      /\ UNCHANGED <<canonVars, rowVars, target, index, handler, trouble, run, replayed>>
  BY DEF SwapAlias, Goes
<1>2. op \in Command
  BY DEF Inv, TypeOK
<1>3. /\ op' \in Command /\ op'.pc = "commit" /\ op'.cmd = op.cmd /\ op'.from = op.from /\ op'.to = op.to
      /\ op'.live = op.live /\ op'.gone = op.gone /\ op'.fix = op.fix /\ op'.repair = op.repair
  BY <1>1, <1>2 DEF Command
<1>4. TypeOK' /\ Committed' = Committed
  BY <1>1, <1>3 DEF Inv, TypeOK, FeedTypeOK, canonVars, rowVars, Committed
<1>5. op.cmd = "promote" => run.status = "cutting_over" /\ target[run.to].status = "building"
  BY DEF Inv, ProjectionInv, OpInv, RunInv, Unfinished
<1>6. OpInv'
  <2>1. op.cmd = "rollback" => HoldsFence'
    BY <1>1, <1>3, <1>4 DEF HoldsFence, WritersDrained, Incomplete, canonVars, rowVars
  <2> QED
    BY <1>1, <1>3, <1>5, <2>1 DEF OpInv, canonVars, Inv, ProjectionInv, Eligible
<1>7. DrawInv' /\ RunInv'
  BY <1>1, <1>4, DrawFrame DEF canonVars, Inv, ProjectionInv, RunInv
<1>8. PrimaryInv'
  <2>1. CASE op.cmd = "promote"
    BY <1>1, <1>5, <2>1 DEF PrimaryInv, Inv, ProjectionInv
  <2>2. CASE op.cmd = "rollback"
    <3>1. target[to].status = "rollback"
      BY <2>2 DEF Eligible
    <3> QED
      BY <1>1, <3>1 DEF PrimaryInv, Inv, ProjectionInv
  <2> QED
    BY <2>1, <2>2
<1>9. \A s \in Committed, t \in Target : Owed(t, s)' => Owed(t, s)
  BY <1>1 DEF Owed, Fed, Eligible
<1>10. ~Checking /\ \A t \in Target : Trusted(t)' => Trusted(t) /\ target'[t].from = target[t].from
  BY <1>1, <1>3 DEF Checking, Trusted
<1> QED
  BY <1>1, <1>4, <1>6, <1>7, <1>8, <1>9, <1>10, SeenInIndex, TargetsPreserve

LEMMA PromoteAliasPreserves == ASSUME Inv, PromoteAlias PROVE Inv'
<1>1. op.pc = "swap" /\ op.cmd = "promote" /\ (Refuse \/ SwapAlias(run.to))
  BY DEF PromoteAlias
<1>2. run.to \in Target
  BY <1>1 DEF Inv, ProjectionInv, OpInv, RunInv, Unfinished
<1> QED
  BY <1>1, <1>2, RefusePreserves, SwapPreserves

LEMMA RollbackAliasPreserves == ASSUME Inv, RollbackAlias PROVE Inv'
<1>1. /\ op.pc = "swap" /\ op.cmd = "rollback"
      /\ \/ Refuse
         \/ /\ SwapAlias(op.to) /\ Eligible(op.to) /\ target[op.from].status = "primary"
            /\ WritersDrained /\ Incomplete(op.to, target[op.to].from, MaxWork) = {}
  BY DEF RollbackAlias
<1>2. op.to \in Target
  BY <1>1 DEF Inv, ProjectionInv, OpInv
<1> QED
  BY <1>1, <1>2, RefusePreserves, SwapPreserves

LEMMA InitializePreserves == ASSUME Inv, NEW t \in Target, Initialize(t) PROVE Inv'
<1> USE DEF Inv, ProjectionInv
<1>1. PICK p \in Target, s0 \in 0..MaxWork :
          /\ target[p].status = "primary" /\ IsWatermark(s0)
          /\ target' = [target EXCEPT ![t] = [NoTarget EXCEPT !.status = "building", !.from = s0]]
          /\ run' = [NoRun EXCEPT !.status = "initialized", !.to = t, !.source = p, !.s0 = s0]
  BY DEF Initialize
<1>2. /\ op = Idle /\ run.status \notin Unfinished /\ WritersDrained /\ target[t].status = "absent"
      /\ op' = [Idle EXCEPT !.cmd = "rebuild", !.pc = "read"]
      /\ UNCHANGED <<canonVars, rowVars, index, alias, fence, handler, trouble, replayed>>
  BY DEF Initialize
<1> DEFINE row == [NoTarget EXCEPT !.status = "building", !.from = s0]
<1>3. row \in TargetRow /\ row.status = "building" /\ row.from = s0 /\ row.window = FALSE
  BY Values DEF NoTarget, TargetRow
<1>4. /\ target' \in [Target -> TargetRow] /\ target'[t] = row
      /\ \A u \in Target : u # t => target'[u] = target[u]
  BY <1>1, <1>3 DEF TypeOK, FeedTypeOK
<1>5. run' \in Run /\ run'.status = "initialized" /\ run'.to = t /\ run'.s0 = s0
  <2>1. t \in 0..MaxTarget /\ p \in 0..MaxTarget /\ NoRun \in Run
    BY Values, FeedAssumption DEF Target
  <2>2. run' \in Run
    BY <1>1, <2>1 DEF Run, Unfinished
  <2> QED
    BY <1>1, <2>2 DEF NoRun
<1>6. op' \in Command /\ op'.cmd = "rebuild"
  BY <1>2, StartedType DEF Idle
<1>7. TypeOK' /\ Committed' = Committed
  BY <1>2, <1>4, <1>5, <1>6 DEF TypeOK, FeedTypeOK, canonVars, rowVars, Committed
<1>8. \A s \in Committed : s <= s0
  BY <1>1 DEF IsWatermark
<1>9. DrawInv'
  <2>1. s0 <= drawn
    BY <1>1, FeedAssumption DEF IsWatermark, RowInv, TypeOK, FeedTypeOK
  <2>2. \A n \in Notification : open'[n] = 0
    BY <1>2 DEF canonVars, WritersDrained
  <2>3. \A u \in Target : target'[u].from <= drawn'
    BY <1>2, <1>3, <1>4, <2>1 DEF canonVars, DrawInv
  <2> QED
    BY <2>2, <2>3 DEF DrawInv
<1>10. \A s \in Committed, u \in Target : Owed(u, s)' => Owed(u, s)
  <2>1. \A s \in Committed : s \in Nat /\ ~(s > s0)
    BY <1>8, FeedAssumption DEF Committed, Seqs
  <2> QED
    BY <1>3, <1>4, <2>1 DEF Owed, Fed, Eligible
<1>11. OpInv'
  BY <1>2, <1>5, <1>7, StartedOp
<1>12. RunInv'
  <2>1. \A u \in Target : target[u].status # "building"
    BY <1>2 DEF RunInv
  <2> QED
    BY <1>3, <1>4, <1>5, <2>1 DEF RunInv, Unfinished
<1>13. PrimaryInv'
  <2>1. alias \in Target /\ alias # t /\ target[alias].status # "building"
    BY <1>2 DEF TypeOK, FeedTypeOK, PrimaryInv, Unfinished
  <2>2. {u \in Target : target'[u].status = "primary"} = {u \in Target : target[u].status = "primary"}
    BY <1>2, <1>3, <1>4
  <2>3. target'[alias] = target[alias] /\ alias' = alias
    BY <1>2, <1>4, <2>1
  <2> QED
    BY <2>1, <2>2, <2>3 DEF PrimaryInv
<1>14. ~Checking
  BY <1>2 DEF Checking, Idle
<1>15. \A u \in Target : Trusted(u)' => Trusted(u) /\ target'[u].from = target[u].from
  BY <1>3, <1>4, <1>5, <1>6 DEF Trusted
<1> QED
  BY <1>2, <1>7, <1>9, <1>10, <1>11, <1>12, <1>13, <1>14, <1>15, SeenInIndex, TargetsPreserve

\* The run of a promotion that commits replaces the only primary there is.
LEMMA CommitPromotionPreserves == ASSUME Inv, CommitPromotion PROVE Inv'
<1> USE DEF Inv, ProjectionInv
<1> DEFINE a == run.source
           b == run.to
<1>1. /\ op.pc = "commit" /\ op.cmd = "promote" /\ Ends /\ fence' = "free"
      /\ UNCHANGED <<canonVars, rowVars, index, alias, handler, trouble, replayed>>
  BY DEF CommitPromotion
<1>2. CASE UNCHANGED <<target, run>>
  <2>1. fence' \in {"free", "promote", "rollback"} /\ trouble' \in 0..MaxWork
    BY <1>1 DEF TypeOK, FeedTypeOK
  <2> QED
    BY <1>1, <1>2, <2>1, EndsPreserves
<1>3. ASSUME target[b].status = "building", OnlyPrimary({a, b}),
             target' = [target EXCEPT
                    ![a] = IF @.status = "primary"
                           THEN [@ EXCEPT !.status = "rollback", !.window = TRUE, !.checked = TRUE]
                           ELSE @,
                    ![b].status = "primary"],
             run' = [run EXCEPT !.status = "completed"]
      PROVE  Inv'
  <2> DEFINE ra == [target[a] EXCEPT !.status = "rollback", !.window = TRUE, !.checked = TRUE]
             rb == [target[b] EXCEPT !.status = "primary"]
  <2>1. run.status = "cutting_over" /\ b \in Target /\ alias = b
    BY <1>1 DEF OpInv, RunInv, Unfinished
  <2>2. PICK p \in Target : {t \in Target : target[t].status = "primary"} = {p}
    BY DEF PrimaryInv
  <2>3. a \in Target /\ a = p /\ a # b /\ target[a].status = "primary"
        /\ \A u \in Target : target[u].status = "primary" => u = a
    BY <1>3, <2>1, <2>2 DEF OnlyPrimary
  <2>4. target \in [Target -> TargetRow] /\ target[a] \in TargetRow /\ target[b] \in TargetRow
    BY <2>1, <2>3 DEF TypeOK, FeedTypeOK
  <2>5. /\ ra \in TargetRow /\ ra.status = "rollback" /\ ra.window = TRUE /\ ra.from = target[a].from
        /\ rb \in TargetRow /\ rb.status = "primary" /\ rb.from = target[b].from
    BY <2>4 DEF TargetRow
  <2>6. target' = [target EXCEPT ![a] = ra, ![b] = rb]
    <3>1. target' = [target EXCEPT ![a] = ra, ![b].status = "primary"]
      BY <1>3, <2>3
    <3> QED
      BY <2>1, <2>3, <2>4, <3>1
  <2>7. /\ target' \in [Target -> TargetRow] /\ target'[a] = ra /\ target'[b] = rb
        /\ \A u \in Target : u # a /\ u # b => target'[u] = target[u]
    <3> HIDE DEF ra, rb
    <3> QED
      BY <2>1, <2>3, <2>4, <2>5, <2>6
  <2> HIDE DEF ra, rb
  <2>8. run \in Run
    BY DEF TypeOK
  <2>9. run' \in Run /\ run'.status = "completed"
    BY <1>3, <2>8 DEF Run
  <2>10. TypeOK' /\ Committed' = Committed
    BY <1>1, <2>7, <2>9, Values DEF TypeOK, FeedTypeOK, canonVars, rowVars, Ends, Committed
  <2>11. \A u \in Target : target'[u].from = target[u].from
    BY <2>5, <2>7
  <2>12. DrawInv' /\ OpInv'
    BY <1>1, <2>10, <2>11, DrawFrame, EndedOp DEF canonVars
  <2>13. RunInv'
    BY <2>5, <2>7, <2>9 DEF RunInv, Unfinished
  <2>14. PrimaryInv'
    <3>1. {u \in Target : target'[u].status = "primary"} = {b}
      BY <2>1, <2>3, <2>5, <2>7
    <3>2. alias' = b /\ target'[b].status = "primary"
      BY <1>1, <2>1, <2>5, <2>7
    <3> QED
      BY <2>1, <3>1, <3>2 DEF PrimaryInv
  <2>15. \A s \in Committed, u \in Target : Owed(u, s)' => Owed(u, s)
    BY <1>3, <2>1, <2>3, <2>7, <2>11 DEF Owed, Fed, Eligible
  <2>16. ~Checking
    BY <1>1 DEF Checking
  <2>17. \A u \in Target : Trusted(u)' => Trusted(u) /\ target'[u].from = target[u].from
    <3>1. op'.cmd = "none"
      BY <1>1 DEF Ends, Idle
    <3> QED
      BY <2>1, <2>3, <2>7, <2>9, <2>11, <3>1 DEF Trusted
  <2> QED
    BY <1>1, <2>10, <2>12, <2>13, <2>14, <2>15, <2>16, <2>17, SeenInIndex, TargetsPreserve
<1> QED
  BY <1>2, <1>3 DEF CommitPromotion

LEMMA CommitRollbackPreserves == ASSUME Inv, CommitRollback PROVE Inv'
<1> USE DEF Inv, ProjectionInv
<1> DEFINE a == op.from
           b == op.to
           ra == [target[a] EXCEPT !.status = "rollback", !.window = target[b].window]
           rb == [target[b] EXCEPT !.status = "primary", !.window = FALSE]
<1>1. /\ op.pc = "commit" /\ op.cmd = "rollback" /\ Ends /\ fence' = "free"
      /\ target' = [target EXCEPT ![a] = ra, ![b] = rb]
      /\ UNCHANGED <<canonVars, rowVars, index, alias, handler, trouble, run, replayed>>
  BY DEF CommitRollback
<1>2. /\ a \in Target /\ b \in Target /\ alias = b /\ target[a].status = "primary"
      /\ target[b].status = "rollback" /\ target[b].window \in BOOLEAN /\ a # b
      /\ Incomplete(b, target[b].from, MaxWork) = {}
  BY <1>1 DEF OpInv, HoldsFence, TypeOK, FeedTypeOK, TargetRow
<1>3. \A u \in Target : target[u].status = "primary" => u = a
  BY <1>2 DEF PrimaryInv
<1>4. target \in [Target -> TargetRow] /\ target[a] \in TargetRow /\ target[b] \in TargetRow
  BY <1>2 DEF TypeOK, FeedTypeOK
<1>5. /\ ra \in TargetRow /\ ra.status = "rollback" /\ ra.from = target[a].from
      /\ rb \in TargetRow /\ rb.status = "primary" /\ rb.from = target[b].from
  BY <1>2, <1>4 DEF TargetRow
<1>6. /\ target' \in [Target -> TargetRow] /\ target'[a] = ra /\ target'[b] = rb
      /\ \A u \in Target : u # a /\ u # b => target'[u] = target[u]
  <2> HIDE DEF ra, rb
  <2> QED
    BY <1>1, <1>2, <1>4, <1>5
<1> HIDE DEF ra, rb
<1>7. TypeOK' /\ Committed' = Committed
  BY <1>1, <1>6, Values DEF TypeOK, FeedTypeOK, canonVars, rowVars, Ends, Committed
<1>8. \A u \in Target : target'[u].from = target[u].from
  BY <1>5, <1>6
<1>9. DrawInv' /\ OpInv'
  BY <1>1, <1>7, <1>8, DrawFrame, EndedOp DEF canonVars
<1>10. \A u \in Target : target'[u].status = "building" <=> target[u].status = "building"
  BY <1>2, <1>5, <1>6
<1>11. RunInv'
  BY <1>1, <1>8, <1>10 DEF RunInv
<1>12. PrimaryInv'
  <2>1. {u \in Target : target'[u].status = "primary"} = {b}
    BY <1>2, <1>3, <1>5, <1>6
  <2>2. alias' = b /\ target'[b].status = "primary"
    BY <1>1, <1>2, <1>5, <1>6
  <2> QED
    BY <1>2, <2>1, <2>2 DEF PrimaryInv
<1>13. \A s \in Committed, u \in Target :
           Owed(u, s)' => Owed(u, s) \/ delivery[s][u].status = "processed"
  <2>1. \A s \in Committed : target[b].from < s => delivery[s][b].status = "processed"
    <3>1. target[b].from \in Nat
      BY <1>4 DEF TargetRow
    <3> QED
      BY <1>2, <3>1, FeedAssumption DEF Incomplete, Committed, Seqs
  <2>2. \A s \in Committed, u \in Target : u # b /\ Owed(u, s)' => Owed(u, s)
    BY <1>2, <1>6, <1>8 DEF Owed, Fed, Eligible
  <2>3. \A s \in Committed, u \in Target : u = b /\ Owed(u, s)' => target[u].from < s
    <3>1. \A s \in Committed, u \in Target : s \in Nat /\ target[u].from \in Nat
      BY <1>4, FeedAssumption DEF Committed, Seqs, TargetRow
    <3> QED
      BY <1>8, <3>1 DEF Owed
  <2> QED
    BY <2>1, <2>2, <2>3
<1>14. ~Checking
  BY <1>1 DEF Checking
<1>15. \A u \in Target : Trusted(u)' => Trusted(u) /\ target'[u].from = target[u].from
  <2>1. op'.cmd = "none"
    BY <1>1 DEF Ends, Idle
  <2> QED
    BY <1>1, <1>2, <1>6, <1>8, <2>1 DEF Trusted
<1> QED
  BY <1>1, <1>7, <1>9, <1>11, <1>12, <1>13, <1>14, <1>15, SeenInIndex, TargetsPreserve

\* A former primary leaves the window, or the set of targets.
LEMMA LeavesPreserve ==
    ASSUME Inv, NEW t \in Target, CloseWindow(t) \/ Retire(t)
    PROVE  Inv'
<1> USE DEF Inv, ProjectionInv
<1>1. /\ target[t].status = "rollback"
      /\ UNCHANGED <<canonVars, rowVars, index, alias, fence, handler, trouble, run, op, replayed>>
  BY DEF CloseWindow, Retire, Eligible
<1>2. op.cmd = "rollback" /\ op.pc = "commit" => CloseWindow(t) /\ op.from # t
  BY <1>1 DEF OpInv, HoldsFence, Retire
<1>3. PICK row \in TargetRow : /\ target' = [target EXCEPT ![t] = row] /\ row.from = target[t].from
                               /\ row.status \in {"rollback", "retired"} /\ ~(row.status = "rollback" /\ row.window)
                               /\ CloseWindow(t) => row.status = "rollback"
  <2>1. target[t] \in TargetRow
    BY DEF TypeOK, FeedTypeOK
  <2>2. CASE CloseWindow(t)
    <3> DEFINE row == [target[t] EXCEPT !.window = FALSE]
    <3>1. row \in TargetRow /\ row.from = target[t].from /\ row.status = "rollback" /\ row.window = FALSE
      BY <1>1, <2>1 DEF TargetRow
    <3> QED
      BY <2>2, <3>1 DEF CloseWindow
  <2>3. CASE Retire(t)
    <3> DEFINE row == [target[t] EXCEPT !.status = "retired"]
    <3>1. row \in TargetRow /\ row.from = target[t].from /\ row.status = "retired"
      BY <1>1, <2>1 DEF TargetRow
    <3>2. ~CloseWindow(t)
      BY <2>3 DEF Retire, CloseWindow, Eligible
    <3> QED
      BY <2>3, <3>1, <3>2 DEF Retire
  <2> QED
    BY <2>2, <2>3
<1>4. /\ target' \in [Target -> TargetRow] /\ target'[t] = row
      /\ \A u \in Target : u # t => target'[u] = target[u]
  BY <1>3 DEF TypeOK, FeedTypeOK
<1>5. TypeOK' /\ Committed' = Committed /\ \A u \in Target : target'[u].from = target[u].from
  BY <1>1, <1>3, <1>4 DEF TypeOK, FeedTypeOK, canonVars, rowVars, Committed
<1>6. DrawInv'
  BY <1>1, <1>5, DrawFrame DEF canonVars
<1>7. OpInv'
  <2>1. op.cmd = "rollback" =>
          /\ op.from \in Target /\ op.to \in Target
          /\ op.pc \in {"begin", "swap", "commit"}
          /\ op.pc = "commit" =>
                /\ alias' = op.to /\ HoldsFence'
                /\ target'[op.to].status = "rollback" /\ target'[op.from].status = "primary"
    <3>1. HoldsFence /\ op.to \in Target => HoldsFence'
      BY <1>1, <1>5 DEF HoldsFence, WritersDrained, Incomplete, canonVars, rowVars
    <3> QED
      BY <1>1, <1>2, <1>3, <1>4, <3>1 DEF OpInv
  <2> QED
    BY <1>1, <2>1 DEF OpInv, canonVars
<1>8. \A u \in Target : target'[u].status = "building" <=> target[u].status = "building"
  BY <1>1, <1>3, <1>4
<1>9. RunInv'
  BY <1>1, <1>5, <1>8 DEF RunInv
<1>10. PrimaryInv'
  <2>1. {u \in Target : target'[u].status = "primary"} = {u \in Target : target[u].status = "primary"}
    BY <1>1, <1>3, <1>4
  <2>2. alias \in Target /\ alias' = alias /\ target'[alias].status # "absent"
    BY <1>1, <1>3, <1>4 DEF TypeOK, FeedTypeOK, PrimaryInv
  <2> QED
    BY <1>1, <1>8, <2>1, <2>2 DEF PrimaryInv
<1>11. \A s \in Committed, u \in Target : Owed(u, s)' => Owed(u, s)
  BY <1>3, <1>4, <1>5 DEF Owed, Fed, Eligible
<1>12. \A u \in Target : Trusted(u)' => Trusted(u) /\ target'[u].from = target[u].from
  BY <1>1, <1>4, <1>5 DEF Trusted
<1>13. \A u \in Target, n \in Notification, r \in Nat : Seen(u, n, r) => Seen(u, n, r)'
  BY <1>1, KnownFrame DEF Seen, Checking, canonVars
<1> QED
  BY <1>1, <1>5, <1>6, <1>7, <1>9, <1>10, <1>11, <1>12, <1>13, TargetsPreserve

-----------------------------------------------------------------------------
(* The invariant *)

LEMMA InitInv == Init => Inv
<1> SUFFICES ASSUME Init PROVE Inv
  OBVIOUS
<1>1. TypeOK
  BY InitType
<1>2. /\ Committed = {} /\ op = Idle /\ run = NoRun /\ alias = 1 /\ 1 \in Target
      /\ \A s \in Seqs, t \in Target : outbox[s].status = "none" /\ delivery[s][t].status = "none"
      /\ \A n \in Notification : canon[n].rev = 0 /\ open[n] = 0
      /\ \A t \in Target : target[t].from = 0 /\ (target[t].status = IF t = 1 THEN "primary" ELSE "absent")
      /\ \A t \in Target, n \in Notification : index[t][n] = 0
      /\ \A w \in Handler : handler[w].pc = "free"
  BY FeedAssumption DEF Init, FeedInit, Committed, NoRow, NoDelivery, NoTarget, Free, Target
<1>3. drawn = 0 /\ RowInv /\ DrawInv
  BY <1>2 DEF Init, FeedInit, RowInv, DrawInv
<1>4. HandlerInv
  BY <1>2 DEF HandlerInv, OnCourse
<1>5. OpInv /\ RunInv
  BY <1>2 DEF OpInv, RunInv, Idle, NoRun, NoDocs, Unfinished
<1>6. NothingLost /\ IndexNeverAhead /\ ProcessedEverywhere
  BY <1>2 DEF NothingLost, IndexNeverAhead, ProcessedEverywhere
<1>7. PrimaryInv
  BY <1>2 DEF PrimaryInv
<1> QED
  BY <1>1, <1>3, <1>4, <1>5, <1>6, <1>7 DEF Inv, ProjectionInv

LEMMA StutterPreserves == ASSUME Inv, UNCHANGED vars PROVE Inv'
<1>1. outbox' \in [Seqs -> Row] /\ replayed' \in SUBSET Seqs
  BY DEF vars, feedVars, Inv, TypeOK, FeedTypeOK
<1> QED
  BY <1>1, RowsPreserve DEF vars, feedVars, canonVars, Alike, NoneProcessed

LEMMA FeedPreserves ==
    ASSUME Inv, FeedNext, UNCHANGED <<run, op, replayed>>
    PROVE  Inv'
  BY BeginChangePreserves, CommitChangePreserves, WorkerPreserves DEF FeedNext, WorkerNext

LEMMA CommandPreserves == ASSUME Inv, CommandStep PROVE Inv'
<1>1. CASE RebuildStep
  BY <1>1, ReadBatchPreserves, WriteBatchPreserves, RecordBackfillBatchPreserves,
     CompleteBackfillPreserves, CaptureS1Preserves, CatchUpPreserves DEF RebuildStep
<1>2. CASE ReconcileStep
  BY <1>2, ReadLivePreserves, ReadGonePreserves, ScanPreserves, RepairPreserves,
     RecordReconciliationPreserves DEF ReconcileStep
<1>3. CASE PromoteStep
  BY <1>3, BeginCutoverPreserves, PromoteAliasPreserves, CommitPromotionPreserves DEF PromoteStep
<1>4. CASE RollbackStep
  BY <1>4, BeginRollbackPreserves, RollbackAliasPreserves, CommitRollbackPreserves DEF RollbackStep
<1> QED
  BY <1>1, <1>2, <1>3, <1>4 DEF CommandStep

LEMMA NextPreserves == Inv /\ [Next]_vars => Inv'
<1> SUFFICES ASSUME Inv, [Next]_vars PROVE Inv'
  OBVIOUS
<1> QED
  BY StutterPreserves, FeedPreserves, CommandPreserves, ResumeRebuildPreserves,
     StartPromotionPreserves, InitializePreserves, PlanRollbackPreserves, LeavesPreserve,
     DeadLettersPreserve, CrashOperatorPreserves
     DEF Next

LEMMA SpecInv == Spec => []Inv
<1> QED
  BY InitInv, NextPreserves, PTL DEF Spec

\* Every value the feed and its operator keep has its type.
THEOREM TypeCorrect == Spec => []TypeOK
<1>1. Inv => TypeOK
  BY DEF Inv
<1> QED
  BY <1>1, SpecInv, PTL

\* The rows, the handlers, the command, its run and the targets fit together at any
\* moment, in particular nothing a trusted index was given is missing from it.
THEOREM Invariance == Spec => []ProjectionInv
<1>1. Inv => ProjectionInv
  BY DEF Inv
<1> QED
  BY <1>1, SpecInv, PTL

\* No index is ahead of the canonical rows, however late, often or out of order the
\* workers, a backfill and a repair write into it.
THEOREM NeverAhead == Spec => []IndexNeverAhead
<1>1. Inv => IndexNeverAhead
  BY DEF Inv, ProjectionInv
<1> QED
  BY <1>1, SpecInv, PTL

\* A processed job has been delivered to every target that is owed it, those included
\* that a rebuild, a promotion or a rollback made so while it was handled.
THEOREM DeliveredEverywhere == Spec => []ProcessedEverywhere
<1>1. Inv => ProcessedEverywhere
  BY DEF Inv, ProjectionInv
<1> QED
  BY <1>1, SpecInv, PTL

-----------------------------------------------------------------------------
(* Where the aliases are *)

\* What AliasIsFed asks of a step.
KeepsFed == Fed(alias)' \/ CloseWindow(alias) \/ (~Fed(alias) /\ alias' = alias)

LEMMA SameTargetsKeepFed == ASSUME Inv, SameTargets, alias' = alias PROVE KeepsFed
<1>1. alias \in Target
  BY DEF Inv, TypeOK, FeedTypeOK
<1> QED
  BY <1>1 DEF KeepsFed, Fed, Eligible, SameTargets

LEMMA FeedKeepsFed == ASSUME Inv, FeedNext, UNCHANGED <<run, op, replayed>> PROVE KeepsFed
<1>1. ASSUME NEW n \in Notification, BeginChange(n) \/ CommitChange(n) PROVE SameTargets /\ alias' = alias
  BY <1>1 DEF BeginChange, CommitChange, SameTargets
<1>2. ASSUME WorkerNext PROVE SameTargets /\ alias' = alias
  BY <1>2, WorkerStep DEF WorkerFrame, SameTargets
<1> QED
  BY <1>1, <1>2, SameTargetsKeepFed DEF FeedNext, WorkerNext

\* A promotion moves the aliases to the target it builds, a rollback to one in its window.
LEMMA SwapKeepsFed ==
    ASSUME Inv, NEW to \in Target, SwapAlias(to), target[to].status = "building" \/ Eligible(to)
    PROVE  KeepsFed
  BY DEF SwapAlias, KeepsFed, Fed, Eligible

\* The commit makes the target the aliases are on the primary one.
LEMMA CommitKeepsFed == ASSUME Inv, CommitPromotion \/ CommitRollback PROVE KeepsFed
<1> USE DEF Inv, ProjectionInv
<1>1. target \in [Target -> TargetRow] /\ \A t \in Target : target[t] \in TargetRow
  BY DEF TypeOK, FeedTypeOK
<1>2. CASE CommitPromotion
  <2>1. alias = run.to /\ alias' = alias /\ run.to \in Target /\ target[run.to].status = "building"
    BY <1>2 DEF CommitPromotion, OpInv, RunInv, Unfinished
  <2>2. target'[run.to].status \in {"building", "primary"}
    <3>1. CASE UNCHANGED target
      BY <2>1, <3>1
    <3>2. ASSUME target' = [target EXCEPT
                    ![run.source] = IF @.status = "primary"
                                    THEN [@ EXCEPT !.status = "rollback", !.window = TRUE, !.checked = TRUE]
                                    ELSE @,
                    ![run.to].status = "primary"]
          PROVE  target'[run.to].status = "primary"
      <4> DEFINE row == IF target[run.source].status = "primary"
                        THEN [target[run.source] EXCEPT !.status = "rollback", !.window = TRUE, !.checked = TRUE]
                        ELSE target[run.source]
                 middle == [target EXCEPT ![run.source] = row]
      <4>1. target' = [middle EXCEPT ![run.to] = [middle[run.to] EXCEPT !.status = "primary"]]
        BY <3>2
      <4>2. run.to \in DOMAIN middle
        BY <1>1, <2>1
      <4>3. middle[run.to] \in TargetRow
        <5>1. run.source = run.to => row = target[run.to]
          BY <2>1
        <5> QED
          BY <1>1, <2>1, <5>1
      <4> HIDE DEF middle
      <4> QED
        BY <4>1, <4>2, <4>3 DEF TargetRow
    <3> QED
      BY <1>2, <3>1, <3>2 DEF CommitPromotion
  <2> QED
    BY <2>1, <2>2 DEF KeepsFed, Fed
<1>3. CASE CommitRollback
  <2>1. /\ op.from \in Target /\ op.to \in Target /\ alias = op.to /\ alias' = alias
        /\ target[op.to].status = "rollback" /\ target[op.from].status = "primary"
    BY <1>3 DEF CommitRollback, OpInv
  <2>2. target'[op.to].status = "primary"
    BY <1>1, <1>3, <2>1 DEF CommitRollback, TargetRow
  <2> QED
    BY <2>1, <2>2 DEF KeepsFed, Fed
<1> QED
  BY <1>2, <1>3

LEMMA CommandKeepsFed == ASSUME Inv, CommandStep PROVE KeepsFed
<1> USE DEF Inv, ProjectionInv
<1>1. CASE UNCHANGED <<target, alias>>
  BY <1>1, SameTargetsKeepFed DEF SameTargets
<1>2. CASE CompleteBackfill \/ RecordReconciliation
  <2>1. target \in [Target -> TargetRow] /\ alias' = alias
    BY <1>2 DEF TypeOK, FeedTypeOK, CompleteBackfill, RecordReconciliation
  <2>2. SameTargets
    BY <1>2, <2>1 DEF CompleteBackfill, RecordReconciliation, SameTargets, TargetRow
  <2> QED
    BY <2>1, <2>2, SameTargetsKeepFed
<1>3. CASE PromoteAlias
  <2>1. run.to \in Target /\ target[run.to].status = "building"
    BY <1>3 DEF PromoteAlias, OpInv, RunInv, Unfinished
  <2> QED
    BY <1>1, <1>3, <2>1, SwapKeepsFed DEF PromoteAlias, Refuse, feedVars
<1>4. CASE RollbackAlias
  <2>1. op.to \in Target
    BY <1>4 DEF RollbackAlias, OpInv
  <2> QED
    BY <1>1, <1>4, <2>1, SwapKeepsFed DEF RollbackAlias, Refuse, feedVars
<1>5. CASE CommitPromotion \/ CommitRollback
  BY <1>5, CommitKeepsFed
<1>6. CASE \/ ReadBatch \/ WriteBatch \/ RecordBackfillBatch \/ CaptureS1 \/ CatchUp
           \/ ReadLive \/ ReadGone \/ Scan \/ Repair \/ BeginCutover \/ BeginRollback
  BY <1>1, <1>6 DEF ReadBatch, WriteBatch, RecordBackfillBatch, CaptureS1, CatchUp, ReadLive,
     ReadGone, Scan, Repair, BeginCutover, BeginRollback, feedVars
<1> QED
  BY <1>2, <1>3, <1>4, <1>5, <1>6
     DEF CommandStep, RebuildStep, ReconcileStep, PromoteStep, RollbackStep

\* Registering, closing or retiring another target leaves that of the aliases alone; it
\* is itself retired only after its window.
LEMMA TargetKeepsFed ==
    ASSUME Inv, NEW t \in Target, Initialize(t) \/ CloseWindow(t) \/ Retire(t)
    PROVE  KeepsFed
<1>1. target \in [Target -> TargetRow] /\ alias \in Target /\ alias' = alias
  BY DEF Inv, TypeOK, FeedTypeOK, Initialize, CloseWindow, Retire
<1>2. CASE t # alias
  <2>1. target'[alias] = target[alias]
    BY <1>1, <1>2 DEF Initialize, CloseWindow, Retire
  <2> QED
    BY <1>1, <2>1 DEF KeepsFed, Fed, Eligible
<1>3. CASE t = alias
  BY <1>1, <1>3 DEF Inv, ProjectionInv, PrimaryInv, Initialize, Retire, KeepsFed, Fed, Eligible
<1> QED
  BY <1>2, <1>3

\* Promotions and rollbacks, with their crashes between the alias request and the commit,
\* move the aliases to fed indices only, and nothing but the end of a rollback window
\* makes the one they are on cease to be fed.
THEOREM AliasFed == Spec => AliasIsFed
<1>1. Inv /\ [Next]_vars => [Fed(alias)' \/ CloseWindow(alias) \/ (~Fed(alias) /\ alias' = alias)]_vars
  <2> SUFFICES ASSUME Inv, [Next]_vars PROVE KeepsFed
    BY DEF KeepsFed
  <2>1. ASSUME UNCHANGED <<target, alias>> PROVE KeepsFed
    BY <2>1, SameTargetsKeepFed DEF SameTargets
  <2>2. CASE \/ UNCHANGED vars \/ ResumeRebuild \/ StartPromotion \/ CrashOperator
             \/ \E t \in Target, p \in Target : PlanRollback(p, t)
             \/ \E s \in Seqs : Replay(s) \/ Discard(s)
    BY <2>1, <2>2 DEF vars, feedVars, ResumeRebuild, StartPromotion, CrashOperator, PlanRollback,
       Replay, Discard
  <2> QED
    BY <2>2, FeedKeepsFed, CommandKeepsFed, TargetKeepsFed DEF Next
<1> QED
  BY <1>1, SpecInv, PTL DEF Spec, AliasIsFed

-----------------------------------------------------------------------------
(* The index readers use *)

\* While it is fed, it is a target that has been checked.
LEMMA AliasTrusted ==
    ASSUME Inv, Fed(alias)
    PROVE  alias \in Target /\ Trusted(alias) /\ ~(alias = run.to /\ Checking)
<1>1. alias \in Target
  BY DEF Inv, TypeOK, FeedTypeOK
<1>2. Trusted(alias)
  BY <1>1 DEF Inv, ProjectionInv, PrimaryInv, Fed, Trusted, Eligible
<1>3. ~(alias = run.to /\ Checking)
  BY <1>1, Reconciling DEF Checking, Inv, ProjectionInv, PrimaryInv
<1> QED
  BY <1>1, <1>2, <1>3

LEMMA Visible == Inv => ProcessedIsVisible
<1> SUFFICES ASSUME Inv, Fed(alias), NEW s \in Seqs, outbox[s].status = "processed"
             PROVE  outbox[s].rev <= index[alias][outbox[s].note]
  BY DEF ProcessedIsVisible
<1>1. s \in Committed /\ s \in Nat
  BY DEF Committed, Seqs
<1>2. alias \in Target /\ Trusted(alias) /\ ~(alias = run.to /\ Checking)
  BY AliasTrusted
<1>3. target[alias].from \in Nat
  BY <1>2 DEF Inv, TypeOK, FeedTypeOK, TargetRow
<1>4. s > target[alias].from => Owed(alias, s)
  BY DEF Owed, Inv
<1>5. s <= target[alias].from \/ delivery[s][alias].status = "processed"
  BY <1>1, <1>2, <1>3, <1>4 DEF Inv, ProjectionInv, ProcessedEverywhere
<1>6. Seen(alias, outbox[s].note, outbox[s].rev)
  BY <1>1, <1>2, <1>5 DEF Inv, ProjectionInv, NothingLost
<1> QED
  BY <1>2, <1>6 DEF Seen

\* What counts as processed is what readers of the aliases find.
THEOREM ProcessedVisible == Spec => []ProcessedIsVisible
<1> QED
  BY Visible, SpecInv, PTL

-----------------------------------------------------------------------------
(* The feed follows the canonical store *)

\* Committed revisions, as the reader's promise sees them.
Revisions == [n \in Notification |-> canon[n].rev]

\* An index that has nothing incomplete when the operator holds the fence has every
\* newest revision.
LEMMA NothingMissing ==
    ASSUME Inv, NEW to \in Target, Trusted(to), ~Checking, Incomplete(to, target[to].from, MaxWork) = {}
    PROVE  index[to] = Revisions
<1>1. index[to] \in [Notification -> Nat] /\ target[to].from \in Nat
      /\ \A n \in Notification : canon[n].rev \in Nat
  BY DEF Inv, TypeOK, FeedTypeOK, TargetRow
<1>2. \A s \in Committed : s \in Nat /\ s <= MaxWork
  BY FeedAssumption DEF Committed, Seqs
<1>3. \A s \in Committed : s <= target[to].from \/ delivery[s][to].status = "processed"
  BY <1>1, <1>2 DEF Incomplete
<1>4. \A s \in Committed : outbox[s].rev <= index[to][outbox[s].note]
  BY <1>3 DEF Inv, ProjectionInv, NothingLost, Seen
<1>5. \A n \in Notification : canon[n].rev <= index[to][n]
  <2> SUFFICES ASSUME NEW n \in Notification PROVE canon[n].rev <= index[to][n]
    OBVIOUS
  <2>1. CASE canon[n].rev = 0
    BY <1>1, <2>1
  <2>2. CASE canon[n].rev > 0
    BY <1>4, <2>2 DEF Inv, ProjectionInv, RowInv
  <2> QED
    BY <1>1, <2>1, <2>2
<1>6. \A n \in Notification : index[to][n] = canon[n].rev
  BY <1>1, <1>5 DEF Inv, ProjectionInv, IndexNeverAhead
<1> QED
  BY <1>1, <1>6 DEF Revisions

Unseen == UNCHANGED <<Revisions, index[alias]>>

LEMMA QuietIsUnseen == ASSUME UNCHANGED <<canon, index, alias>> PROVE Unseen
  BY DEF Unseen, Revisions

LEMMA ChangeSeen ==
    ASSUME Inv, UNCHANGED <<run, op, replayed>>, NEW n \in Notification, CommitChange(n)
    PROVE  Followed!Change(n)
<1>1. CommitFacts(n)
  BY CommitChangeFacts
<1>2. UNCHANGED index[alias]
  BY <1>1 DEF CommitFacts
<1>3. \A m \in Notification : canon'[m].rev = IF m = n THEN canon[m].rev + 1 ELSE canon[m].rev
  BY <1>1 DEF CommitFacts
<1>4. Revisions' = [Revisions EXCEPT ![n] = @ + 1]
  BY <1>3 DEF Revisions
<1> QED
  BY <1>2, <1>4 DEF Followed!Change, Revisions

\* Only a write into the index behind the aliases is seen, and only if it is newer.
LEMMA ProjectSeen ==
    ASSUME Inv, Inv', NEW w \in Handler, Project(w)
    PROVE  Unseen \/ \E n \in Notification : Followed!Show(n)
<1> DEFINE t == handler[w].at
           n == outbox[handler[w].job].note
           r == handler[w].rev
<1>1. OnCourse(w) /\ handler[w].pc = "project"
  BY DEF Inv, ProjectionInv, HandlerInv, Project
<1>2. t \in Target /\ n \in Notification /\ r \in Nat
  <2>1. handler[w] \in Work
    BY DEF Inv, TypeOK, FeedTypeOK
  <2> QED
    BY <1>1, <2>1 DEF OnCourse, Work, Inv, ProjectionInv, RowInv
<1>3. /\ index' = [index EXCEPT ![t][n] = Larger(index[t][n], r)]
      /\ UNCHANGED <<canon, alias>>
  BY DEF Project, canonVars
<1>4. index \in [Target -> [Notification -> Nat]] /\ alias \in Target
  BY DEF Inv, TypeOK, FeedTypeOK
<1>5. UNCHANGED Revisions
  BY <1>3 DEF Revisions
<1> HIDE DEF t, n, r
<1>6. CASE alias # t \/ r <= index[t][n]
  <2>1. index'[alias] = index[alias]
    BY <1>2, <1>3, <1>4, <1>6 DEF Larger
  <2> QED
    BY <1>3, <1>5, <2>1 DEF Unseen
<1>7. CASE alias = t /\ index[t][n] < r
  <2>1. index'[alias'] = [index[alias] EXCEPT ![n] = r]
    BY <1>2, <1>3, <1>4, <1>7 DEF Larger
  <2>2. index'[alias'][n] = r /\ index[alias][n] \in Nat /\ index[alias][n] < r
    BY <1>2, <1>4, <1>7, <2>1
  <2>3. r <= Revisions[n] /\ Revisions[n] \in Nat
    <3>1. index'[alias'][n] <= canon'[n].rev
      BY <1>2, <1>3, <1>4 DEF Inv, ProjectionInv, IndexNeverAhead
    <3>2. canon[n].rev \in Nat
      BY <1>2 DEF Inv, TypeOK, FeedTypeOK
    <3> QED
      BY <1>2, <1>3, <2>2, <3>1, <3>2 DEF Revisions
  <2>4. r \in (index[alias][n] + 1)..Revisions[n]
    BY <1>2, <2>2, <2>3
  <2>5. Followed!Show(n)
    BY <1>5, <2>1, <2>2, <2>4 DEF Followed!Show, Revisions
  <2> QED
    BY <1>2, <2>5
<1> QED
  BY <1>2, <1>4, <1>6, <1>7

LEMMA QuietFeed ==
    ASSUME NEW w \in Handler,
           \/ \E s \in Seqs : Claim(w, s)
           \/ Load(w) \/ Prepare(w) \/ LeaseDelivery(w) \/ AcknowledgeDelivery(w) \/ SettleJob(w)
           \/ \E permanent \in BOOLEAN : Reject(w, permanent)
           \/ Unanswered(w) \/ Deadline(w) \/ LeaseLoss(w) \/ StopAborted(w) \/ CrashHandler(w)
    PROVE  Unseen
<1>1. UNCHANGED <<canon, index, alias>>
  BY DEF Claim, Load, Prepare, LeaseDelivery, AcknowledgeDelivery, SettleJob, Reject, Unanswered,
     Deadline, LeaseLoss, StopAborted, CrashHandler, canonVars
<1> QED
  BY <1>1, QuietIsUnseen

LEMMA FeedSeen ==
    ASSUME Inv, Inv', FeedNext, UNCHANGED <<run, op, replayed>>
    PROVE  Followed!FeedNext \/ Unseen
<1>1. ASSUME NEW n \in Notification, BeginChange(n) PROVE Unseen
  BY <1>1, QuietIsUnseen DEF BeginChange
<1>2. ASSUME NEW n \in Notification, CommitChange(n) PROVE Followed!FeedNext
  BY <1>2, ChangeSeen DEF Followed!FeedNext
<1>3. ASSUME NEW w \in Handler, Project(w) PROVE Followed!FeedNext \/ Unseen
  BY <1>3, ProjectSeen DEF Followed!FeedNext
<1>4. ASSUME NEW s \in Seqs, LapseJob(s) \/ \E t \in Target : LapseDelivery(s, t) PROVE Unseen
  BY <1>4, QuietIsUnseen DEF LapseJob, LapseDelivery, canonVars
<1> QED
  BY <1>1, <1>2, <1>3, <1>4, QuietFeed DEF FeedNext, HandlerStep

\* A rebuild that writes does so into an index nobody reads.
LEMMA BuildingUnseen ==
    ASSUME Inv, op.cmd = "rebuild", op.pc \in {"write", "repair"}, UNCHANGED <<canon, alias>>,
           NEW docs, index' = [index EXCEPT ![run.to] = docs]
    PROVE  Unseen
<1>1. alias \in Target /\ index \in [Target -> [Notification -> Nat]]
  BY DEF Inv, TypeOK, FeedTypeOK
<1>2. target[run.to].status = "building" /\ run.status # "cutting_over"
  BY Reading, Reconciling
<1>3. alias # run.to
  BY <1>2 DEF Inv, ProjectionInv, PrimaryInv
<1>4. index'[alias'] = index[alias]
  BY <1>1, <1>3
<1> QED
  BY <1>4 DEF Unseen, Revisions

LEMMA SwapSeen ==
    ASSUME Inv, NEW to \in Target, SwapAlias(to), op.pc = "swap", Trusted(to),
           Incomplete(to, target[to].from, MaxWork) = {}
    PROVE  Followed!FeedNext
<1>1. alias' = to /\ UNCHANGED <<canon, index>>
  BY DEF SwapAlias, canonVars
<1>2. index[to] = Revisions
  BY NothingMissing DEF Checking
<1>3. index'[alias'] = Revisions /\ Revisions' = Revisions
  BY <1>1, <1>2 DEF Revisions
<1> QED
  BY <1>3 DEF Followed!FeedNext, Followed!TakeOver, Revisions

LEMMA CommandSeen ==
    ASSUME Inv, CommandStep
    PROVE  Followed!FeedNext \/ Unseen
<1>1. CASE WriteBatch
  <2> DEFINE docs == [index[run.to] EXCEPT ![op.doc] = Larger(index[run.to][op.doc], op.rev)]
  <2>1. /\ op.pc = "write" /\ UNCHANGED <<canon, alias>>
        /\ index' = [index EXCEPT ![run.to] = docs]
    BY <1>1 DEF WriteBatch, canonVars
  <2>2. op.cmd = "rebuild"
    BY <2>1, Reading
  <2> QED
    BY <2>1, <2>2, BuildingUnseen
<1>2. CASE Repair
  <2>1. op.pc = "repair" /\ UNCHANGED <<canon, alias>>
    BY <1>2 DEF Repair, canonVars
  <2>2. op.cmd = "rebuild"
    BY <2>1 DEF Inv, ProjectionInv, OpInv
  <2> QED
    BY <1>2, <2>1, <2>2, BuildingUnseen DEF Repair
<1>3. CASE PromoteAlias
  <2>1. CASE Refuse
    BY <2>1, QuietIsUnseen DEF Refuse, feedVars
  <2>2. CASE Incomplete(run.to, run.s0, MaxWork) = {} /\ SwapAlias(run.to)
    <3>1. op.pc = "swap" /\ run.status = "cutting_over"
      BY <1>3 DEF PromoteAlias, Inv, ProjectionInv, OpInv
    <3>2. run.to \in Target /\ target[run.to].from = run.s0 /\ Trusted(run.to)
      BY <3>1 DEF Inv, ProjectionInv, RunInv, Unfinished, Trusted
    <3> QED
      BY <2>2, <3>1, <3>2, SwapSeen
  <2> QED
    BY <1>3, <2>1, <2>2 DEF PromoteAlias
<1>4. CASE RollbackAlias
  <2>1. CASE Refuse
    BY <2>1, QuietIsUnseen DEF Refuse, feedVars
  <2>2. CASE Incomplete(op.to, target[op.to].from, MaxWork) = {} /\ Eligible(op.to) /\ SwapAlias(op.to)
    <3>1. op.pc = "swap" /\ op.to \in Target /\ Trusted(op.to)
      BY <1>4, <2>2 DEF RollbackAlias, Inv, ProjectionInv, OpInv, Eligible, Trusted
    <3> QED
      BY <2>2, <3>1, SwapSeen
  <2> QED
    BY <1>4, <2>1, <2>2 DEF RollbackAlias
<1>5. CASE \/ ReadBatch \/ RecordBackfillBatch \/ CompleteBackfill \/ CaptureS1 \/ CatchUp
           \/ ReadLive \/ ReadGone \/ Scan \/ RecordReconciliation
  <2>1. UNCHANGED <<canon, index, alias>>
    BY <1>5 DEF ReadBatch, RecordBackfillBatch, CompleteBackfill, CaptureS1, CatchUp,
       ReadLive, ReadGone, Scan, RecordReconciliation, feedVars, canonVars
  <2> QED
    BY <2>1, QuietIsUnseen
<1>6. CASE BeginCutover \/ CommitPromotion \/ BeginRollback \/ CommitRollback
  <2>1. UNCHANGED <<canon, index, alias>>
    BY <1>6 DEF BeginCutover, CommitPromotion, BeginRollback, CommitRollback, feedVars, canonVars
  <2> QED
    BY <2>1, QuietIsUnseen
<1> QED
  BY <1>1, <1>2, <1>3, <1>4, <1>5, <1>6
     DEF CommandStep, RebuildStep, ReconcileStep, PromoteStep, RollbackStep

LEMMA StepSeen ==
    ASSUME Inv, Inv', [Next]_vars
    PROVE  Followed!FeedNext \/ Unseen
<1>1. CASE UNCHANGED vars \/ ResumeRebuild \/ StartPromotion
  BY <1>1, QuietIsUnseen DEF vars, feedVars, ResumeRebuild, StartPromotion
<1>2. ASSUME NEW t \in Target, \/ Initialize(t) \/ CloseWindow(t) \/ Retire(t)
                               \/ \E p \in Target : PlanRollback(p, t)
      PROVE  Unseen
  BY <1>2, QuietIsUnseen DEF Initialize, CloseWindow, Retire, PlanRollback, feedVars, canonVars
<1>3. ASSUME NEW s \in Seqs, Replay(s) \/ Discard(s) PROVE Unseen
  BY <1>3, QuietIsUnseen DEF Replay, Discard, canonVars
<1>4. CASE CrashOperator
  BY <1>4, QuietIsUnseen DEF CrashOperator, canonVars
<1> QED
  BY <1>1, <1>2, <1>3, <1>4, FeedSeen, CommandSeen DEF Next

\* The feed behind the aliases follows the revisions of the canonical store: the writes
\* of the workers are the deliveries FollowedFeed allows, an alias request of a promotion
\* or a rollback finds nothing missing, and all else is invisible to readers.
THEOREM Implementation == Spec => FollowsFeed
<1>1. Init => Followed!FeedInit
  <2> SUFFICES ASSUME Init PROVE Followed!FeedInit
    OBVIOUS
  <2>1. /\ canon = [n \in Notification |-> [state |-> "none", rev |-> 0]]
        /\ index = [t \in Target |-> [n \in Notification |-> 0]] /\ alias = 1 /\ 1 \in Target
    BY FeedAssumption DEF Init, FeedInit, Target
  <2> QED
    BY <2>1 DEF Followed!FeedInit
<1>2. Inv /\ Inv' /\ [Next]_vars
         => [Followed!FeedNext]_<<[n \in Notification |-> canon[n].rev], index[alias]>>
  BY StepSeen DEF Unseen, Revisions
<1> QED
  BY <1>1, <1>2, SpecInv, PTL DEF Spec, FollowsFeed, Followed!FeedSpec

-----------------------------------------------------------------------------
(* What never comes back *)

\* The statuses a worker moves a row between.
Moved(was, is) ==
    \/ is = was
    \/ was \in {"pending", "leased"} /\ is \in {"pending", "leased", "processed", "dead_letter"}

\* A settlement touches a leased row, or none.
LEMMA SettledMoves ==
    ASSUME TypeOK, NEW w \in Handler, NEW st \in {"pending", "processed", "dead_letter"},
           NEW s \in Seqs
    PROVE  Moved(outbox[s].status, Settled(w, st)[s].status)
<1> DEFINE j == handler[w].job
<1>1. outbox \in [Seqs -> Row]
  BY DEF TypeOK, FeedTypeOK
<1>2. CASE handler[w].owned /\ Held(w)
  <2>1. outbox[j].status = "leased"
    BY <1>2 DEF Held
  <2>2. Settled(w, st) = [outbox EXCEPT ![j] = [@ EXCEPT !.status = st, !.by = None, !.valid = FALSE]]
    BY <1>2 DEF Settled
  <2>3. CASE s = j
    <3>1. outbox[j] \in Row
      BY <1>1, <2>3
    <3>2. Settled(w, st)[s].status = st
      BY <1>1, <2>2, <2>3, <3>1 DEF Row
    <3> QED
      BY <2>1, <2>3, <3>2 DEF Moved
  <2>4. CASE s # j
    BY <1>1, <2>2, <2>4 DEF Moved
  <2> QED
    BY <2>3, <2>4
<1>3. CASE ~(handler[w].owned /\ Held(w))
  BY <1>3 DEF Settled, Moved
<1> QED
  BY <1>2, <1>3

\* The end of a handler, with whatever it settles.
LEMMA EndMoves ==
    ASSUME TypeOK, NEW w \in Handler, NEW st \in {"pending", "processed", "dead_letter"},
           End(w, st), NEW s \in Seqs
    PROVE  Moved(outbox[s].status, outbox'[s].status)
<1>1. Settled(w, st) \in [Seqs -> Row]
  BY SettledRows
<1>2. outbox'[s].status = Settled(w, st)[s].status
  BY <1>1, WithoutRows DEF End
<1> QED
  BY <1>2, SettledMoves

\* Workers move rows that wait or are leased, and no others.
LEMMA WorkerMoves ==
    ASSUME TypeOK, WorkerNext, NEW s \in Seqs
    PROVE  Moved(outbox[s].status, outbox'[s].status)
<1>1. outbox \in [Seqs -> Row] /\ \A j \in Seqs : outbox[j] \in Row
  BY DEF TypeOK, FeedTypeOK
<1>2. ASSUME UNCHANGED outbox PROVE Moved(outbox[s].status, outbox'[s].status)
  BY <1>2 DEF Moved
<1>3. ASSUME NEW w \in Handler, NEW j \in Seqs, Claim(w, j)
      PROVE  Moved(outbox[s].status, outbox'[s].status)
  <2>1. CASE s = j
    <3>1. outbox'[s].status = "leased"
      BY <1>1, <1>3, <2>1 DEF Claim, Row
    <3> QED
      BY <1>3, <2>1, <3>1 DEF Claim, Claimable, Moved
  <2>2. CASE s # j
    BY <1>1, <1>3, <2>2 DEF Claim, Moved
  <2> QED
    BY <2>1, <2>2
<1>4. ASSUME NEW w \in Handler,
             Load(w) \/ Prepare(w) \/ LeaseDelivery(w) \/ Project(w) \/ AcknowledgeDelivery(w)
      PROVE  UNCHANGED outbox
  <2>1. CASE Load(w) \/ Project(w)
    BY <2>1 DEF Load, Project, rowVars
  <2>2. CASE Prepare(w)
    BY <2>2 DEF Prepare
  <2>3. CASE LeaseDelivery(w)
    BY <2>3 DEF LeaseDelivery
  <2>4. CASE AcknowledgeDelivery(w)
    BY <2>4 DEF AcknowledgeDelivery
  <2> QED
    BY <1>4, <2>1, <2>2, <2>3, <2>4
<1>5. ASSUME NEW w \in Handler, SettleJob(w) PROVE Moved(outbox[s].status, outbox'[s].status)
  <2>1. RetryOrBury(w) \in {"pending", "dead_letter"}
    BY DEF RetryOrBury
  <2>2. \E st \in {"pending", "processed", "dead_letter"} : End(w, st)
    BY <1>5, <2>1 DEF SettleJob
  <2> QED
    BY <2>2, EndMoves
<1>6. ASSUME NEW w \in Handler, Deadline(w) PROVE Moved(outbox[s].status, outbox'[s].status)
  <2>1. RetryOrBury(w) \in {"pending", "processed", "dead_letter"} /\ outbox' = Settled(w, RetryOrBury(w))
    BY <1>6 DEF Deadline, RetryOrBury
  <2> QED
    BY <2>1, SettledMoves
<1>7. ASSUME NEW w \in Handler, CrashHandler(w) PROVE Moved(outbox[s].status, outbox'[s].status)
  BY <1>1, <1>7, WithoutRows DEF CrashHandler, Moved
<1>8. ASSUME NEW w \in Handler,
             \/ \E permanent \in BOOLEAN : Reject(w, permanent)
             \/ Unanswered(w) \/ LeaseLoss(w) \/ StopAborted(w)
      PROVE  UNCHANGED outbox
  BY <1>8 DEF Reject, Unanswered, LeaseLoss, StopAborted, rowVars
<1>9. ASSUME NEW j \in Seqs, LapseJob(j) PROVE Moved(outbox[s].status, outbox'[s].status)
  <2>1. outbox' = [outbox EXCEPT ![j].valid = FALSE]
    BY <1>9 DEF LapseJob
  <2>2. outbox'[s].status = outbox[s].status
    BY <1>1, <2>1 DEF Row
  <2> QED
    BY <2>2 DEF Moved
<1>10. ASSUME NEW j \in Seqs, NEW t \in Target, LapseDelivery(j, t) PROVE UNCHANGED outbox
  BY <1>10 DEF LapseDelivery
<1> QED
  BY <1>2, <1>3, <1>4, <1>5, <1>6, <1>7, <1>8, <1>9, <1>10 DEF WorkerNext, HandlerStep

\* The operator moves no row but a dead letter, and no notification.
LEMMA OperatorMoves ==
    ASSUME \/ CommandStep \/ CrashOperator \/ ResumeRebuild \/ StartPromotion
           \/ \E t \in Target : \/ Initialize(t) \/ CloseWindow(t) \/ Retire(t)
                                \/ \E p \in Target : PlanRollback(p, t)
    PROVE  UNCHANGED <<canon, outbox, delivery>>
<1>1. ASSUME UNCHANGED feedVars PROVE UNCHANGED <<canon, outbox, delivery>>
  BY <1>1 DEF feedVars
<1>2. ASSUME UNCHANGED <<canonVars, rowVars>> PROVE UNCHANGED <<canon, outbox, delivery>>
  BY <1>2 DEF canonVars, rowVars
<1>3. CASE RebuildStep
  <2>1. CASE ReadBatch \/ RecordBackfillBatch \/ CaptureS1 \/ CatchUp
    BY <1>1, <2>1, Zenon DEF ReadBatch, RecordBackfillBatch, CaptureS1, CatchUp
  <2>2. CASE WriteBatch
    BY <2>2 DEF WriteBatch, canonVars, rowVars
  <2>3. CASE CompleteBackfill
    BY <2>3 DEF CompleteBackfill, canonVars, rowVars
  <2> QED
    BY <1>3, <2>1, <2>2, <2>3 DEF RebuildStep
<1>4. CASE ReconcileStep
  <2>1. CASE ReadLive \/ ReadGone \/ Scan
    BY <1>1, <2>1 DEF ReadLive, ReadGone, Scan
  <2>2. CASE Repair \/ RecordReconciliation
    BY <1>2, <2>2 DEF Repair, RecordReconciliation
  <2> QED
    BY <1>4, <2>1, <2>2 DEF ReconcileStep
<1>5. CASE PromoteStep
  BY <1>1, <1>2, <1>5 DEF PromoteStep, BeginCutover, PromoteAlias, CommitPromotion, SwapAlias, Refuse
<1>6. CASE RollbackStep
  BY <1>1, <1>2, <1>6 DEF RollbackStep, BeginRollback, RollbackAlias, CommitRollback, SwapAlias, Refuse
<1>7. CASE ResumeRebuild \/ StartPromotion
  BY <1>1, <1>7 DEF ResumeRebuild, StartPromotion
<1>8. CASE CrashOperator
  BY <1>2, <1>8 DEF CrashOperator
<1>9. ASSUME NEW t \in Target, CloseWindow(t) \/ Retire(t)
      PROVE  UNCHANGED <<canon, outbox, delivery>>
  BY <1>2, <1>9 DEF CloseWindow, Retire
<1>10. ASSUME NEW t \in Target, Initialize(t) PROVE UNCHANGED <<canon, outbox, delivery>>
  BY <1>10, Zenon DEF Initialize, canonVars, rowVars
<1>11. ASSUME NEW t \in Target, NEW p \in Target, PlanRollback(p, t)
       PROVE  UNCHANGED <<canon, outbox, delivery>>
  BY <1>11, Zenon DEF PlanRollback, feedVars
<1> QED
  BY <1>3, <1>4, <1>5, <1>6, <1>7, <1>8, <1>9, <1>10, <1>11 DEF CommandStep

\* Apart from the commit of a change, a step keeps the notifications and what their
\* jobs say, and moves the status of a job as a worker, a replay or a discard does.
LEMMA RowMoves ==
    ASSUME Inv, [Next]_vars,
           \A n \in Notification : ~(CommitChange(n) /\ UNCHANGED <<run, op, replayed>>)
    PROVE  /\ UNCHANGED canon
           /\ Alike(outbox', outbox)
           /\ \A s \in Seqs :
                 \/ Moved(outbox[s].status, outbox'[s].status)
                 \/ Replay(s)
                 \/ Discard(s)
           /\ \A s \in Seqs, t \in Target :
                 delivery[s][t].status = "processed" => delivery'[s][t].status = "processed"
<1> DEFINE P == /\ UNCHANGED canon
                /\ Alike(outbox', outbox)
                /\ \A s \in Seqs :
                      \/ Moved(outbox[s].status, outbox'[s].status)
                      \/ Replay(s)
                      \/ Discard(s)
                /\ \A s \in Seqs, t \in Target :
                      delivery[s][t].status = "processed" => delivery'[s][t].status = "processed"
<1>1. ASSUME UNCHANGED <<canon, outbox, delivery>> PROVE P
  BY <1>1 DEF Alike, Moved
<1>2. ASSUME NEW n \in Notification, BeginChange(n) PROVE P
  BY <1>1, <1>2 DEF BeginChange, rowVars
<1>3. ASSUME WorkerNext, UNCHANGED <<run, op, replayed>> PROVE P
  BY <1>3, WorkerStep, WorkerMoves DEF WorkerFrame, canonVars, Inv
<1>4. ASSUME NEW s \in Seqs, Replay(s) \/ Discard(s) PROVE P
  <2>1. outbox \in [Seqs -> Row] /\ outbox[s] \in Row /\ outbox[s].status = "dead_letter"
        /\ UNCHANGED <<canon, delivery>>
    BY <1>4 DEF Inv, TypeOK, FeedTypeOK, Replay, Discard, canonVars
  <2>2. CASE Replay(s)
    <3>1. /\ outbox'[s].note = outbox[s].note /\ outbox'[s].rev = outbox[s].rev
          /\ outbox'[s].status = "pending"
      BY <2>1, <2>2 DEF Replay, Row
    <3>2. \A j \in Seqs : j # s => outbox'[j] = outbox[j]
      BY <2>1, <2>2 DEF Replay
    <3> QED
      BY <2>1, <2>2, <3>1, <3>2 DEF Alike, Moved
  <2>3. CASE Discard(s)
    <3>1. /\ outbox'[s].note = outbox[s].note /\ outbox'[s].rev = outbox[s].rev
          /\ outbox'[s].status = "discarded"
      BY <2>1, <2>3 DEF Discard, Row
    <3>2. \A j \in Seqs : j # s => outbox'[j] = outbox[j]
      BY <2>1, <2>3 DEF Discard
    <3> QED
      BY <2>1, <2>3, <3>1, <3>2 DEF Alike, Moved
  <2> QED
    BY <1>4, <2>2, <2>3
<1>5. ASSUME UNCHANGED vars PROVE P
  BY <1>1, <1>5 DEF vars, feedVars, canonVars
<1>6. CASE FeedNext /\ UNCHANGED <<run, op, replayed>>
  BY <1>2, <1>3, <1>6 DEF FeedNext, WorkerNext
<1> QED
  BY <1>1, <1>4, <1>5, <1>6, OperatorMoves DEF Next

\* Processed and discarded jobs stay what they are, and so do processed deliveries: a
\* late worker settles a row only while it holds its lease, and an index is never asked
\* twice to count a delivery.
THEOREM ProcessedIsKept == Spec => ProcessedStays
<1>1. Inv /\ [Next]_vars
         => [\A s \in Seqs :
                /\ outbox[s].status \in {"processed", "discarded"} => outbox'[s].status = outbox[s].status
                /\ \A t \in Target :
                      delivery[s][t].status = "processed" => delivery'[s][t].status = "processed"]_vars
  <2> SUFFICES ASSUME Inv, [Next]_vars, NEW s \in Seqs
               PROVE  /\ outbox[s].status \in {"processed", "discarded"} => outbox'[s].status = outbox[s].status
                      /\ \A t \in Target :
                            delivery[s][t].status = "processed" => delivery'[s][t].status = "processed"
    OBVIOUS
  <2>1. ASSUME NEW n \in Notification, CommitChange(n), UNCHANGED <<run, op, replayed>>
        PROVE  outbox[s].status # "none" => outbox'[s] = outbox[s] /\ UNCHANGED delivery
    <3>1. CommitFacts(n)
      BY <2>1, CommitChangeFacts
    <3> QED
      BY <3>1 DEF CommitFacts, Committed
  <2>2. ASSUME NEW n \in Notification, CommitChange(n), UNCHANGED <<run, op, replayed>>
        PROVE  UNCHANGED delivery
    BY <2>2 DEF CommitChange
  <2>3. CASE \A n \in Notification : ~(CommitChange(n) /\ UNCHANGED <<run, op, replayed>>)
    <3>1. /\ Moved(outbox[s].status, outbox'[s].status) \/ Replay(s) \/ Discard(s)
          /\ \A t \in Target : delivery[s][t].status = "processed" => delivery'[s][t].status = "processed"
      BY <2>3, RowMoves
    <3> QED
      BY <3>1 DEF Moved, Replay, Discard
  <2> QED
    BY <2>1, <2>2, <2>3
<1> QED
  BY <1>1, SpecInv, PTL DEF Spec, ProcessedStays

\* A job that is replayed waits again.
LEMMA ReplayWaits == ASSUME Inv, NEW s \in Seqs, Replay(s) PROVE outbox'[s].status = "pending"
<1>1. outbox \in [Seqs -> Row] /\ outbox[s] \in Row
  BY DEF Inv, TypeOK, FeedTypeOK
<1> QED
  BY <1>1 DEF Replay, Row

\* A tombstone is always newer than the jobs that were given up before it.
LEMMA TombstoneStep == Inv /\ TombstonesAreKept /\ [Next]_vars => TombstonesAreKept'
<1> SUFFICES ASSUME Inv, TombstonesAreKept, [Next]_vars, NEW s \in Seqs,
                    outbox'[s].status = "discarded", canon'[outbox'[s].note].state = "deleted"
             PROVE  outbox'[s].rev < canon'[outbox'[s].note].rev
  BY DEF TombstonesAreKept
<1>1. ASSUME NEW n \in Notification, CommitChange(n), UNCHANGED <<run, op, replayed>>
      PROVE  outbox'[s].rev < canon'[outbox'[s].note].rev
  <2>1. CommitFacts(n)
    BY <1>1, CommitChangeFacts
  <2>2. outbox'[s] = outbox[s] /\ s \in Committed
    BY <2>1 DEF CommitFacts, Committed
  <2>3. outbox[s].note \in Notification /\ outbox[s].rev \in 1..canon[outbox[s].note].rev
    BY <2>2 DEF Inv, ProjectionInv, RowInv
  <2>4. CASE outbox[s].note = n
    <3>1. canon'[n].rev = canon[n].rev + 1 /\ canon[n].rev \in Nat
      BY <2>1 DEF CommitFacts, Inv, TypeOK, FeedTypeOK
    <3> QED
      BY <2>2, <2>3, <2>4, <3>1
  <2>5. CASE outbox[s].note # n
    BY <2>1, <2>2, <2>3, <2>5 DEF CommitFacts, TombstonesAreKept
  <2> QED
    BY <2>4, <2>5
<1>2. CASE \A n \in Notification : ~(CommitChange(n) /\ UNCHANGED <<run, op, replayed>>)
  <2>1. /\ canon' = canon /\ outbox'[s].note = outbox[s].note /\ outbox'[s].rev = outbox[s].rev
        /\ Moved(outbox[s].status, outbox'[s].status) \/ Replay(s) \/ Discard(s)
    BY <1>2, RowMoves DEF Alike
  <2>2. CASE Moved(outbox[s].status, outbox'[s].status)
    BY <2>1, <2>2 DEF Moved, TombstonesAreKept
  <2>3. ~Replay(s)
    BY ReplayWaits
  <2>4. CASE Discard(s)
    BY <2>1, <2>4 DEF Discard
  <2> QED
    BY <2>1, <2>2, <2>3, <2>4
<1> QED
  BY <1>1, <1>2

\* An operator cannot give a deletion up: the job that carries the tombstone of a
\* notification is not among the discarded ones, neither when it is discarded nor when
\* the notification is deleted later.
THEOREM DeletionsAreDelivered == Spec => []TombstonesAreKept
<1>1. Init => TombstonesAreKept
  BY DEF Init, FeedInit, NoRow, TombstonesAreKept
<1> QED
  BY <1>1, TombstoneStep, SpecInv, PTL DEF Spec

\* Nothing is lost on the way from a change to the reader: as soon as the jobs of a
\* notification are processed, its newest revision is what the aliases show.
THEOREM DrainedFeedIsExact == Spec => []DrainedIsExact
<1>1. Inv => DrainedIsExact
  <2> SUFFICES ASSUME Inv, Fed(alias), NEW n \in Notification,
                      \A s \in Committed : outbox[s].note = n => outbox[s].status = "processed"
               PROVE  index[alias][n] = canon[n].rev
    BY DEF DrainedIsExact
  <2>1. alias \in Target /\ index[alias][n] \in Nat /\ canon[n].rev \in Nat
        /\ index[alias][n] <= canon[n].rev
    BY DEF Inv, TypeOK, FeedTypeOK, ProjectionInv, IndexNeverAhead
  <2>2. CASE canon[n].rev = 0
    BY <2>1, <2>2
  <2>3. CASE canon[n].rev > 0
    <3>1. PICK s \in Committed : outbox[s].note = n /\ outbox[s].rev = canon[n].rev
      BY <2>3 DEF Inv, ProjectionInv, RowInv
    <3>2. s \in Seqs /\ outbox[s].status = "processed"
      BY <3>1 DEF Committed
    <3>3. canon[n].rev <= index[alias][n]
      BY <3>1, <3>2, Visible DEF ProcessedIsVisible
    <3> QED
      BY <2>1, <3>3
  <2> QED
    BY <2>1, <2>2, <2>3
<1> QED
  BY <1>1, SpecInv, PTL

\* What a reader finds only moves on.
LEMMA FeedMovesOn ==
    ASSUME Inv, Inv', [Next]_vars, NEW n \in Notification
    PROVE  index[alias][n] <= index'[alias'][n]
<1>1. /\ index[alias] \in [Notification -> Nat] /\ canon[n].rev \in Nat
      /\ index[alias][n] <= canon[n].rev
  BY DEF Inv, TypeOK, FeedTypeOK, ProjectionInv, IndexNeverAhead
<1>2. CASE Unseen
  BY <1>1, <1>2 DEF Unseen
<1>3. CASE Followed!TakeOver
  BY <1>1, <1>3 DEF Followed!TakeOver
<1>4. ASSUME NEW m \in Notification, Followed!Change(m) PROVE index[alias][n] <= index'[alias'][n]
  BY <1>1, <1>4 DEF Followed!Change
<1>5. ASSUME NEW m \in Notification, Followed!Show(m) PROVE index[alias][n] <= index'[alias'][n]
  <2>1. index'[alias'] = [index[alias] EXCEPT ![m] = index'[alias'][m]]
        /\ index'[alias'][m] \in (index[alias][m] + 1)..canon[m].rev
    BY <1>5 DEF Followed!Show
  <2>2. CASE n = m
    <3>1. canon[m].rev \in Nat /\ index[alias][m] \in Nat
      BY <1>1, <2>2
    <3> QED
      BY <2>1, <2>2, <3>1
  <2>3. CASE n # m
    <3>1. index'[alias'][n] = index[alias][n]
      BY <1>1, <2>1, <2>3
    <3> QED
      BY <1>1, <3>1
  <2> QED
    BY <2>2, <2>3
<1> QED
  BY <1>2, <1>3, <1>4, <1>5, StepSeen DEF Followed!FeedNext

\* The feed never shows an older revision than before, although versions are compared
\* in one index only and the aliases move between indices.
THEOREM FeedIsMonotonic == Spec => FeedNeverGoesBack
<1>1. Inv /\ Inv' /\ [Next]_vars
         => [\A n \in Notification : index[alias][n] <= index'[alias'][n]]_vars
  BY FeedMovesOn
<1> QED
  BY <1>1, SpecInv, PTL DEF Spec, FeedNeverGoesBack

\* A deletion is final for readers: once the feed shows the tombstone, no late worker,
\* backfill, repair, promotion or rollback brings the notification back.
THEOREM DeletionsAreFinal == Spec => DeletedStaysDeleted
<1>1. Inv /\ Inv' /\ [Next]_vars
         => [\A n \in Notification :
                canon[n].state = "deleted" /\ index[alias][n] = canon[n].rev
                    => canon'[n] = canon[n] /\ index'[alias'][n] = index[alias][n]]_vars
  <2> SUFFICES ASSUME Inv, Inv', [Next]_vars, NEW n \in Notification,
                      canon[n].state = "deleted", index[alias][n] = canon[n].rev
               PROVE  canon'[n] = canon[n] /\ index'[alias'][n] = index[alias][n]
    OBVIOUS
  <2>1. canon'[n] = canon[n]
    <3>1. ASSUME NEW m \in Notification, CommitChange(m), UNCHANGED <<run, op, replayed>>
          PROVE  canon'[n] = canon[n]
      BY <3>1, CommitChangeFacts DEF CommitFacts
    <3> QED
      BY <3>1, RowMoves
  <2>2. /\ index'[alias'][n] \in Nat /\ canon[n].rev \in Nat
        /\ index'[alias'][n] <= canon'[n].rev
    BY DEF Inv, TypeOK, FeedTypeOK, ProjectionInv, IndexNeverAhead
  <2>3. index[alias][n] <= index'[alias'][n]
    BY FeedMovesOn
  <2> QED
    BY <2>1, <2>2, <2>3
<1> QED
  BY <1>1, SpecInv, PTL DEF Spec, DeletedStaysDeleted

=============================================================================
