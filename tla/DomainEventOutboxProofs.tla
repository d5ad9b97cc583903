----------------------- MODULE DomainEventOutboxProofs -----------------------
(***************************************************************************)
(* Proofs about DomainEventOutboxWorker, for every set of workers, keys    *)
(* and aggregates and every value of the bounds.                           *)
(***************************************************************************)
EXTENDS DomainEventOutboxWorker, TLAPS

\* Every operation of the repository, without the worker that calls it.
RowAction ==
    \/ \E k \in Key : Stage(k)
    \/ \E S \in SUBSET Seqs : ClaimRows(S) \/ ReplayDeadLetters(S) \/ PurgeProcessed(S)
    \/ \E s \in Seqs : Commit(s) \/ Rollback(s) \/ Ripen(s)
    \/ \E s \in Seqs :
          status[s] = "leased" /\ (AcknowledgeRow(s) \/ RetryRow(s) \/ DeadLetterRow(s))
    \/ UNCHANGED rowVars

-----------------------------------------------------------------------------
(* Types *)

\* Every variable starts in its type.
LEMMA InitTypeOK == Init => TypeOK
  BY RepositoryAssumption, WorkerAssumption
     DEF Init, RowInit, TypeOK, RowTypeOK, Seqs, Status, Retained, Open, NoLease, Job, Activity

\* A settled job changes the row as one of the three fenced statements, or not
\* at all.
LEMMA SettleIsRowAction ==
  ASSUME NEW w \in Worker, NEW a \in active[w], TypeOK, SettleRow(a)
  PROVE  RowAction
  <1>1. a.job.seq \in Seqs
    BY DEF TypeOK, Activity, Job
  <1>2. CASE ~Owns(a.job)
    BY <1>2 DEF SettleRow, RowAction
  <1>3. CASE Owns(a.job)
    <2>1. status[a.job.seq] = "leased"
      BY <1>3 DEF Owns, HoldsLease
    <2>2. \/ AcknowledgeRow(a.job.seq)
          \/ DeadLetterRow(a.job.seq)
          \/ RetryRow(a.job.seq)
      BY <1>3 DEF SettleRow
    <2>3. QED
      BY <1>1, <2>1, <2>2 DEF RowAction
  <1>4. QED
    BY <1>2, <1>3

\* Whatever the workers do, the table only moves by an operation of the
\* repository.
LEMMA NextIsRowAction ==
  ASSUME TypeOK, [Next]_vars
  PROVE  RowAction
  <1>1. CASE Produce
    BY <1>1 DEF Produce, RowAction
  <1>2. CASE Administer
    BY <1>2 DEF Administer, RowAction
  <1>3. CASE \E s \in Seqs : TimePasses(s)
    BY <1>3 DEF TimePasses, RowAction
  <1>4. CASE \E z \in zombies : ZombieEffect(z)
    BY <1>4 DEF ZombieEffect, RowAction
  <1>5. ASSUME NEW w \in Worker, NEW S \in SUBSET Seqs, Claim(w, S)
        PROVE  RowAction
    BY <1>5 DEF Claim, RowAction
  <1>6. ASSUME NEW w \in Worker, NEW j \in waiting[w], StartJob(w, j) \/ SkipJob(w, j)
        PROVE  RowAction
    BY <1>6 DEF StartJob, SkipJob, RowAction
  <1>7. ASSUME NEW w \in Worker, NEW a \in active[w], RunStep(w, a)
        PROVE  RowAction
    <2>1. CASE Settle(w, a) \/ SettleThrows(w, a)
      BY <2>1, SettleIsRowAction DEF Settle, SettleThrows, RowAction
    <2>2. CASE ~(Settle(w, a) \/ SettleThrows(w, a))
      BY <1>7, <2>2
         DEF RunStep, HandlerEffect, HandlerSettles, HandlerDeadline, LoseLease, AbortJob, RowAction
    <2>3. QED
      BY <2>1, <2>2
  <1>8. ASSUME NEW w \in Worker, EmptyPoll(w) \/ Shutdown(w) \/ Restart(w) \/ Crash(w)
        PROVE  RowAction
    BY <1>8 DEF EmptyPoll, Shutdown, Restart, Crash, Reset, RowAction, vars
  <1>9. CASE UNCHANGED vars
    BY <1>9 DEF vars, RowAction
  <1>10. QED
    BY <1>1, <1>2, <1>3, <1>4, <1>5, <1>6, <1>7, <1>8, <1>9 DEF Next

\* Every statement on the table keeps its columns in their types.
LEMMA RowTypes ==
  ASSUME RowTypeOK, RowAction
  PROVE  RowTypeOK'
  <1> USE RepositoryAssumption DEF RowTypeOK, Seqs, Status, Retained, Open, NoLease
  <1>1. ASSUME NEW k \in Key, Stage(k) PROVE RowTypeOK'
    BY <1>1 DEF Stage
  <1>2. ASSUME NEW S \in SUBSET Seqs, ClaimRows(S) PROVE RowTypeOK'
    <2>1. ripe' \in [Seqs -> BOOLEAN]
      BY <1>2, Zenon DEF ClaimRows
    <2>2. status' \in [Seqs -> Status]
      BY <1>2 DEF ClaimRows
    <2>3. attempt' \in [Seqs -> Nat]
      BY <1>2 DEF ClaimRows
    <2>4. issued' \in [Seqs -> Nat]
      BY <1>2 DEF ClaimRows
    <2>5. lease' \in [Seqs -> Nat]
      BY <1>2 DEF ClaimRows
    <2>6. QED
      BY <1>2, <2>1, <2>2, <2>3, <2>4, <2>5 DEF ClaimRows
  <1>3. ASSUME NEW S \in SUBSET Seqs, ReplayDeadLetters(S) PROVE RowTypeOK'
    <2>1. ripe' \in [Seqs -> BOOLEAN]
      BY <1>3, Zenon DEF ReplayDeadLetters
    <2>2. status' \in [Seqs -> Status] /\ attempt' \in [Seqs -> Nat]
      BY <1>3 DEF ReplayDeadLetters
    <2>3. replays' \in 0..MaxReplays
      BY <1>3 DEF ReplayDeadLetters
    <2>4. QED
      BY <1>3, <2>1, <2>2, <2>3 DEF ReplayDeadLetters
  <1>4. ASSUME NEW S \in SUBSET Seqs, PurgeProcessed(S) PROVE RowTypeOK'
    BY <1>4 DEF PurgeProcessed
  <1>5. ASSUME NEW s \in Seqs, Commit(s) \/ Rollback(s) \/ Ripen(s) PROVE RowTypeOK'
    BY <1>5 DEF Commit, Rollback, Ripen
  <1>6. ASSUME NEW s \in Seqs, AcknowledgeRow(s) \/ RetryRow(s) \/ DeadLetterRow(s)
        PROVE  RowTypeOK'
    <2>1. ripe' \in [Seqs -> BOOLEAN]
      BY <1>6, Zenon DEF AcknowledgeRow, RetryRow, DeadLetterRow
    <2>2. status' \in [Seqs -> Status]
      BY <1>6 DEF AcknowledgeRow, RetryRow, DeadLetterRow
    <2>3. lease' \in [Seqs -> Nat]
      <3>1. lease' = [lease EXCEPT ![s] = 0]
        BY <1>6, Zenon DEF AcknowledgeRow, RetryRow, DeadLetterRow
      <3>2. QED
        BY <3>1
    <2>4. buried' \subseteq Seqs
      BY <1>6 DEF AcknowledgeRow, RetryRow, DeadLetterRow
    <2>5. UNCHANGED <<nextSeq, keyOf, attempt, issued, replays>>
      BY <1>6 DEF AcknowledgeRow, RetryRow, DeadLetterRow
    <2>6. QED
      BY <2>1, <2>2, <2>3, <2>4, <2>5
  <1>7. CASE UNCHANGED rowVars
    BY <1>7 DEF rowVars
  <1>8. QED
    BY <1>1, <1>2, <1>3, <1>4, <1>5, <1>6, <1>7 DEF RowAction

\* Every step, of producers, workers and operators, keeps the types.
LEMMA NextTypeOK ==
  ASSUME TypeOK, [Next]_vars
  PROVE  TypeOK'
  <1>0. RowTypeOK'
    BY NextIsRowAction, RowTypes DEF TypeOK
  <1>1. CASE Produce \/ Administer \/ UNCHANGED vars
    BY <1>0, <1>1 DEF Produce, Administer, TypeOK, jobVars, vars
  <1>2. CASE \E s \in Seqs : TimePasses(s)
    BY <1>0, <1>2, WorkerAssumption DEF TimePasses, Fault, TypeOK
  <1>3. CASE \E z \in zombies : ZombieEffect(z)
    BY <1>0, <1>3 DEF ZombieEffect, TypeOK
  <1>4. ASSUME NEW w \in Worker, NEW S \in SUBSET Seqs, Claim(w, S)
        PROVE  TypeOK'
    <2>1. \A s \in S : [seq |-> s, lease |-> lease'[s], attempt |-> attempt'[s]] \in Job
      BY <1>0 DEF RowTypeOK, Job
    <2>2. waiting' \in [Worker -> SUBSET Job]
      BY <1>4, <2>1 DEF Claim, TypeOK
    <2>3. QED
      BY <1>0, <1>4, <2>2, WorkerAssumption DEF Claim, Fault, TypeOK
  <1>5. ASSUME NEW w \in Worker, NEW j \in waiting[w], StartJob(w, j) \/ SkipJob(w, j)
        PROVE  TypeOK'
    <2>1. j \in Job
      BY DEF TypeOK
    <2>2. [job |-> j, phase |-> "dispatch", done |-> FALSE] \in Activity
      BY <2>1 DEF Activity, Phase
    <2>3. active' \in [Worker -> SUBSET Activity]
      <3> DEFINE started == [job |-> j, phase |-> "dispatch", done |-> FALSE]
      <3>1. \/ active' = [active EXCEPT ![w] = @ \cup {started}]
            \/ active' = active
        BY <1>5, Zenon DEF StartJob, SkipJob
      <3> HIDE DEF started
      <3>2. started \in Activity
        BY <2>2 DEF started
      <3>3. QED
        BY <3>1, <3>2 DEF TypeOK
    <2>4. waiting' \in [Worker -> SUBSET Job]
      BY <1>5 DEF StartJob, SkipJob, TypeOK
    <2>5. UNCHANGED <<zombies, stopping, delivered, faults>>
      BY <1>5 DEF StartJob, SkipJob
    <2>6. QED
      BY <1>0, <2>3, <2>4, <2>5 DEF TypeOK
  <1>6. ASSUME NEW w \in Worker, NEW a \in active[w], RunStep(w, a)
        PROVE  TypeOK'
    <2>1. a \in Activity /\ a.job.seq \in Seqs
      BY DEF TypeOK, Activity, Job
    <2>2. CASE HandlerEffect(w, a)
      <3>1. [a EXCEPT !.done = TRUE] \in Activity
        BY <2>1 DEF Activity
      <3>2. QED
        BY <1>0, <2>1, <2>2, <3>1 DEF HandlerEffect, TypeOK
    <2>3. ASSUME NEW o \in {"delivered", "transient", "permanent"}, HandlerSettles(w, a, o)
          PROVE  TypeOK'
      <3>1. [a EXCEPT !.phase = o] \in Activity
        BY <2>1 DEF Activity, Phase
      <3>2. QED
        BY <1>0, <2>3, <3>1 DEF HandlerSettles, TypeOK
    <2>4. CASE HandlerDeadline(w, a)
      <3>1. [a EXCEPT !.phase = "transient"] \in Activity
        BY <2>1 DEF Activity, Phase
      <3>2. QED
        BY <1>0, <2>1, <2>4, <3>1 DEF HandlerDeadline, TypeOK
    <2>5. CASE LoseLease(w, a) \/ AbortJob(w, a)
      BY <1>0, <2>1, <2>5, WorkerAssumption DEF LoseLease, AbortJob, Drop, Fault, TypeOK
    <2>6. CASE Settle(w, a) \/ SettleThrows(w, a)
      BY <1>0, <2>6, WorkerAssumption DEF Settle, SettleThrows, Fault, TypeOK
    <2>7. QED
      BY <1>6, <2>2, <2>3, <2>4, <2>5, <2>6 DEF RunStep
  <1>7. ASSUME NEW w \in Worker, EmptyPoll(w) \/ Shutdown(w) \/ Restart(w) \/ Crash(w)
        PROVE  TypeOK'
    <2>1. CASE EmptyPoll(w)
      BY <1>0, <2>1 DEF EmptyPoll, TypeOK, vars, jobVars
    <2>2. CASE Shutdown(w)
      BY <1>0, <2>2, WorkerAssumption DEF Shutdown, Fault, TypeOK
    <2>3. CASE Restart(w) \/ Crash(w)
      <3>1. /\ waiting' \in [Worker -> SUBSET Job]
            /\ active' \in [Worker -> SUBSET Activity]
            /\ zombies' \subseteq Worker \X Seqs
            /\ delivered' \subseteq Seqs
        BY <2>3 DEF Restart, Crash, Reset, TypeOK
      <3>2. stopping' \in [Worker -> BOOLEAN]
        BY <2>3 DEF Restart, Crash, Reset, TypeOK
      <3>3. faults' \in 0..MaxFaults
        BY <2>3, WorkerAssumption DEF Restart, Crash, Fault, TypeOK
      <3>4. QED
        BY <1>0, <3>1, <3>2, <3>3 DEF TypeOK
    <2>4. QED
      BY <1>7, <2>1, <2>2, <2>3
  <1>8. QED
    BY <1>1, <1>2, <1>3, <1>4, <1>5, <1>6, <1>7 DEF Next

\* The variables keep their types for any instance of the constants.
THEOREM TypeCorrect == Spec => []TypeOK
  <1>1. TypeOK /\ [Next]_vars => TypeOK'
    BY NextTypeOK
  <1>2. QED
    BY InitTypeOK, <1>1, PTL DEF Spec

-----------------------------------------------------------------------------
(* The inductive invariant: the table *)

\* The parts of OutboxInv that speak of the table alone.
TableInv ==
    /\ AllocationInv
    /\ ClaimInv
    /\ \A s \in Seqs :
          /\ status[s] = "leased" => issued[s] > 0 /\ lease[s] = issued[s]
          /\ status[s] = "dead_letter" => s \in buried

\* A new row, committed or not, changes nothing that is known of the others.
LEMMA StageKeepsTable ==
  ASSUME RowTypeOK, TableInv, NEW k \in Key, Stage(k)
  PROVE  TableInv'
  <1> USE RepositoryAssumption DEF Seqs, Status, Retained, Open, Stream, RowTypeOK
  <1>1. AggregateOf[k] # None /\ None \notin Serialised /\ k # None
    OBVIOUS
  <1>2. /\ nextSeq \in Seqs
        /\ status[nextSeq] = "none"
        /\ issued[nextSeq] = 0
    <2>1. nextSeq \in Seqs
      BY DEF Stage
    <2>2. status[nextSeq] = "none"
      BY <2>1 DEF TableInv, AllocationInv
    <2>3. ~(issued[nextSeq] > 0)
      BY <2>1, <2>2 DEF TableInv, ClaimInv
    <2>4. QED
      BY <2>1, <2>2, <2>3
  <1>3. /\ \A s \in Seqs : s # nextSeq => Stream(s)' = Stream(s) /\ status'[s] = status[s]
        /\ \A s \in Seqs : s = nextSeq => Stream(s)' = AggregateOf[k]
        /\ status'[nextSeq] = "staged"
        /\ nextSeq' = nextSeq + 1
        /\ UNCHANGED <<issued, lease, buried>>
    <2>1. \A s \in Seqs : s # nextSeq => keyOf'[s] = keyOf[s] /\ status'[s] = status[s]
      BY <1>2 DEF Stage
    <2>2. keyOf'[nextSeq] = k /\ status'[nextSeq] = "staged"
      BY <1>2 DEF Stage
    <2>3. \A s \in Seqs : s # nextSeq => Stream(s)' = Stream(s)
      BY <2>1
    <2>4. \A s \in Seqs : s = nextSeq => Stream(s)' = AggregateOf[k]
      BY <1>1, <2>2
    <2>5. nextSeq' = nextSeq + 1
      BY DEF Stage
    <2>6. UNCHANGED <<issued, lease, buried>>
      BY DEF Stage
    <2>7. QED
      BY <2>1, <2>2, <2>3, <2>4, <2>5, <2>6
  <1>4. AllocationInv'
    <2>1. \A s \in Seqs :
             (s < nextSeq <=> status[s] # "none")' /\ (s < nextSeq <=> keyOf[s] # None)'
      BY <1>1, <1>2 DEF Stage, TableInv, AllocationInv
    <2>2. ASSUME NEW s \in Seqs, NEW p \in Seqs,
                 Stream(s)' \in Serialised, p < s, Stream(p)' = Stream(s)'
          PROVE  status'[p] # "staged"
      <3>1. s <= nextSeq
        BY <1>1, <1>3, <2>1, <2>2
      <3>2. p # nextSeq /\ Stream(p)' = Stream(p) /\ status'[p] = status[p]
        BY <1>2, <1>3, <2>2, <3>1
      <3>3. CASE s = nextSeq
        BY <1>3, <2>2, <3>2, <3>3 DEF Stage
      <3>4. CASE s # nextSeq
        <4>1. Stream(s) \in Serialised /\ Stream(p) = Stream(s)
          BY <1>3, <2>2, <3>2, <3>4
        <4>2. status[p] # "staged"
          BY <2>2, <4>1 DEF TableInv, AllocationInv
        <4>3. QED
          BY <3>2, <4>2
      <3>5. QED
        BY <3>3, <3>4
    <2>3. QED
      BY <2>1, <2>2 DEF AllocationInv
  <1>5. ClaimInv'
    <2> SUFFICES ASSUME NEW s \in Seqs, issued'[s] > 0
                 PROVE  /\ status'[s] \in Retained \cup {"purged"}
                        /\ Stream(s)' \in Serialised =>
                             \A p \in Seqs : p < s /\ Stream(p)' = Stream(s)' =>
                                status'[p] \in Gone \/ p \in buried'
      BY DEF ClaimInv
    <2>1. s # nextSeq /\ s < nextSeq /\ issued[s] > 0
      BY <1>2, <1>3 DEF TableInv, ClaimInv, AllocationInv
    <2>2. \A p \in Seqs : p < s => p # nextSeq
      BY <2>1
    <2>3. /\ status[s] \in Retained \cup {"purged"}
          /\ Stream(s) \in Serialised =>
               \A p \in Seqs : p < s /\ Stream(p) = Stream(s) => status[p] \in Gone \/ p \in buried
      BY <2>1 DEF TableInv, ClaimInv
    <2>4. QED
      BY <1>3, <2>1, <2>2, <2>3
  <1>6. QED
    BY <1>2, <1>3, <1>4, <1>5 DEF TableInv

\* A claim takes rows whose predecessors have settled or were once buried.
LEMMA ClaimKeepsTable ==
  ASSUME RowTypeOK, TableInv, NEW S \in SUBSET Seqs, ClaimRows(S)
  PROVE  TableInv'
  <1> USE RepositoryAssumption DEF Seqs, Status, Retained, Open, RowTypeOK
  <1>1. \A s \in Seqs : Stream(s)' = Stream(s)
    BY DEF ClaimRows, Stream
  <1>2. /\ \A s \in S : status[s] \in Open /\ status'[s] = "leased"
                         /\ issued'[s] = issued[s] + 1 /\ lease'[s] = issued[s] + 1
        /\ \A s \in Seqs \ S : status'[s] = status[s] /\ issued'[s] = issued[s] /\ lease'[s] = lease[s]
        /\ UNCHANGED <<nextSeq, keyOf, buried>>
    BY DEF ClaimRows, Claimable
  <1>3. AllocationInv'
    BY <1>1, <1>2 DEF TableInv, AllocationInv
  <1>4. ClaimInv'
    <2> SUFFICES ASSUME NEW s \in Seqs, issued'[s] > 0
                 PROVE  /\ status'[s] \in Retained \cup {"purged"}
                        /\ Stream(s)' \in Serialised =>
                             \A p \in Seqs : p < s /\ Stream(p)' = Stream(s)' =>
                                status'[p] \in Gone \/ p \in buried'
      BY DEF ClaimInv
    <2>1. ASSUME NEW p \in Seqs, p < s, Stream(p) = Stream(s), Stream(s) \in Serialised
          PROVE  status'[p] \in Gone \/ p \in buried
      <3>1. status[p] \in Gone \/ p \in buried
        <4>1. CASE s \in S
          <5>1. status[p] \notin Open
            BY <2>1, <4>1 DEF ClaimRows, Claimable
          <5>2. status[p] # "none"
            <6>1. s < nextSeq
              BY <1>2, <4>1 DEF TableInv, AllocationInv
            <6>2. p < nextSeq
              BY <2>1, <6>1
            <6>3. QED
              BY <6>2 DEF TableInv, AllocationInv
          <5>3. status[p] # "staged"
            BY <2>1 DEF TableInv, AllocationInv
          <5>4. QED
            BY <2>1, <5>1, <5>2, <5>3 DEF TableInv, Gone
        <4>2. CASE s \notin S
          BY <1>2, <2>1, <4>2 DEF TableInv, ClaimInv
        <4>3. QED
          BY <4>1, <4>2
      <3>2. QED
        BY <1>2, <3>1 DEF Gone
    <2>2. status'[s] \in Retained \cup {"purged"}
      BY <1>2 DEF TableInv, ClaimInv
    <2>3. Stream(s)' = Stream(s) /\ (\A p \in Seqs : Stream(p)' = Stream(p)) /\ buried' = buried
      BY <1>1, <1>2
    <2>4. QED
      BY <2>1, <2>2, <2>3, Zenon
  <1>5. ASSUME NEW s \in Seqs
        PROVE  /\ status'[s] = "leased" => issued'[s] > 0 /\ lease'[s] = issued'[s]
               /\ status'[s] = "dead_letter" => s \in buried'
    <2>1. issued[s] \in Nat
      OBVIOUS
    <2>2. CASE s \in S
      BY <1>2, <2>1, <2>2
    <2>3. CASE s \notin S
      BY <1>2, <2>3 DEF TableInv
    <2>4. QED
      BY <2>2, <2>3
  <1>6. QED
    BY <1>3, <1>4, <1>5, Zenon DEF TableInv

\* The remaining operations move a row among the states a claimed or a visible
\* row may have and hand out no lease.
LEMMA MoveKeepsTable ==
  ASSUME RowTypeOK, RowTypeOK', TableInv, UNCHANGED <<nextSeq, keyOf, issued>>, buried \subseteq buried',
         \A s \in Seqs :
            \/ status'[s] = status[s] /\ (status[s] = "leased" => lease'[s] = lease[s])
            \/ status[s] = "staged" /\ status'[s] \in {"pending", "rolled_back"}
            \/ status[s] = "leased" /\ status'[s] \in {"processed", "pending"}
            \/ status[s] = "leased" /\ status'[s] = "dead_letter" /\ s \in buried'
            \/ status[s] = "dead_letter" /\ status'[s] = "pending"
            \/ status[s] = "processed" /\ status'[s] = "purged"
  PROVE  TableInv'
  <1> USE DEF Seqs
  <1>1. \A s \in Seqs : Stream(s)' = Stream(s)
    BY DEF Stream
  <1>2. AllocationInv'
    BY <1>1 DEF TableInv, AllocationInv
  <1>3. ClaimInv'
    <2> SUFFICES ASSUME NEW s \in Seqs, issued[s] > 0
                 PROVE  /\ status'[s] \in Retained \cup {"purged"}
                        /\ Stream(s) \in Serialised =>
                             \A p \in Seqs : p < s /\ Stream(p) = Stream(s) =>
                                status'[p] \in Gone \/ p \in buried'
      BY <1>1 DEF ClaimInv
    <2>1. status'[s] \in Retained \cup {"purged"}
      BY DEF TableInv, ClaimInv, Retained, Open
    <2>2. ASSUME NEW p \in Seqs, p < s, Stream(p) = Stream(s), Stream(s) \in Serialised
          PROVE  status'[p] \in Gone \/ p \in buried'
      <3>1. status[p] \in Gone \/ p \in buried
        BY <2>2 DEF TableInv, ClaimInv
      <3>2. QED
        BY <3>1 DEF Gone
    <2>3. QED
      BY <2>1, <2>2
  <1>4. \A s \in Seqs :
           /\ status'[s] = "leased" => issued'[s] > 0 /\ lease'[s] = issued'[s]
           /\ status'[s] = "dead_letter" => s \in buried'
    BY DEF TableInv
  <1>5. QED
    BY <1>2, <1>3, <1>4 DEF TableInv

\* Every statement keeps what is known of the table.
LEMMA TableStep ==
  ASSUME RowTypeOK, TableInv, RowAction
  PROVE  TableInv'
  <1>0. RowTypeOK'
    BY RowTypes
  <1>1. ASSUME NEW k \in Key, Stage(k) PROVE TableInv'
    BY <1>1, StageKeepsTable
  <1>2. ASSUME NEW S \in SUBSET Seqs, ClaimRows(S) PROVE TableInv'
    BY <1>2, ClaimKeepsTable
  <1>3. ASSUME NEW S \in SUBSET Seqs, ReplayDeadLetters(S) \/ PurgeProcessed(S) PROVE TableInv'
    BY <1>0, <1>3, MoveKeepsTable DEF ReplayDeadLetters, PurgeProcessed, RowTypeOK
  <1>4. ASSUME NEW t \in Seqs, Commit(t) \/ Rollback(t) \/ Ripen(t) PROVE TableInv'
    BY <1>0, <1>4, MoveKeepsTable DEF Commit, Rollback, Ripen, RowTypeOK
  <1>5. ASSUME NEW t \in Seqs, status[t] = "leased",
               AcknowledgeRow(t) \/ RetryRow(t) \/ DeadLetterRow(t)
        PROVE  TableInv'
    BY <1>0, <1>5, MoveKeepsTable DEF AcknowledgeRow, RetryRow, DeadLetterRow, RowTypeOK
  <1>6. CASE UNCHANGED rowVars
    BY <1>6 DEF rowVars, TableInv, AllocationInv, ClaimInv, Stream
  <1>7. QED
    BY <1>1, <1>2, <1>3, <1>4, <1>5, <1>6 DEF RowAction

-----------------------------------------------------------------------------
(* The inductive invariant: jobs and their leases *)

\* The parts of OutboxInv that speak of jobs, handlers and their effects.
WorkInv ==
    /\ JobInv
    /\ LeaseInv
    /\ EffectInv
    /\ \A s \in Seqs : status[s] \in {"processed", "purged"} => s \in delivered

\* A lease token that was issued before a step holds after it only if it held
\* before: every claim takes a token never used for the row.
LEMMA OldLease ==
  ASSUME RowTypeOK, RowAction, NEW s \in Seqs, NEW l \in Nat
  PROVE  /\ issued[s] <= issued'[s]
         /\ l <= issued[s] /\ status'[s] = "leased" /\ lease'[s] = l =>
              status[s] = "leased" /\ lease[s] = l /\ attempt'[s] = attempt[s]
  <1> USE RepositoryAssumption DEF RowTypeOK
  <1>1. ASSUME NEW k \in Key, Stage(k)
        PROVE  /\ UNCHANGED <<issued, lease, attempt>>
               /\ status'[s] = "leased" => status[s] = "leased"
    BY <1>1 DEF Stage
  <1>2. ASSUME NEW S \in SUBSET Seqs, ClaimRows(S)
        PROVE  \/ issued'[s] = issued[s] + 1 /\ lease'[s] = issued[s] + 1
               \/ /\ issued'[s] = issued[s] /\ lease'[s] = lease[s]
                  /\ attempt'[s] = attempt[s] /\ status'[s] = status[s]
    BY <1>2 DEF ClaimRows
  <1>3. ASSUME NEW S \in SUBSET Seqs, ReplayDeadLetters(S)
        PROVE  /\ UNCHANGED <<issued, lease>>
               /\ status'[s] = "leased" => status[s] = "leased" /\ attempt'[s] = attempt[s]
    BY <1>3 DEF ReplayDeadLetters
  <1>4. ASSUME NEW S \in SUBSET Seqs, PurgeProcessed(S)
        PROVE  /\ UNCHANGED <<issued, lease, attempt>>
               /\ status'[s] = "leased" => status[s] = "leased"
    BY <1>4 DEF PurgeProcessed
  <1>5. ASSUME NEW t \in Seqs, Commit(t) \/ Rollback(t) \/ Ripen(t)
        PROVE  /\ UNCHANGED <<issued, lease, attempt>>
               /\ status'[s] = "leased" => status[s] = "leased"
    BY <1>5 DEF Commit, Rollback, Ripen
  <1>6. ASSUME NEW t \in Seqs, AcknowledgeRow(t) \/ RetryRow(t) \/ DeadLetterRow(t)
        PROVE  /\ UNCHANGED <<issued, attempt>>
               /\ status'[s] = "leased" => status[s] = "leased" /\ lease'[s] = lease[s]
    BY <1>6 DEF AcknowledgeRow, RetryRow, DeadLetterRow
  <1>7. CASE UNCHANGED rowVars
    BY <1>7 DEF rowVars
  <1>8. QED
    BY <1>1, <1>2, <1>3, <1>4, <1>5, <1>6, <1>7 DEF RowAction

\* The updated record of a running job is still about the same job.
LEMMA DoneRecord ==
  ASSUME NEW a \in Activity
  PROVE  /\ [a EXCEPT !.done = TRUE].job = a.job
         /\ [a EXCEPT !.done = TRUE].done
         /\ [a EXCEPT !.done = TRUE].phase = a.phase
  BY DEF Activity

\* Moving an activity to another phase keeps its job.
LEMMA PhaseRecord ==
  ASSUME NEW a \in Activity, NEW o \in Phase
  PROVE  /\ [a EXCEPT !.phase = o].job = a.job
         /\ [a EXCEPT !.phase = o].done = a.done
         /\ [a EXCEPT !.phase = o].phase = o
  BY DEF Activity

\* Only a claim gives a worker a job.
LEMMA JobsShrink ==
  ASSUME TypeOK, [Next]_vars, \A w \in Worker, S \in SUBSET Seqs : ~Claim(w, S)
  PROVE  \A w \in Worker : JobsOf(w)' \subseteq JobsOf(w)
  <1>1. CASE waiting' = waiting /\ active' = active
    BY <1>1 DEF JobsOf
  <1>2. CASE Produce \/ Administer \/ UNCHANGED vars
    BY <1>1, <1>2 DEF Produce, Administer, vars, jobVars
  <1>3. CASE (\E s \in Seqs : TimePasses(s)) \/ (\E z \in zombies : ZombieEffect(z))
    BY <1>1, <1>3 DEF TimePasses, ZombieEffect
  <1>4. ASSUME NEW w \in Worker, NEW j \in waiting[w], StartJob(w, j) \/ SkipJob(w, j)
        PROVE  \A v \in Worker : JobsOf(v)' \subseteq JobsOf(v)
    <2>1. \A v \in Worker :
             /\ waiting'[v] \subseteq waiting[v]
             /\ \/ active'[v] = active[v]
                \/ /\ v = w
                   /\ active'[v] = active[v] \cup {[job |-> j, phase |-> "dispatch", done |-> FALSE]}
      BY <1>4 DEF StartJob, SkipJob, TypeOK
    <2>2. QED
      BY <2>1 DEF JobsOf
  <1>5. ASSUME NEW w \in Worker, NEW a \in active[w], RunStep(w, a)
        PROVE  \A v \in Worker : JobsOf(v)' \subseteq JobsOf(v)
    <2>1. a \in Activity
      BY DEF TypeOK
    <2>2. waiting' = waiting
      BY <1>5 DEF RunStep, HandlerEffect, HandlerSettles, HandlerDeadline, LoseLease, Settle,
                  SettleThrows, AbortJob
    <2>3. ASSUME NEW v \in Worker, NEW b \in active'[v]
          PROVE  b \in active[v] \/ (v = w /\ b.job = a.job)
      <3>1. CASE HandlerEffect(w, a)
        <4>1. b \in active[v] \/ (v = w /\ b = [a EXCEPT !.done = TRUE])
          BY <2>3, <3>1 DEF HandlerEffect, TypeOK
        <4>2. QED
          BY <2>1, <4>1, DoneRecord
      <3>2. ASSUME NEW o \in {"delivered", "transient", "permanent"}, HandlerSettles(w, a, o)
            PROVE  b \in active[v] \/ (v = w /\ b.job = a.job)
        <4>1. b \in active[v] \/ (v = w /\ b = [a EXCEPT !.phase = o])
          BY <2>3, <3>2 DEF HandlerSettles, TypeOK
        <4>2. o \in Phase
          BY DEF Phase
        <4>3. [a EXCEPT !.phase = o].job = a.job
          BY <2>1, <4>2, PhaseRecord
        <4>4. QED
          BY <4>1, <4>3
      <3>3. CASE HandlerDeadline(w, a)
        <4>1. b \in active[v] \/ (v = w /\ b = [a EXCEPT !.phase = "transient"])
          BY <2>3, <3>3 DEF HandlerDeadline, TypeOK
        <4>2. [a EXCEPT !.phase = "transient"].job = a.job
          BY <2>1, PhaseRecord DEF Phase
        <4>3. QED
          BY <4>1, <4>2
      <3>4. CASE LoseLease(w, a) \/ AbortJob(w, a) \/ Settle(w, a) \/ SettleThrows(w, a)
        BY <2>3, <3>4 DEF LoseLease, AbortJob, Settle, SettleThrows, Drop, TypeOK
      <3>5. QED
        BY <1>5, <3>1, <3>2, <3>3, <3>4 DEF RunStep
    <2>4. QED
      BY <2>2, <2>3 DEF JobsOf
  <1>6. ASSUME NEW w \in Worker, EmptyPoll(w) \/ Shutdown(w) \/ Restart(w) \/ Crash(w)
        PROVE  \A v \in Worker : JobsOf(v)' \subseteq JobsOf(v)
    <2>1. CASE EmptyPoll(w) \/ Shutdown(w)
      BY <1>1, <2>1 DEF EmptyPoll, Shutdown, vars, jobVars
    <2>2. CASE Restart(w) \/ Crash(w)
      <3>1. \A v \in Worker : waiting'[v] \subseteq waiting[v] /\ active'[v] \subseteq active[v]
        BY <2>2 DEF Restart, Crash, Reset, TypeOK
      <3>2. QED
        BY <3>1 DEF JobsOf
    <2>3. QED
      BY <1>6, <2>1, <2>2
  <1>7. QED
    BY <1>2, <1>3, <1>4, <1>5, <1>6 DEF Next

\* Only the holder of its lease takes a row out of "leased".
LEMMA WhoSettles ==
  ASSUME TypeOK, TableInv, [Next]_vars, NEW s \in Seqs, status[s] = "leased", status'[s] # "leased"
  PROVE  \E w \in Worker : \E a \in active[w] :
            /\ a.job.seq = s /\ Owns(a.job)
            /\ a.phase # "dispatch" /\ SettleRow(a)
            /\ Settle(w, a) \/ SettleThrows(w, a)
  <1> DEFINE Goal == \E w \in Worker : \E a \in active[w] :
            /\ a.job.seq = s /\ Owns(a.job)
            /\ a.phase # "dispatch" /\ SettleRow(a)
            /\ Settle(w, a) \/ SettleThrows(w, a)
  <1>1. s < nextSeq /\ status \in [Seqs -> Status]
    BY DEF TableInv, AllocationInv, TypeOK, RowTypeOK
  <1>2. status' # status
    OBVIOUS
  <1>3. CASE Produce
    <2>1. ASSUME NEW k \in Key, Stage(k) PROVE FALSE
      <3>1. status'[s] = status[s]
        BY <1>1, <2>1 DEF Stage, TypeOK, RowTypeOK
      <3>2. QED
        BY <3>1
    <2>2. ASSUME NEW t \in Seqs, Commit(t) \/ Rollback(t) PROVE FALSE
      BY <1>1, <2>2 DEF Commit, Rollback
    <2>3. QED
      BY <1>3, <2>1, <2>2 DEF Produce
  <1>4. CASE Administer
    BY <1>1, <1>4 DEF Administer, ReplayDeadLetters, PurgeProcessed
  <1>5. CASE (\E t \in Seqs : TimePasses(t)) \/ (\E z \in zombies : ZombieEffect(z))
    BY <1>2, <1>5 DEF TimePasses, Ripen, ZombieEffect, rowVars
  <1>6. ASSUME NEW w \in Worker, NEW S \in SUBSET Seqs, Claim(w, S) PROVE FALSE
    BY <1>1, <1>6 DEF Claim, ClaimRows
  <1>7. ASSUME NEW w \in Worker, NEW j \in waiting[w], StartJob(w, j) \/ SkipJob(w, j) PROVE FALSE
    BY <1>2, <1>7 DEF StartJob, SkipJob, rowVars
  <1>8. ASSUME NEW w \in Worker, NEW a \in active[w], RunStep(w, a) PROVE Goal
    <2>1. /\ a.phase # "dispatch" /\ SettleRow(a)
          /\ Settle(w, a) \/ SettleThrows(w, a)
      <3>1. Settle(w, a) \/ SettleThrows(w, a)
        BY <1>2, <1>8 DEF RunStep, HandlerEffect, HandlerSettles, HandlerDeadline, LoseLease, AbortJob,
                          rowVars
      <3>2. QED
        BY <1>2, <3>1 DEF Settle, SettleThrows, rowVars
    <2>2. Owns(a.job)
      BY <1>2, <2>1 DEF SettleRow, rowVars
    <2>3. \/ AcknowledgeRow(a.job.seq)
          \/ DeadLetterRow(a.job.seq)
          \/ RetryRow(a.job.seq)
      BY <2>1, <2>2 DEF SettleRow
    <2>4. a.job.seq = s
      BY <1>1, <2>3 DEF AcknowledgeRow, DeadLetterRow, RetryRow
    <2>5. QED
      BY <2>1, <2>2, <2>4
  <1>9. ASSUME NEW w \in Worker, EmptyPoll(w) \/ Shutdown(w) \/ Restart(w) \/ Crash(w) PROVE FALSE
    BY <1>2, <1>9 DEF EmptyPoll, Shutdown, Restart, Crash, Reset, vars, rowVars
  <1>10. CASE UNCHANGED vars
    BY <1>2, <1>10 DEF vars, rowVars
  <1>11. QED
    BY <1>3, <1>4, <1>5, <1>6, <1>7, <1>8, <1>9, <1>10 DEF Next

\* A row is processed or purged only if it was before or was leased.
LEMMA WhenClosed ==
  ASSUME RowTypeOK, RowAction, NEW s \in Seqs, status'[s] \in {"processed", "purged"}
  PROVE  status[s] \in {"processed", "purged", "leased"}
  <1> USE DEF RowTypeOK
  <1>1. ASSUME NEW k \in Key, Stage(k) PROVE status[s] \in {"processed", "purged"}
    BY <1>1 DEF Stage
  <1>2. ASSUME NEW S \in SUBSET Seqs, ClaimRows(S) \/ ReplayDeadLetters(S) \/ PurgeProcessed(S)
        PROVE  status[s] \in {"processed", "purged"}
    BY <1>2 DEF ClaimRows, ReplayDeadLetters, PurgeProcessed
  <1>3. ASSUME NEW t \in Seqs, Commit(t) \/ Rollback(t) \/ Ripen(t)
        PROVE  status[s] \in {"processed", "purged"}
    BY <1>3 DEF Commit, Rollback, Ripen
  <1>4. ASSUME NEW t \in Seqs, status[t] = "leased",
               AcknowledgeRow(t) \/ RetryRow(t) \/ DeadLetterRow(t)
        PROVE  status[s] \in {"processed", "purged", "leased"}
    BY <1>4 DEF AcknowledgeRow, RetryRow, DeadLetterRow
  <1>5. CASE UNCHANGED rowVars
    BY <1>5 DEF rowVars
  <1>6. QED
    BY <1>1, <1>2, <1>3, <1>4, <1>5 DEF RowAction

\* Effects are never undone.
LEMMA DeliveredGrows ==
  ASSUME [Next]_vars
  PROVE  delivered \subseteq delivered'
  BY DEF Next, vars, jobVars, Produce, Administer, TimePasses, ZombieEffect, Claim, EmptyPoll,
         StartJob, SkipJob, RunStep, HandlerEffect, HandlerSettles, HandlerDeadline, LoseLease,
         Settle, SettleThrows, AbortJob, Shutdown, Restart, Crash, Reset

\* An activity after a step: its flags never claim more than what happened.
LEMMA ActivityStep ==
  ASSUME TypeOK, WorkInv, [Next]_vars, NEW v \in Worker, NEW b \in active'[v]
  PROVE  /\ b.done => b.job.seq \in delivered'
         /\ b.phase = "delivered" => b.done
  <1> DEFINE Sound == /\ b.done => b.job.seq \in delivered'
                      /\ b.phase = "delivered" => b.done
  <1>0. delivered \subseteq delivered'
    BY DeliveredGrows
  <1>1. CASE b \in active[v]
    BY <1>0, <1>1 DEF WorkInv, JobInv
  <1>2. CASE Produce \/ Administer \/ UNCHANGED vars
    BY <1>1, <1>2 DEF Produce, Administer, vars, jobVars
  <1>3. CASE (\E s \in Seqs : TimePasses(s)) \/ (\E z \in zombies : ZombieEffect(z))
    BY <1>1, <1>3 DEF TimePasses, ZombieEffect
  <1>4. ASSUME NEW w \in Worker, NEW S \in SUBSET Seqs, Claim(w, S) PROVE Sound
    BY <1>1, <1>4 DEF Claim
  <1>5. ASSUME NEW w \in Worker, NEW j \in waiting[w], StartJob(w, j) \/ SkipJob(w, j) PROVE Sound
    <2>1. b \in active[v] \/ b = [job |-> j, phase |-> "dispatch", done |-> FALSE]
      BY <1>5 DEF StartJob, SkipJob, TypeOK
    <2>2. QED
      BY <1>1, <2>1
  <1>6. ASSUME NEW w \in Worker, NEW a \in active[w], RunStep(w, a) PROVE Sound
    <2>1. /\ a \in Activity
          /\ a.done => a.job.seq \in delivered
      BY DEF TypeOK, WorkInv, JobInv
    <2>2. CASE HandlerEffect(w, a)
      <3>1. b \in active[v] \/ b = [a EXCEPT !.done = TRUE]
        BY <2>2 DEF HandlerEffect, TypeOK
      <3>2. a.job.seq \in delivered' /\ a.phase = "dispatch"
        BY <2>2 DEF HandlerEffect
      <3>3. CASE b = [a EXCEPT !.done = TRUE]
        <4>1. b.job = a.job /\ b.done /\ b.phase = a.phase
          BY <2>1, <3>3, DoneRecord
        <4>2. QED
          BY <3>2, <4>1
      <3>4. QED
        BY <1>1, <3>1, <3>3
    <2>3. ASSUME NEW o \in {"delivered", "transient", "permanent"}, HandlerSettles(w, a, o)
          PROVE  Sound
      <3>1. b \in active[v] \/ b = [a EXCEPT !.phase = o]
        BY <2>3 DEF HandlerSettles, TypeOK
      <3>2. o = "delivered" => a.done
        BY <2>3 DEF HandlerSettles
      <3>3. CASE b = [a EXCEPT !.phase = o]
        <4>1. o \in Phase
          BY DEF Phase
        <4>2. b.job = a.job /\ b.done = a.done /\ b.phase = o
          BY <2>1, <3>3, <4>1, PhaseRecord
        <4>3. QED
          BY <1>0, <2>1, <3>2, <4>2
      <3>4. QED
        BY <1>1, <3>1, <3>3
    <2>4. CASE HandlerDeadline(w, a)
      <3>1. b \in active[v] \/ b = [a EXCEPT !.phase = "transient"]
        BY <2>4 DEF HandlerDeadline, TypeOK
      <3>2. CASE b = [a EXCEPT !.phase = "transient"]
        <4>1. b.job = a.job /\ b.done = a.done /\ b.phase = "transient"
          BY <2>1, <3>2, PhaseRecord DEF Phase
        <4>2. QED
          BY <1>0, <2>1, <4>1
      <3>3. QED
        BY <1>1, <3>1, <3>2
    <2>5. CASE LoseLease(w, a) \/ AbortJob(w, a) \/ Settle(w, a) \/ SettleThrows(w, a)
      <3>1. b \in active[v]
        BY <2>5 DEF LoseLease, AbortJob, Settle, SettleThrows, Drop, TypeOK
      <3>2. QED
        BY <1>1, <3>1
    <2>6. QED
      BY <1>6, <2>2, <2>3, <2>4, <2>5 DEF RunStep
  <1>7. ASSUME NEW w \in Worker, EmptyPoll(w) \/ Shutdown(w) \/ Restart(w) \/ Crash(w) PROVE Sound
    <2>1. b \in active[v]
      BY <1>7 DEF EmptyPoll, Shutdown, Restart, Crash, Reset, TypeOK, vars, jobVars
    <2>2. QED
      BY <1>1, <2>1
  <1>8. QED
    BY <1>2, <1>3, <1>4, <1>5, <1>6, <1>7 DEF Next

\* A claimed job carries a lease nobody had before it.
LEMMA ClaimKeepsJobs ==
  ASSUME TypeOK, TypeOK', WorkInv, NEW w \in Worker, NEW S \in SUBSET Seqs, Claim(w, S)
  PROVE  LeaseInv' /\ \A v \in Worker : \A j \in JobsOf(v)' :
                         /\ 0 < j.lease /\ j.lease <= issued'[j.seq]
                         /\ status'[j.seq] = "leased" /\ lease'[j.seq] = j.lease =>
                              attempt'[j.seq] = j.attempt
  <1> DEFINE New(s) == [seq |-> s, lease |-> lease'[s], attempt |-> attempt'[s]]
  <1>1. \A s \in S : issued'[s] = issued[s] + 1 /\ lease'[s] = issued[s] + 1 /\ s \in Seqs
    BY DEF Claim, ClaimRows
  <1>2. \A s \in Seqs \ S : /\ issued'[s] = issued[s] /\ lease'[s] = lease[s]
                            /\ attempt'[s] = attempt[s] /\ status'[s] = status[s]
    BY DEF Claim, ClaimRows
  <1>3. \A v \in Worker : \A j \in JobsOf(v)' : j \in JobsOf(v) \/ (v = w /\ \E s \in S : j = New(s))
    <2>1. active' = active
      BY DEF Claim
    <2>2. \A v \in Worker : \A j \in waiting'[v] :
             j \in waiting[v] \/ (v = w /\ \E s \in S : j = New(s))
      BY DEF Claim, TypeOK
    <2>3. QED
      BY <2>1, <2>2 DEF JobsOf
  <1>4. issued \in [Seqs -> Nat] /\ lease \in [Seqs -> Nat]
    BY DEF TypeOK, RowTypeOK
  <1>5. \A v \in Worker : \A j \in JobsOf(v) : j \in Job /\ 0 < j.lease /\ j.lease <= issued[j.seq]
    <2>1. \A v \in Worker : JobsOf(v) \subseteq Job
      BY DEF JobsOf, TypeOK, Activity
    <2>2. QED
      BY <2>1 DEF WorkInv, JobInv
  <1>6. ASSUME NEW v \in Worker, NEW j \in JobsOf(v)'
        PROVE  /\ 0 < j.lease /\ j.lease <= issued'[j.seq]
               /\ status'[j.seq] = "leased" /\ lease'[j.seq] = j.lease => attempt'[j.seq] = j.attempt
    <2>1. CASE \E s \in S : j = New(s)
      <3>1. PICK s \in S : j = New(s)
        BY <2>1
      <3>2. j.seq = s /\ j.lease = lease'[s] /\ j.attempt = attempt'[s]
        BY <3>1
      <3>3. QED
        BY <1>1, <1>4, <3>2
    <2>2. CASE j \in JobsOf(v)
      <3>1. j \in Job /\ j.seq \in Seqs /\ j.lease \in Nat
        BY <1>5, <2>2 DEF Job
      <3>2. CASE j.seq \in S
        BY <1>1, <1>4, <1>5, <2>2, <3>1, <3>2
      <3>3. CASE j.seq \notin S
        BY <1>2, <1>5, <2>2, <3>1, <3>3 DEF WorkInv, JobInv
      <3>4. QED
        BY <3>2, <3>3
    <2>3. QED
      BY <1>3, <2>1, <2>2
  <1>7. ASSUME NEW u \in Worker, NEW v \in Worker, NEW i \in JobsOf(u)', NEW j \in JobsOf(v)',
               i.seq = j.seq, i.lease = j.lease
        PROVE  u = v /\ i = j
    <2>1. ASSUME NEW s \in S, NEW x \in Worker, NEW k \in JobsOf(x), k.seq = s, k.lease = lease'[s]
          PROVE  FALSE
      BY <1>1, <1>4, <1>5, <2>1 DEF Job
    <2>2. CASE i \in JobsOf(u) /\ j \in JobsOf(v)
      BY <1>7, <2>2 DEF WorkInv, LeaseInv
    <2>3. CASE i \in JobsOf(u) /\ \E s \in S : j = New(s)
      BY <1>7, <2>1, <2>3
    <2>4. CASE j \in JobsOf(v) /\ \E s \in S : i = New(s)
      BY <1>7, <2>1, <2>4
    <2>5. CASE u = w /\ v = w /\ (\E s \in S : i = New(s)) /\ (\E s \in S : j = New(s))
      BY <1>7, <2>5
    <2>6. QED
      BY <1>3, <2>2, <2>3, <2>4, <2>5
  <1>8. LeaseInv'
    BY <1>7 DEF LeaseInv
  <1>9. QED
    BY <1>6, <1>8

\* Only handlers of claimed rows run, before and after a step.
LEMMA EffectStep ==
  ASSUME TypeOK, WorkInv, [Next]_vars
  PROVE  EffectInv'
  <1>1. \A s \in Seqs : issued[s] > 0 => issued'[s] > 0
    BY NextIsRowAction, NextTypeOK, OldLease DEF TypeOK, RowTypeOK
  <1>2. \A w \in Worker : \A a \in active[w] : a.job.seq \in Seqs /\ issued[a.job.seq] > 0
    <2> SUFFICES ASSUME NEW w \in Worker, NEW a \in active[w]
                 PROVE  a.job.seq \in Seqs /\ issued[a.job.seq] > 0
      OBVIOUS
    <2>1. a.job \in Job /\ a.job \in JobsOf(w)
      BY DEF TypeOK, Activity, JobsOf
    <2>2. 0 < a.job.lease /\ a.job.lease <= issued[a.job.seq]
      BY <2>1 DEF WorkInv, JobInv
    <2>3. QED
      BY <2>1, <2>2 DEF Job, TypeOK, RowTypeOK
  <1>3. /\ \A z \in zombies : z[2] \in Seqs /\ issued[z[2]] > 0
        /\ \A s \in delivered : s \in Seqs /\ issued[s] > 0
    BY DEF WorkInv, EffectInv, TypeOK
  <1>4. \/ zombies' \subseteq zombies /\ delivered' = delivered
        \/ \E z \in zombies : zombies' \subseteq zombies /\ delivered' = delivered \cup {z[2]}
        \/ \E w \in Worker : \E a \in active[w] :
              /\ zombies' \subseteq zombies \cup {<<w, a.job.seq>>}
              /\ delivered' \subseteq delivered \cup {a.job.seq}
    <2>1. CASE Produce \/ Administer \/ UNCHANGED vars \/ \E s \in Seqs : TimePasses(s)
      BY <2>1 DEF Produce, Administer, TimePasses, vars, jobVars
    <2>2. CASE \E z \in zombies : ZombieEffect(z)
      BY <2>2 DEF ZombieEffect
    <2>3. ASSUME NEW w \in Worker, NEW S \in SUBSET Seqs, Claim(w, S)
          PROVE  zombies' = zombies /\ delivered' = delivered
      BY <2>3 DEF Claim
    <2>4. ASSUME NEW w \in Worker, NEW j \in waiting[w], StartJob(w, j) \/ SkipJob(w, j)
          PROVE  zombies' = zombies /\ delivered' = delivered
      BY <2>4 DEF StartJob, SkipJob
    <2>5. ASSUME NEW w \in Worker, NEW a \in active[w], RunStep(w, a)
          PROVE  /\ zombies' \subseteq zombies \cup {<<w, a.job.seq>>}
                 /\ delivered' \subseteq delivered \cup {a.job.seq}
      BY <2>5 DEF RunStep, HandlerEffect, HandlerSettles, HandlerDeadline, LoseLease, Settle,
                  SettleThrows, AbortJob, Drop
    <2>6. ASSUME NEW w \in Worker, EmptyPoll(w) \/ Shutdown(w) \/ Restart(w) \/ Crash(w)
          PROVE  zombies' \subseteq zombies /\ delivered' = delivered
      BY <2>6 DEF EmptyPoll, Shutdown, Restart, Crash, Reset, vars, jobVars
    <2>7. QED
      BY <2>1, <2>2, <2>3, <2>4, <2>5, <2>6 DEF Next
  <1>5. \A z \in zombies' : z[2] \in Seqs /\ issued[z[2]] > 0
    BY <1>2, <1>3, <1>4
  <1>6. \A s \in delivered' : s \in Seqs /\ issued[s] > 0
    BY <1>2, <1>3, <1>4
  <1>7. QED
    BY <1>1, <1>5, <1>6 DEF EffectInv

\* Every step keeps what is known of the jobs of all workers.
LEMMA WorkStep ==
  ASSUME TypeOK, TableInv, WorkInv, [Next]_vars
  PROVE  WorkInv'
  <1>1. TypeOK' /\ RowAction /\ delivered \subseteq delivered' /\ EffectInv'
    BY NextTypeOK, NextIsRowAction, DeliveredGrows, EffectStep
  <1>2. LeaseInv' /\ \A v \in Worker : \A j \in JobsOf(v)' :
           /\ 0 < j.lease /\ j.lease <= issued'[j.seq]
           /\ status'[j.seq] = "leased" /\ lease'[j.seq] = j.lease => attempt'[j.seq] = j.attempt
    <2>1. CASE \E w \in Worker, S \in SUBSET Seqs : Claim(w, S)
      BY <1>1, <2>1, ClaimKeepsJobs
    <2>2. CASE \A w \in Worker, S \in SUBSET Seqs : ~Claim(w, S)
      <3>1. \A w \in Worker : JobsOf(w)' \subseteq JobsOf(w)
        BY <2>2, JobsShrink
      <3>2. LeaseInv'
        BY <3>1 DEF WorkInv, LeaseInv
      <3>3. ASSUME NEW v \in Worker, NEW j \in JobsOf(v)
            PROVE  /\ 0 < j.lease /\ j.lease <= issued'[j.seq]
                   /\ status'[j.seq] = "leased" /\ lease'[j.seq] = j.lease =>
                        attempt'[j.seq] = j.attempt
        <4>1. j.seq \in Seqs /\ j.lease \in Nat
          BY DEF JobsOf, TypeOK, Activity, Job
        <4>2. /\ 0 < j.lease /\ j.lease <= issued[j.seq]
              /\ status[j.seq] = "leased" /\ lease[j.seq] = j.lease => attempt[j.seq] = j.attempt
          BY DEF WorkInv, JobInv
        <4>3. /\ issued[j.seq] <= issued'[j.seq]
              /\ j.lease <= issued[j.seq] /\ status'[j.seq] = "leased" /\ lease'[j.seq] = j.lease =>
                   /\ status[j.seq] = "leased" /\ lease[j.seq] = j.lease
                   /\ attempt'[j.seq] = attempt[j.seq]
          BY <1>1, <4>1, OldLease DEF TypeOK
        <4>4. issued[j.seq] \in Nat /\ issued'[j.seq] \in Nat
          BY <1>1, <4>1 DEF TypeOK, RowTypeOK
        <4>5. QED
          BY <4>1, <4>2, <4>3, <4>4
      <3>4. QED
        BY <3>1, <3>2, <3>3
    <2>3. QED
      BY <2>1, <2>2
  <1>3. JobInv'
    BY <1>2, ActivityStep DEF JobInv
  <1>4. ASSUME NEW s \in Seqs, status'[s] \in {"processed", "purged"}
        PROVE  s \in delivered'
    <2>1. CASE status[s] \in {"processed", "purged"}
      BY <1>1, <2>1 DEF WorkInv
    <2>2. CASE status[s] = "leased"
      <3>1. PICK w \in Worker : \E a \in active[w] :
               /\ a.job.seq = s /\ Owns(a.job)
               /\ a.phase # "dispatch" /\ SettleRow(a)
        BY <1>4, <2>2, WhoSettles
      <3>2. PICK a \in active[w] :
               /\ a.job.seq = s /\ Owns(a.job)
               /\ a.phase # "dispatch" /\ SettleRow(a)
        BY <3>1
      <3>3. a.phase = "delivered"
        BY <1>4, <3>2 DEF SettleRow, DeadLetterRow, RetryRow, TypeOK, RowTypeOK
      <3>4. QED
        BY <1>1, <3>2, <3>3 DEF WorkInv, JobInv
    <2>3. QED
      BY <1>1, <1>4, <2>1, <2>2, WhenClosed DEF TypeOK
  <1>5. QED
    BY <1>1, <1>2, <1>3, <1>4 DEF WorkInv

-----------------------------------------------------------------------------
(* The inductive invariant: faults, attempts and lost leases *)

\* The parts of OutboxInv that count faults.
CareInv == AttemptInv /\ PlaceInv /\ HealthyInv

\* A step counts one fault or none.
LEMMA FaultsCount ==
  ASSUME TypeOK, [Next]_vars
  PROVE  faults' = faults \/ faults' = faults + 1
  BY DEF Next, vars, jobVars, Produce, Administer, TimePasses, ZombieEffect, Claim, EmptyPoll,
         StartJob, SkipJob, RunStep, HandlerEffect, HandlerSettles, HandlerDeadline, LoseLease,
         Settle, SettleThrows, AbortJob, Shutdown, Restart, Crash, Reset, Fault

\* A job holds its lease on until its row is settled or a fault is counted.
LEMMA OwnsStays ==
  ASSUME TypeOK, TableInv, [Next]_vars, faults' = faults,
         NEW w \in Worker, NEW j \in JobsOf(w), Owns(j), status'[j.seq] = "leased"
  PROVE  Owns(j)'
  <1>1. PICK s \in Seqs : s = j.seq
    BY DEF JobsOf, TypeOK, Activity, Job
  <1>2. status[s] = "leased" /\ lease[s] = j.lease /\ ~ripe[s] /\ status'[s] = "leased"
    BY <1>1 DEF Owns, HoldsLease
  <1>3. SUFFICES lease'[s] = lease[s] /\ ripe'[s] = ripe[s]
    BY <1>1, <1>2 DEF Owns, HoldsLease
  <1> USE DEF RowTypeOK
  <1>4. CASE UNCHANGED rowVars
    BY <1>4 DEF rowVars
  <1>5. CASE Produce
    <2>1. ASSUME NEW t \in Seqs, Commit(t) PROVE lease'[s] = lease[s] /\ ripe'[s] = ripe[s]
      BY <1>2, <2>1 DEF Commit, TypeOK
    <2>2. QED
      BY <1>5, <2>1 DEF Produce, Stage, Rollback
  <1>6. CASE Administer
    <2>1. ASSUME NEW S \in SUBSET Seqs, ReplayDeadLetters(S) PROVE lease'[s] = lease[s] /\ ripe'[s] = ripe[s]
      BY <1>2, <2>1 DEF ReplayDeadLetters, TypeOK
    <2>2. ASSUME NEW S \in SUBSET Seqs, PurgeProcessed(S) PROVE lease'[s] = lease[s] /\ ripe'[s] = ripe[s]
      BY <2>2 DEF PurgeProcessed
    <2>3. QED
      BY <1>6, <2>1, <2>2 DEF Administer
  <1>7. ASSUME NEW t \in Seqs, TimePasses(t) PROVE lease'[s] = lease[s] /\ ripe'[s] = ripe[s]
    <2>1. Held(s)
      BY <1>1 DEF Held, JobsOf
    <2>2. t # s
      BY <1>7, <2>1 DEF TimePasses, Fault, TypeOK
    <2>3. QED
      BY <1>7, <2>2 DEF TimePasses, Ripen, TypeOK
  <1>8. ASSUME NEW v \in Worker, NEW S \in SUBSET Seqs, Claim(v, S)
        PROVE  lease'[s] = lease[s] /\ ripe'[s] = ripe[s]
    <2>1. s \notin S
      BY <1>2, <1>8 DEF Claim, ClaimRows, Claimable
    <2>2. QED
      BY <1>8, <2>1 DEF Claim, ClaimRows
  <1>9. ASSUME NEW v \in Worker, NEW a \in active[v], SettleRow(a)
        PROVE  lease'[s] = lease[s] /\ ripe'[s] = ripe[s]
    <2>1. a.job.seq \in Seqs
      BY DEF TypeOK, Activity, Job
    <2>2. CASE UNCHANGED rowVars
      BY <1>4, <2>2
    <2>3. ASSUME AcknowledgeRow(a.job.seq) \/ DeadLetterRow(a.job.seq) \/ RetryRow(a.job.seq)
          PROVE  lease'[s] = lease[s] /\ ripe'[s] = ripe[s]
      <3>1. s # a.job.seq
        BY <1>2, <2>1, <2>3 DEF AcknowledgeRow, DeadLetterRow, RetryRow, TypeOK
      <3>2. QED
        BY <2>1, <2>3, <3>1 DEF AcknowledgeRow, DeadLetterRow, RetryRow, TypeOK
    <2>4. QED
      BY <1>9, <2>2, <2>3 DEF SettleRow
  <1>10. ASSUME NEW v \in Worker, NEW a \in active[v], RunStep(v, a)
         PROVE  lease'[s] = lease[s] /\ ripe'[s] = ripe[s]
    BY <1>4, <1>9, <1>10 DEF RunStep, HandlerEffect, HandlerSettles, HandlerDeadline, LoseLease,
                             Settle, SettleThrows, AbortJob
  <1>11. ASSUME NEW v \in Worker,
                EmptyPoll(v) \/ Shutdown(v) \/ Restart(v) \/ Crash(v)
                  \/ \E i \in waiting[v] : StartJob(v, i) \/ SkipJob(v, i)
         PROVE  UNCHANGED rowVars
    BY <1>11 DEF EmptyPoll, Shutdown, Restart, Crash, Reset, StartJob, SkipJob, vars
  <1>12. (\E z \in zombies : ZombieEffect(z)) \/ UNCHANGED vars => UNCHANGED rowVars
    BY DEF ZombieEffect, vars
  <1>13. QED
    BY <1>4, <1>5, <1>6, <1>7, <1>8, <1>10, <1>11, <1>12 DEF Next

\* A worker that goes on keeps a job that holds its lease until its row is settled or a
\* fault is counted.
LEMMA JobStays ==
  ASSUME TypeOK, [Next]_vars, faults' = faults,
         NEW w \in Worker, ~stopping[w], NEW j \in JobsOf(w), Owns(j), status'[j.seq] = "leased"
  PROVE  ~stopping'[w] /\ j \in JobsOf(w)'
  <1> DEFINE Goal == ~stopping'[w] /\ j \in JobsOf(w)'
  <1>0. j \in Job /\ j.seq \in Seqs
    BY DEF JobsOf, TypeOK, Activity, Job
  <1>1. CASE UNCHANGED <<waiting, active, stopping>>
    BY <1>1 DEF JobsOf
  <1>2. CASE Produce \/ Administer \/ UNCHANGED vars
    BY <1>1, <1>2 DEF Produce, Administer, vars, jobVars
  <1>3. CASE (\E s \in Seqs : TimePasses(s)) \/ (\E z \in zombies : ZombieEffect(z))
    BY <1>1, <1>3 DEF TimePasses, ZombieEffect
  <1>4. ASSUME NEW v \in Worker, NEW S \in SUBSET Seqs, Claim(v, S) PROVE Goal
    <2>1. v # w
      BY <1>4 DEF Claim, Idle, JobsOf
    <2>2. waiting'[w] = waiting[w] /\ active' = active /\ stopping' = stopping
      BY <1>4, <2>1 DEF Claim, TypeOK
    <2>3. QED
      BY <2>2 DEF JobsOf
  <1>5. ASSUME NEW v \in Worker, NEW i \in waiting[v], StartJob(v, i) PROVE Goal
    <2>1. stopping' = stopping
      BY <1>5 DEF StartJob
    <2>2. CASE v = w
      <3>1. /\ waiting'[w] = waiting[w] \ {i}
            /\ active'[w] = active[w] \cup {[job |-> i, phase |-> "dispatch", done |-> FALSE]}
        BY <1>5, <2>2 DEF StartJob, TypeOK
      <3>2. [job |-> i, phase |-> "dispatch", done |-> FALSE].job = i
        OBVIOUS
      <3>3. i \in JobsOf(w)' /\ \A b \in active[w] : b.job \in JobsOf(w)'
        BY <3>1, <3>2 DEF JobsOf
      <3>4. \A k \in waiting[w] : k \in JobsOf(w)'
        BY <3>1, <3>3 DEF JobsOf
      <3>5. j \in JobsOf(w)'
        BY <3>3, <3>4 DEF JobsOf
      <3>6. QED
        BY <2>1, <3>5
    <2>3. CASE v # w
      <3>1. waiting'[w] = waiting[w] /\ active'[w] = active[w]
        BY <1>5, <2>3 DEF StartJob, TypeOK
      <3>2. QED
        BY <2>1, <3>1 DEF JobsOf
    <2>4. QED
      BY <2>2, <2>3
  <1>6. ASSUME NEW v \in Worker, NEW i \in waiting[v], SkipJob(v, i) PROVE Goal
    <2>1. v # w
      BY <1>6 DEF SkipJob
    <2>2. waiting'[w] = waiting[w] /\ active' = active /\ stopping' = stopping
      BY <1>6, <2>1 DEF SkipJob, TypeOK
    <2>3. QED
      BY <2>2 DEF JobsOf
  <1>7. ASSUME NEW v \in Worker, NEW a \in active[v], RunStep(v, a) PROVE Goal
    <2>1. a \in Activity /\ a.job \in Job /\ a.job.seq \in Seqs
      BY DEF TypeOK, Activity, Job
    <2>2. waiting' = waiting /\ stopping' = stopping
      BY <1>7 DEF RunStep, HandlerEffect, HandlerSettles, HandlerDeadline, LoseLease, Settle,
                  SettleThrows, AbortJob
    <2>3. ASSUME NEW b \in Activity, b.job = a.job,
                 active' = [active EXCEPT ![v] = (@ \ {a}) \cup {b}]
          PROVE  Goal
      <3>1. \A c \in active[w] : \E d \in active'[w] : d.job = c.job
        BY <2>3 DEF TypeOK
      <3>2. QED
        BY <2>2, <3>1 DEF JobsOf
    <2>4. ASSUME active' = [active EXCEPT ![v] = @ \ {a}], v = w => j # a.job
          PROVE  Goal
      <3>1. \A c \in active[w] : c \in active'[w] \/ (v = w /\ c = a)
        BY <2>4 DEF TypeOK
      <3>2. QED
        BY <2>2, <2>4, <3>1 DEF JobsOf
    <2>5. CASE HandlerEffect(v, a)
      <3>1. [a EXCEPT !.done = TRUE] \in Activity /\ [a EXCEPT !.done = TRUE].job = a.job
        BY <2>1 DEF Activity
      <3>2. QED
        BY <2>3, <2>5, <3>1 DEF HandlerEffect
    <2>6. ASSUME NEW o \in Phase, active' = [active EXCEPT ![v] = (@ \ {a}) \cup {[a EXCEPT !.phase = o]}]
          PROVE  Goal
      <3>1. [a EXCEPT !.phase = o] \in Activity /\ [a EXCEPT !.phase = o].job = a.job
        BY <2>1 DEF Activity
      <3>2. QED
        BY <2>3, <2>6, <3>1
    <2>7. CASE HandlerDeadline(v, a) \/ \E o \in {"delivered", "transient", "permanent"} : HandlerSettles(v, a, o)
      BY <2>6, <2>7 DEF HandlerDeadline, HandlerSettles, Phase
    <2>8. CASE LoseLease(v, a)
      <3>1. ~Owns(a.job)
        BY <2>8 DEF LoseLease, Fault, TypeOK
      <3>2. QED
        BY <2>4, <2>8, <3>1 DEF LoseLease, Drop
    <2>9. CASE Settle(v, a)
      <3>1. j # a.job
        <4>1. CASE ~Owns(a.job)
          BY <4>1
        <4>2. CASE Owns(a.job)
          <5>1. status'[a.job.seq] # "leased"
            BY <2>1, <2>9, <4>2 DEF Settle, SettleRow, AcknowledgeRow, DeadLetterRow, RetryRow, TypeOK, RowTypeOK
          <5>2. QED
            BY <5>1
        <4>3. QED
          BY <4>1, <4>2
      <3>2. QED
        BY <2>4, <2>9, <3>1 DEF Settle
    <2>10. CASE AbortJob(v, a)
      BY <2>4, <2>10 DEF AbortJob, Drop
    <2>11. CASE SettleThrows(v, a)
      BY <2>11 DEF SettleThrows, Fault, TypeOK
    <2>12. QED
      BY <1>7, <2>5, <2>7, <2>8, <2>9, <2>10, <2>11 DEF RunStep
  <1>8. ASSUME NEW v \in Worker, EmptyPoll(v) \/ Shutdown(v) \/ Restart(v) \/ Crash(v) PROVE Goal
    <2>1. CASE EmptyPoll(v)
      BY <1>1, <2>1 DEF EmptyPoll, vars, jobVars
    <2>2. CASE Shutdown(v) \/ Crash(v)
      BY <2>2 DEF Shutdown, Crash, Fault, TypeOK
    <2>3. CASE Restart(v)
      <3>1. v # w
        BY <2>3 DEF Restart
      <3>2. waiting'[w] = waiting[w] /\ active'[w] = active[w] /\ stopping'[w] = stopping[w]
        BY <2>3, <3>1 DEF Restart, Reset, TypeOK
      <3>3. QED
        BY <3>2 DEF JobsOf
    <2>4. QED
      BY <1>8, <2>1, <2>2, <2>3
  <1>9. QED
    BY <1>2, <1>3, <1>4, <1>5, <1>6, <1>7, <1>8 DEF Next

\* A worker has no job twice.
LEMMA PlaceStep ==
  ASSUME TypeOK, PlaceInv, [Next]_vars
  PROVE  PlaceInv'
  <1>1. CASE \A v \in Worker : waiting'[v] \subseteq waiting[v] /\ active'[v] \subseteq active[v]
    BY <1>1 DEF PlaceInv
  <1>2. CASE Produce \/ Administer \/ UNCHANGED vars
    BY <1>1, <1>2 DEF Produce, Administer, vars, jobVars
  <1>3. CASE (\E s \in Seqs : TimePasses(s)) \/ (\E z \in zombies : ZombieEffect(z))
    BY <1>1, <1>3 DEF TimePasses, ZombieEffect
  <1>4. ASSUME NEW w \in Worker, NEW S \in SUBSET Seqs, Claim(w, S) PROVE PlaceInv'
    <2>1. active' = active /\ active[w] = {} /\ \A v \in Worker : v # w => waiting'[v] = waiting[v]
      BY <1>4 DEF Claim, Idle, TypeOK
    <2>2. QED
      BY <2>1 DEF PlaceInv
  <1>5. ASSUME NEW w \in Worker, NEW j \in waiting[w], StartJob(w, j) PROVE PlaceInv'
    <2> DEFINE started == [job |-> j, phase |-> "dispatch", done |-> FALSE]
    <2>1. started.job = j
      OBVIOUS
    <2>2. /\ waiting'[w] = waiting[w] \ {j}
          /\ active'[w] = active[w] \cup {started}
          /\ \A v \in Worker : v # w => waiting'[v] = waiting[v] /\ active'[v] = active[v]
      BY <1>5 DEF StartJob, TypeOK
    <2> HIDE DEF started
    <2>3. \A b \in active[w] : b.job # j
      BY DEF PlaceInv
    <2>4. QED
      BY <2>1, <2>2, <2>3 DEF PlaceInv
  <1>6. ASSUME NEW w \in Worker, NEW j \in waiting[w], SkipJob(w, j) PROVE PlaceInv'
    BY <1>1, <1>6 DEF SkipJob, TypeOK
  <1>7. ASSUME NEW w \in Worker, NEW a \in active[w], RunStep(w, a) PROVE PlaceInv'
    <2>1. a \in Activity
      BY DEF TypeOK
    <2>2. waiting' = waiting
      BY <1>7 DEF RunStep, HandlerEffect, HandlerSettles, HandlerDeadline, LoseLease, Settle,
                  SettleThrows, AbortJob
    <2>3. ASSUME NEW b, b.job = a.job, active' = [active EXCEPT ![w] = (@ \ {a}) \cup {b}]
          PROVE  PlaceInv'
      <3>1. /\ active'[w] = (active[w] \ {a}) \cup {b}
            /\ \A v \in Worker : v # w => active'[v] = active[v]
        BY <2>3 DEF TypeOK
      <3>2. \A c \in active[w] \ {a} : c.job # b.job
        BY <2>3 DEF PlaceInv
      <3>3. QED
        BY <2>2, <2>3, <3>1, <3>2 DEF PlaceInv
    <2>4. CASE HandlerEffect(w, a)
      <3>1. [a EXCEPT !.done = TRUE].job = a.job
        BY <2>1, DoneRecord
      <3>2. QED
        BY <2>3, <2>4, <3>1 DEF HandlerEffect
    <2>5. ASSUME NEW o \in Phase, active' = [active EXCEPT ![w] = (@ \ {a}) \cup {[a EXCEPT !.phase = o]}]
          PROVE  PlaceInv'
      <3>1. [a EXCEPT !.phase = o].job = a.job
        BY <2>1, PhaseRecord
      <3>2. QED
        BY <2>3, <2>5, <3>1
    <2>6. CASE HandlerDeadline(w, a) \/ \E o \in {"delivered", "transient", "permanent"} : HandlerSettles(w, a, o)
      BY <2>5, <2>6 DEF HandlerDeadline, HandlerSettles, Phase
    <2>7. CASE LoseLease(w, a) \/ AbortJob(w, a) \/ Settle(w, a) \/ SettleThrows(w, a)
      BY <1>1, <2>2, <2>7 DEF LoseLease, AbortJob, Settle, SettleThrows, Drop, TypeOK
    <2>8. QED
      BY <1>7, <2>4, <2>6, <2>7 DEF RunStep
  <1>8. ASSUME NEW w \in Worker, EmptyPoll(w) \/ Shutdown(w) \/ Restart(w) \/ Crash(w) PROVE PlaceInv'
    BY <1>1, <1>8 DEF EmptyPoll, Shutdown, Restart, Crash, Reset, TypeOK, vars, jobVars
  <1>9. QED
    BY <1>2, <1>3, <1>4, <1>5, <1>6, <1>7, <1>8 DEF Next

\* How one row moves in a step: its status and the number of its claims.
LEMMA RowMoves ==
  ASSUME RowTypeOK, RowAction, NEW s \in Seqs
  PROVE  \/ status'[s] = status[s] /\ attempt'[s] = attempt[s]
         \/ status'[s] = "staged" /\ attempt'[s] = attempt[s] /\ s = nextSeq
         \/ status[s] = "staged" /\ status'[s] \in {"pending", "rolled_back"} /\ attempt'[s] = attempt[s]
         \/ /\ status[s] \in Open /\ ripe[s]
            /\ status'[s] = "leased" /\ attempt'[s] = attempt[s] + 1
         \/ /\ status[s] = "leased" /\ status'[s] \in {"processed", "dead_letter", "pending"}
            /\ attempt'[s] = attempt[s]
         \/ status[s] = "dead_letter" /\ status'[s] = "pending" /\ attempt'[s] = 0
         \/ status[s] = "processed" /\ status'[s] = "purged" /\ attempt'[s] = attempt[s]
  <1> USE DEF RowTypeOK
  <1>1. ASSUME NEW k \in Key, Stage(k)
        PROVE  /\ attempt'[s] = attempt[s]
               /\ status'[s] = status[s] \/ (status'[s] = "staged" /\ s = nextSeq)
    BY <1>1 DEF Stage
  <1>2. ASSUME NEW S \in SUBSET Seqs, ClaimRows(S)
        PROVE  \/ status'[s] = status[s] /\ attempt'[s] = attempt[s]
               \/ /\ status[s] \in Open /\ ripe[s]
                  /\ status'[s] = "leased" /\ attempt'[s] = attempt[s] + 1
    BY <1>2 DEF ClaimRows, Claimable
  <1>3. ASSUME NEW S \in SUBSET Seqs, ReplayDeadLetters(S)
        PROVE  \/ status'[s] = status[s] /\ attempt'[s] = attempt[s]
               \/ status[s] = "dead_letter" /\ status'[s] = "pending" /\ attempt'[s] = 0
    BY <1>3 DEF ReplayDeadLetters
  <1>4. ASSUME NEW S \in SUBSET Seqs, PurgeProcessed(S)
        PROVE  /\ attempt'[s] = attempt[s]
               /\ status'[s] = status[s] \/ (status[s] = "processed" /\ status'[s] = "purged")
    BY <1>4 DEF PurgeProcessed
  <1>5. ASSUME NEW t \in Seqs, Commit(t) \/ Rollback(t) \/ Ripen(t)
        PROVE  /\ attempt'[s] = attempt[s]
               /\ \/ status'[s] = status[s]
                  \/ status[s] = "staged" /\ status'[s] \in {"pending", "rolled_back"}
    BY <1>5 DEF Commit, Rollback, Ripen
  <1>6. ASSUME NEW t \in Seqs, status[t] = "leased",
               AcknowledgeRow(t) \/ RetryRow(t) \/ DeadLetterRow(t)
        PROVE  /\ attempt'[s] = attempt[s]
               /\ \/ status'[s] = status[s]
                  \/ status[s] = "leased" /\ status'[s] \in {"processed", "dead_letter", "pending"}
    BY <1>6 DEF AcknowledgeRow, RetryRow, DeadLetterRow
  <1>7. CASE UNCHANGED rowVars
    BY <1>7 DEF rowVars
  <1>8. QED
    BY <1>1, <1>2, <1>3, <1>4, <1>5, <1>6, <1>7 DEF RowAction

\* Only a claim leases a row or counts an attempt of a leased one.
LEMMA OnlyClaimLeases ==
  ASSUME TypeOK, [Next]_vars, NEW s \in Seqs, status'[s] = "leased",
         \A w \in Worker, S \in SUBSET Seqs : Claim(w, S) => s \notin S
  PROVE  status[s] = "leased" /\ attempt'[s] = attempt[s]
  <1> DEFINE Same == status[s] = "leased" /\ attempt'[s] = attempt[s]
  <1>1. RowTypeOK
    BY DEF TypeOK
  <1>2. CASE UNCHANGED rowVars
    BY <1>2 DEF rowVars
  <1>3. ASSUME NEW w \in Worker, NEW S \in SUBSET Seqs, Claim(w, S) PROVE Same
    <2>1. s \notin S
      BY <1>3
    <2>2. QED
      BY <1>1, <1>3, <2>1 DEF Claim, ClaimRows, RowTypeOK
  <1>4. ASSUME NEW k \in Key, Stage(k) PROVE Same
    BY <1>1, <1>4 DEF Stage, RowTypeOK
  <1>5. ASSUME NEW t \in Seqs, Commit(t) \/ Rollback(t) \/ Ripen(t) PROVE Same
    BY <1>1, <1>5 DEF Commit, Rollback, Ripen, RowTypeOK
  <1>6. ASSUME NEW S \in SUBSET Seqs, ReplayDeadLetters(S) PROVE Same
    BY <1>1, <1>6 DEF ReplayDeadLetters, RowTypeOK
  <1>7. ASSUME NEW S \in SUBSET Seqs, PurgeProcessed(S) PROVE Same
    BY <1>1, <1>7 DEF PurgeProcessed, RowTypeOK
  <1>8. ASSUME NEW w \in Worker, NEW a \in active[w], SettleRow(a) PROVE Same
    <2>1. a.job.seq \in Seqs
      BY DEF TypeOK, Activity, Job
    <2>2. ASSUME AcknowledgeRow(a.job.seq) \/ DeadLetterRow(a.job.seq) \/ RetryRow(a.job.seq)
          PROVE  Same
      BY <1>1, <2>1, <2>2 DEF AcknowledgeRow, DeadLetterRow, RetryRow, RowTypeOK
    <2>3. QED
      BY <1>2, <1>8, <2>2 DEF SettleRow
  <1>9. CASE Produce \/ Administer \/ \E t \in Seqs : TimePasses(t)
    BY <1>4, <1>5, <1>6, <1>7, <1>9 DEF Produce, Administer, TimePasses
  <1>10. ASSUME NEW w \in Worker, NEW a \in active[w], RunStep(w, a) PROVE Same
    BY <1>2, <1>8, <1>10 DEF RunStep, HandlerEffect, HandlerSettles, HandlerDeadline, LoseLease,
                             Settle, SettleThrows, AbortJob
  <1>11. ASSUME NEW w \in Worker,
                EmptyPoll(w) \/ Shutdown(w) \/ Restart(w) \/ Crash(w)
                  \/ \E i \in waiting[w] : StartJob(w, i) \/ SkipJob(w, i)
         PROVE  UNCHANGED rowVars
    BY <1>11 DEF EmptyPoll, Shutdown, Restart, Crash, Reset, StartJob, SkipJob, vars
  <1>12. (\E z \in zombies : ZombieEffect(z)) \/ UNCHANGED vars => UNCHANGED rowVars
    BY DEF ZombieEffect, vars
  <1>13. QED
    BY <1>2, <1>3, <1>9, <1>10, <1>11, <1>12 DEF Next

\* The jobs of a batch hold the leases they were claimed with.
LEMMA ClaimedJobsOwn ==
  ASSUME TypeOK, NEW w \in Worker, NEW S \in SUBSET Seqs, Claim(w, S), faults' = faults
  PROVE  /\ ~stopping'[w]
         /\ \A s \in S : \E j \in JobsOf(w)' : j.seq = s
         /\ \A j \in JobsOf(w)' : Owns(j)'
         /\ \A v \in Worker : v # w => JobsOf(v)' = JobsOf(v)
  <1> DEFINE New(s) == [seq |-> s, lease |-> lease'[s], attempt |-> attempt'[s]]
  <1>1. /\ waiting' = [waiting EXCEPT ![w] = {New(s) : s \in S}]
        /\ active' = active /\ active[w] = {} /\ ~stopping'[w]
    BY DEF Claim, Idle, Fault, TypeOK
  <1>2. JobsOf(w)' = {New(s) : s \in S} /\ \A v \in Worker : v # w => JobsOf(v)' = JobsOf(v)
    <2>1. waiting'[w] = {New(s) : s \in S} /\ active'[w] = {}
      BY <1>1 DEF TypeOK
    <2>2. JobsOf(w)' = {New(s) : s \in S}
      BY <2>1 DEF JobsOf
    <2>3. \A v \in Worker : v # w => waiting'[v] = waiting[v] /\ active'[v] = active[v]
      BY <1>1 DEF TypeOK
    <2>4. QED
      BY <2>2, <2>3 DEF JobsOf
  <1>3. \A s \in S : status'[s] = "leased" /\ ~ripe'[s]
    BY DEF Claim, ClaimRows
  <1>4. ASSUME NEW j \in JobsOf(w)' PROVE Owns(j)'
    <2>1. PICK s \in S : j = New(s)
      BY <1>2
    <2>2. j.seq = s /\ j.lease = lease'[s]
      BY <2>1
    <2>3. QED
      BY <1>3, <2>2 DEF Owns, HoldsLease
  <1>5. \A s \in S : New(s).seq = s
    OBVIOUS
  <1>6. QED
    BY <1>1, <1>2, <1>4, <1>5

\* Every claim beyond MaxAttempts is paid for by a fault.
LEMMA AttemptStep ==
  ASSUME TypeOK, TableInv, WorkInv, AttemptInv, [Next]_vars
  PROVE  AttemptInv'
  <1> SUFFICES ASSUME NEW s \in Seqs
               PROVE  /\ status'[s] \in {"none", "staged"} => attempt'[s] = 0
                      /\ status'[s] = "pending" => attempt'[s] < MaxAttempts
                      /\ status'[s] = "leased" /\ ~Working(s)' => attempt'[s] < MaxAttempts + faults'
                      /\ attempt'[s] <= MaxAttempts + faults'
    BY DEF AttemptInv
  <1>1. /\ RowTypeOK /\ RowAction
        /\ faults \in Nat /\ MaxAttempts \in Nat \ {0} /\ attempt[s] \in Nat
        /\ faults' = faults \/ faults' = faults + 1
    BY NextIsRowAction, FaultsCount, WorkerAssumption DEF TypeOK, RowTypeOK
  <1>2. /\ status[s] \in {"none", "staged"} => attempt[s] = 0
        /\ status[s] = "pending" => attempt[s] < MaxAttempts
        /\ status[s] = "leased" /\ ~Working(s) => attempt[s] < MaxAttempts + faults
        /\ attempt[s] <= MaxAttempts + faults
    BY DEF AttemptInv
  <1>3. s = nextSeq => status[s] = "none"
    BY DEF TableInv, AllocationInv, Seqs
  <1>4. ripe[s] => ~Working(s)
    BY DEF Working, Owns, HoldsLease
  <1>5. ASSUME status[s] = "leased", status'[s] = "pending"
        PROVE  attempt[s] < MaxAttempts
    <2>1. PICK w \in Worker : \E a \in active[w] :
             a.job.seq = s /\ Owns(a.job) /\ a.phase # "dispatch" /\ SettleRow(a)
      BY <1>5, WhoSettles
    <2>2. PICK a \in active[w] :
             a.job.seq = s /\ Owns(a.job) /\ a.phase # "dispatch" /\ SettleRow(a)
      BY <2>1
    <2>3. attempt[s] = a.job.attempt
      BY <2>2 DEF WorkInv, JobInv, JobsOf, Owns, HoldsLease
    <2>4. ~GivesUp(a)
      BY <1>1, <1>5, <2>2 DEF SettleRow, AcknowledgeRow, DeadLetterRow, RowTypeOK
    <2>5. QED
      BY <1>1, <2>3, <2>4 DEF GivesUp
  <1>6. /\ status'[s] \in {"none", "staged"} => attempt'[s] = 0
        /\ status'[s] = "pending" => attempt'[s] < MaxAttempts
        /\ attempt'[s] <= MaxAttempts + faults
    <2>1. CASE status[s] = "leased" /\ status'[s] = "pending" /\ attempt'[s] = attempt[s]
      BY <1>1, <1>2, <1>5, <2>1
    <2>2. CASE status[s] \in Open /\ ripe[s] /\ status'[s] = "leased" /\ attempt'[s] = attempt[s] + 1
      BY <1>1, <1>2, <1>4, <2>2 DEF Open
    <2>3. QED
      BY <1>1, <1>2, <1>3, <2>1, <2>2, RowMoves
  <1>7. ASSUME status'[s] = "leased", ~Working(s)'
        PROVE  attempt'[s] < MaxAttempts + faults'
    <2>1. attempt'[s] \in Nat
      BY NextTypeOK DEF TypeOK, RowTypeOK
    <2>2. CASE faults' = faults + 1
      BY <1>1, <1>6, <2>1, <2>2
    <2>3. CASE faults' = faults
      <3>1. \A w \in Worker, S \in SUBSET Seqs : Claim(w, S) => s \notin S
        <4> SUFFICES ASSUME NEW w \in Worker, NEW S \in SUBSET Seqs, Claim(w, S), s \in S PROVE FALSE
          OBVIOUS
        <4>1. /\ ~stopping'[w]
              /\ \E j \in JobsOf(w)' : j.seq = s
              /\ \A j \in JobsOf(w)' : Owns(j)'
          BY <2>3, ClaimedJobsOwn
        <4>2. QED
          BY <1>7, <4>1 DEF Working
      <3>2. status[s] = "leased" /\ attempt'[s] = attempt[s]
        BY <1>7, <3>1, OnlyClaimLeases
      <3>3. ~Working(s)
        <4> SUFFICES ASSUME Working(s) PROVE FALSE
          OBVIOUS
        <4>1. PICK w \in Worker : ~stopping[w] /\ \E j \in JobsOf(w) : j.seq = s /\ Owns(j)
          BY DEF Working
        <4>2. PICK j \in JobsOf(w) : j.seq = s /\ Owns(j)
          BY <4>1
        <4>3. ~stopping'[w] /\ j \in JobsOf(w)' /\ Owns(j)'
          BY <1>7, <2>3, <4>1, <4>2, JobStays, OwnsStays
        <4>4. QED
          BY <1>7, <4>2, <4>3 DEF Working
      <3>4. QED
        BY <1>2, <2>3, <3>2, <3>3
    <2>4. QED
      BY <1>1, <2>2, <2>3
  <1>8. QED
    BY <1>1, <1>6, <1>7, NextTypeOK DEF TypeOK, RowTypeOK

\* Without a replay a dead letter stays one.
LEMMA BuriedStays ==
  ASSUME RowTypeOK, TableInv, RowAction, replays' = 0,
         replays = 0 => \A s \in buried : status[s] = "dead_letter"
  PROVE  \A s \in buried' : status'[s] = "dead_letter"
  <1> USE DEF RowTypeOK
  <1>1. ASSUME replays' = replays, buried' = buried,
               \A s \in buried : status[s] = "dead_letter" => status'[s] = "dead_letter"
        PROVE  \A s \in buried' : status'[s] = "dead_letter"
    BY <1>1
  <1>2. ASSUME NEW k \in Key, Stage(k) PROVE \A s \in buried' : status'[s] = "dead_letter"
    <2>1. replays' = replays /\ buried' = buried /\ \A s \in Seqs : s # nextSeq => status'[s] = status[s]
      BY <1>2 DEF Stage
    <2>2. status[nextSeq] = "none"
      BY <1>2 DEF Stage, TableInv, AllocationInv, Seqs
    <2>3. QED
      BY <1>1, <2>1, <2>2
  <1>3. ASSUME NEW S \in SUBSET Seqs, ClaimRows(S) PROVE \A s \in buried' : status'[s] = "dead_letter"
    BY <1>1, <1>3 DEF ClaimRows, Claimable, Open
  <1>4. ASSUME NEW S \in SUBSET Seqs, ReplayDeadLetters(S) PROVE FALSE
    BY <1>4 DEF ReplayDeadLetters
  <1>5. ASSUME NEW S \in SUBSET Seqs, PurgeProcessed(S) PROVE \A s \in buried' : status'[s] = "dead_letter"
    BY <1>1, <1>5 DEF PurgeProcessed
  <1>6. ASSUME NEW t \in Seqs, Commit(t) \/ Rollback(t) \/ Ripen(t)
        PROVE  \A s \in buried' : status'[s] = "dead_letter"
    BY <1>1, <1>6 DEF Commit, Rollback, Ripen
  <1>7. ASSUME NEW t \in Seqs, status[t] = "leased", AcknowledgeRow(t) \/ RetryRow(t)
        PROVE  \A s \in buried' : status'[s] = "dead_letter"
    BY <1>1, <1>7 DEF AcknowledgeRow, RetryRow
  <1>8. ASSUME NEW t \in Seqs, DeadLetterRow(t) PROVE \A s \in buried' : status'[s] = "dead_letter"
    BY <1>8 DEF DeadLetterRow
  <1>9. CASE UNCHANGED rowVars
    BY <1>1, <1>9 DEF rowVars
  <1>10. QED
    BY <1>2, <1>3, <1>4, <1>5, <1>6, <1>7, <1>8, <1>9 DEF RowAction

\* As long as nothing fails every job holds its lease.
LEMMA HealthyStep ==
  ASSUME TypeOK, TableInv, WorkInv, PlaceInv, HealthyInv, [Next]_vars
  PROVE  HealthyInv'
  <1>1. replays' = 0 => \A s \in buried' : status'[s] = "dead_letter"
    BY NextIsRowAction, BuriedStays DEF HealthyInv, TypeOK
  <1>2. ASSUME faults' = 0, NEW v \in Worker
        PROVE  ~stopping'[v] /\ \A j \in JobsOf(v)' : Owns(j)'
    <2>1. faults = 0 /\ faults' = faults
      BY <1>2, FaultsCount DEF TypeOK
    <2>2. \A w \in Worker : ~stopping[w] /\ \A j \in JobsOf(w) : Owns(j)
      BY <2>1 DEF HealthyInv
    <2>3. ~stopping'[v]
      BY <2>1, <2>2 DEF Next, vars, jobVars, Produce, Administer, TimePasses, ZombieEffect, Claim,
           EmptyPoll, StartJob, SkipJob, RunStep, HandlerEffect, HandlerSettles, HandlerDeadline,
           LoseLease, Settle, SettleThrows, AbortJob, Shutdown, Restart, Crash, Reset, Fault, TypeOK
    <2>4. ASSUME NEW j \in JobsOf(v)', j \in JobsOf(v) PROVE Owns(j)'
      <3>1. Owns(j) /\ status[j.seq] = "leased" /\ lease[j.seq] = j.lease
        BY <2>2, <2>4 DEF Owns, HoldsLease
      <3>2. j.seq \in Seqs
        BY <2>4 DEF JobsOf, TypeOK, Activity, Job
      <3>3. CASE status'[j.seq] = "leased"
        BY <2>1, <2>4, <3>1, <3>3, OwnsStays
      <3>4. CASE status'[j.seq] # "leased"
        <4>1. PICK w \in Worker : \E a \in active[w] :
                 a.job.seq = j.seq /\ Owns(a.job) /\ (Settle(w, a) \/ SettleThrows(w, a))
          BY <3>1, <3>2, <3>4, WhoSettles
        <4>2. PICK a \in active[w] :
                 a.job.seq = j.seq /\ Owns(a.job) /\ (Settle(w, a) \/ SettleThrows(w, a))
          BY <4>1
        <4>3. Settle(w, a)
          BY <2>1, <4>2 DEF SettleThrows, Fault, TypeOK
        <4>4. a.job \in JobsOf(w) /\ a.job.lease = j.lease
          BY <3>1, <4>2 DEF JobsOf, Owns, HoldsLease
        <4>5. w = v /\ a.job = j
          BY <2>4, <4>2, <4>4 DEF WorkInv, LeaseInv
        <4>6. waiting'[v] = waiting[v] /\ active'[v] = active[v] \ {a}
          BY <4>3, <4>5 DEF Settle, TypeOK
        <4>7. j \notin waiting[v] /\ \A b \in active[v] : b.job = j => b = a
          BY <4>2, <4>5 DEF PlaceInv
        <4>8. QED
          BY <4>6, <4>7 DEF JobsOf
      <3>5. QED
        BY <3>3, <3>4
    <2>5. CASE \A w \in Worker, S \in SUBSET Seqs : ~Claim(w, S)
      BY <2>3, <2>4, <2>5, JobsShrink
    <2>6. ASSUME NEW w \in Worker, NEW S \in SUBSET Seqs, Claim(w, S)
          PROVE  \A j \in JobsOf(v)' : Owns(j)'
      BY <2>1, <2>4, <2>6, ClaimedJobsOwn
    <2>7. QED
      BY <2>3, <2>5, <2>6
  <1>3. QED
    BY <1>1, <1>2 DEF HealthyInv

-----------------------------------------------------------------------------
(* Theorems *)

\* The table, the jobs and the faults can be treated apart.
LEMMA InvSplits == OutboxInv <=> TableInv /\ WorkInv /\ CareInv
  BY DEF OutboxInv, TableInv, WorkInv, CareInv, RowStateInv

\* The invariant holds before the first event is staged.
LEMMA InitInv == Init => TableInv /\ WorkInv /\ CareInv
  <1>1. Init => TableInv /\ WorkInv
    BY RepositoryAssumption
       DEF Init, RowInit, TableInv, WorkInv, AllocationInv, ClaimInv, JobInv, LeaseInv, EffectInv,
           JobsOf, Seqs, Stream
  <1>2. Init => CareInv
    BY WorkerAssumption DEF Init, RowInit, CareInv, AttemptInv, PlaceInv, HealthyInv, JobsOf
  <1>3. QED
    BY <1>1, <1>2

\* The inductive invariant: what the table and the jobs of all workers, crashed
\* and stalled ones included, know of each other, and what they pay for a fault.
THEOREM Invariance == Spec => []OutboxInv
  <1> DEFINE IInv == TableInv /\ WorkInv /\ CareInv
  <1>1. TypeOK /\ IInv /\ [Next]_vars => IInv'
    <2> SUFFICES ASSUME TypeOK, TableInv, WorkInv, CareInv, [Next]_vars
                 PROVE  TableInv' /\ WorkInv' /\ CareInv'
      OBVIOUS
    <2>1. TableInv'
      BY NextIsRowAction, TableStep DEF TypeOK
    <2>2. CareInv'
      BY PlaceStep, AttemptStep, HealthyStep DEF CareInv
    <2>3. QED
      BY <2>1, <2>2, WorkStep
  <1>2. IInv <=> OutboxInv
    BY InvSplits
  <1>3. Init => IInv
    BY InitInv
  <1> HIDE DEF IInv
  <1>4. QED
    BY <1>1, <1>2, <1>3, TypeCorrect, PTL DEF Spec

\* No event leaves the table undelivered: a row is processed, and purged, only
\* after its handlers reached their effect.
THEOREM NothingLost == Spec => []ClosedWasDelivered
  <1>1. OutboxInv => ClosedWasDelivered
    BY DEF OutboxInv, RowStateInv, ClosedWasDelivered
  <1>2. QED
    BY <1>1, Invariance, PTL

\* An event of a serialised aggregate reaches its effect for the first time only
\* behind all earlier ones.
THEOREM FirstDeliveries == Spec => []FirstDeliveryInOrder
  <1>1. OutboxInv /\ TypeOK => FirstDeliveryInOrder
    <2> SUFFICES ASSUME OutboxInv, TypeOK, NEW s \in delivered, NEW p \in Seqs,
                        Stream(s) \in Serialised, p < s, Stream(p) = Stream(s)
                 PROVE  Answered(p)
      BY DEF FirstDeliveryInOrder
    <2>1. s \in Seqs /\ issued[s] > 0
      BY DEF OutboxInv, EffectInv, TypeOK
    <2>2. status[p] \in Gone \/ p \in buried
      BY <2>1 DEF OutboxInv, ClaimInv
    <2>3. QED
      BY <2>2 DEF OutboxInv, RowStateInv, Gone, Answered
  <1>2. QED
    BY <1>1, Invariance, TypeCorrect, PTL

\* Two leased rows of a serialised aggregate mean that the earlier one is a
\* replayed dead letter.
THEOREM SerialLeases == Spec => []OneLeasePerAggregate
  <1>1. OutboxInv => OneLeasePerAggregate
    BY DEF OutboxInv, RowStateInv, ClaimInv, OneLeasePerAggregate, Gone
  <1>2. QED
    BY <1>1, Invariance, PTL

\* At most one job in the memory of all workers may settle a row.
THEOREM ExclusiveLeases == Spec => []LeaseIsExclusive
  <1>1. OutboxInv => LeaseIsExclusive
    <2> SUFFICES ASSUME OutboxInv, NEW v \in Worker, NEW w \in Worker,
                        NEW i \in JobsOf(v), NEW j \in JobsOf(w),
                        i.seq = j.seq, Owns(i), Owns(j)
                 PROVE  v = w /\ i = j
      BY DEF LeaseIsExclusive
    <2>1. i.lease = j.lease
      BY DEF Owns, HoldsLease
    <2>2. QED
      BY <2>1 DEF OutboxInv, LeaseInv
  <1>2. QED
    BY <1>1, Invariance, PTL

\* A row leaves "leased" only by the hand of the job that holds its lease, in
\* the way that job's handler ended.
THEOREM HolderSettles == Spec => SettledByHolder
  <1> DEFINE Step == \A s \in Seqs : status[s] = "leased" /\ status'[s] # "leased" =>
          \E w \in Worker : \E a \in active[w] :
              /\ a.job.seq = s /\ Owns(a.job)
              /\ status'[s] = "processed" => a.done
              /\ status'[s] = "dead_letter" => a.phase = "permanent" \/ attempt[s] >= MaxAttempts
              /\ status'[s] = "pending" => a.phase = "transient" /\ attempt[s] < MaxAttempts
  <1>1. TypeOK /\ OutboxInv /\ [Next]_vars => [Step]_vars
    <2> SUFFICES ASSUME TypeOK, TableInv, WorkInv, [Next]_vars,
                        NEW s \in Seqs, status[s] = "leased", status'[s] # "leased"
                 PROVE  \E w \in Worker : \E a \in active[w] :
                          /\ a.job.seq = s /\ Owns(a.job)
                          /\ status'[s] = "processed" => a.done
                          /\ status'[s] = "dead_letter" => a.phase = "permanent" \/ attempt[s] >= MaxAttempts
                          /\ status'[s] = "pending" => a.phase = "transient" /\ attempt[s] < MaxAttempts
      BY InvSplits
    <2>1. PICK w \in Worker : \E a \in active[w] :
             a.job.seq = s /\ Owns(a.job) /\ a.phase # "dispatch" /\ SettleRow(a)
      BY WhoSettles
    <2>2. PICK a \in active[w] :
             a.job.seq = s /\ Owns(a.job) /\ a.phase # "dispatch" /\ SettleRow(a)
      BY <2>1
    <2>3. /\ a.phase \in Phase
          /\ a.phase = "delivered" => a.done
          /\ attempt[s] = a.job.attempt
          /\ attempt[s] \in Nat
      BY <2>2 DEF TypeOK, RowTypeOK, Activity, WorkInv, JobInv, JobsOf, Owns, HoldsLease
    <2>4. CASE a.phase = "delivered"
      <3>1. status'[s] = "processed"
        BY <2>2, <2>4 DEF SettleRow, AcknowledgeRow, TypeOK, RowTypeOK
      <3>2. QED
        BY <2>2, <2>3, <2>4, <3>1
    <2>5. CASE a.phase # "delivered" /\ GivesUp(a)
      <3>1. status'[s] = "dead_letter"
        BY <2>2, <2>5 DEF SettleRow, DeadLetterRow, TypeOK, RowTypeOK
      <3>2. QED
        BY <2>2, <2>3, <2>5, <3>1 DEF GivesUp
    <2>6. CASE a.phase # "delivered" /\ ~GivesUp(a)
      <3>1. status'[s] = "pending"
        BY <2>2, <2>6 DEF SettleRow, RetryRow, TypeOK, RowTypeOK
      <3>2. a.phase = "transient" /\ attempt[s] < MaxAttempts
        BY <2>2, <2>3, <2>6, WorkerAssumption DEF GivesUp, Phase
      <3>3. QED
        BY <2>2, <3>1, <3>2
    <2>7. QED
      BY <2>4, <2>5, <2>6
  <1>2. QED
    BY <1>1, Invariance, TypeCorrect, PTL DEF Spec, SettledByHolder

\* A row is never claimed more often than MaxAttempts times plus once per crash,
\* shutdown, stall or lost answer: the test of attempt_count after the handler is
\* enough wherever workers survive.
THEOREM BoundedAttempts == Spec => []AttemptsAreBounded
  <1>1. OutboxInv => AttemptsAreBounded
    BY DEF OutboxInv, AttemptInv, AttemptsAreBounded
  <1>2. QED
    BY <1>1, Invariance, PTL

\* Who holds the lease of an event that was never set aside is not behind a
\* delivered one of its aggregate.
LEMMA HolderIsNotBehind ==
  ASSUME TypeOK, OutboxInv, NEW w \in Worker, NEW a \in active[w],
         Owns(a.job), a.job.seq \notin buried,
         NEW s \in delivered, Stream(s) \in Serialised, Stream(s) = Stream(a.job.seq)
  PROVE  s <= a.job.seq
  <1>1. a.job.seq \in Seqs /\ s \in Seqs /\ status[a.job.seq] = "leased"
    BY DEF TypeOK, Activity, Job, Owns, HoldsLease
  <1>2. issued[s] > 0
    BY DEF OutboxInv, EffectInv
  <1>3. ~(a.job.seq < s)
    BY <1>1, <1>2 DEF OutboxInv, ClaimInv, Gone
  <1>4. QED
    BY <1>1, <1>3 DEF Seqs

\* The promise of the documentation that remains: the holder of a lease
\* delivers in order.
THEOREM HoldersKeepOrder == Spec => HoldersDeliverInOrder
  <1> DEFINE Step == \A w \in Worker : \A a \in active[w] :
          /\ ~a.done /\ [a EXCEPT !.done = TRUE] \in active'[w]
          /\ Owns(a.job) /\ a.job.seq \notin buried
          => \A s \in delivered :
                Stream(s) \in Serialised /\ Stream(s) = Stream(a.job.seq) => s <= a.job.seq
  <1>1. TypeOK /\ OutboxInv /\ [Next]_vars => [Step]_vars
    BY HolderIsNotBehind
  <1>2. QED
    BY <1>1, Invariance, TypeCorrect, PTL DEF Spec, HoldersDeliverInOrder

\* The whole of it holds where no worker fails and no operator replays a dead
\* letter, whatever handlers throw or time out: exactly these two break it.
THEOREM OrderedWithoutFaults ==
  ASSUME MaxFaults = 0, MaxReplays = 0
  PROVE  Spec => DeliveryIsOrdered
  <1> DEFINE Step == \A w \in Worker : \A a \in active[w] :
          ~a.done /\ [a EXCEPT !.done = TRUE] \in active'[w] =>
              \A s \in delivered :
                  Stream(s) \in Serialised /\ Stream(s) = Stream(a.job.seq) => s <= a.job.seq
  <1>1. TypeOK /\ OutboxInv /\ [Next]_vars => [Step]_vars
    <2> SUFFICES ASSUME TypeOK, OutboxInv, NEW w \in Worker, NEW a \in active[w],
                        NEW s \in delivered, Stream(s) \in Serialised, Stream(s) = Stream(a.job.seq)
                 PROVE  s <= a.job.seq
      OBVIOUS
    <2>1. faults = 0 /\ replays = 0
      BY DEF TypeOK, RowTypeOK
    <2>2. a.job \in JobsOf(w)
      BY DEF JobsOf
    <2>3. Owns(a.job)
      BY <2>1, <2>2 DEF OutboxInv, HealthyInv
    <2>4. a.job.seq \notin buried
      BY <2>1, <2>3 DEF OutboxInv, HealthyInv, Owns, HoldsLease
    <2>5. QED
      BY <2>3, <2>4, HolderIsNotBehind
  <1>2. QED
    BY <1>1, Invariance, TypeCorrect, PTL DEF Spec, DeliveryIsOrdered

-----------------------------------------------------------------------------
(* The refinement of OutboxDelivery *)

States == [s \in Seqs |-> StateOf(s)]
Streams == [s \in Seqs |-> Stream(s)]

\* Writing the status of one row moves that row alone in the abstract state.
LEMMA OneRowMoves ==
  ASSUME NEW s \in Seqs, RowTypeOK, NEW to \in Status, UNCHANGED keyOf,
         status' = [status EXCEPT ![s] = to]
  PROVE  /\ \A t \in Seqs : t # s => StateOf(t)' = StateOf(t)
         /\ status'[s] = to
         /\ Streams' = Streams
  <1>1. \A t \in Seqs : t # s => status'[t] = status[t]
    BY DEF RowTypeOK
  <1>2. status'[s] = to
    BY DEF RowTypeOK
  <1>3. Streams' = Streams
    BY DEF Streams, Stream
  <1>4. QED
    BY <1>1, <1>2, <1>3 DEF StateOf

\* One row moves in the abstract state when one row changes its status.
LEMMA RowMovesTo ==
  ASSUME NEW s \in Seqs, RowTypeOK, NEW to \in Status, UNCHANGED keyOf,
         status' = [status EXCEPT ![s] = to], NEW x, StateOf(s)' = x
  PROVE  States' = [States EXCEPT ![s] = x] /\ Streams' = Streams
  <1>1. \A t \in Seqs : t # s => StateOf(t)' = StateOf(t)
    BY OneRowMoves
  <1>2. QED
    BY <1>1, OneRowMoves DEF States

\* What a status means to OutboxDelivery.
StateFacts ==
    \A s \in Seqs :
        /\ status[s] = "none" => StateOf(s) = "absent"
        /\ status[s] = "staged" => StateOf(s) = "staged"
        /\ status[s] = "rolled_back" => StateOf(s) = "withdrawn"
        /\ status[s] \in Open => StateOf(s) = "open"
        /\ status[s] = "processed" => StateOf(s) = "closed"
        /\ status[s] = "dead_letter" => StateOf(s) = "dead"
        /\ status[s] = "purged" => StateOf(s) = "forgotten"

\* How the status of a row maps to the abstract state.
LEMMA StateMap == StateFacts /\ StateFacts'
  <1>1. StateFacts
    BY DEF StateFacts, StateOf, Open
  <1>2. StateFacts'
    BY DEF StateFacts, StateOf, Open
  <1>3. QED
    BY <1>1, <1>2

AbstractVars == <<States, Streams, delivered, buried>>

\* Every operation on the table is one step of OutboxDelivery, or a stutter.
LEMMA RowRefines ==
  ASSUME TypeOK, TypeOK', TableInv, RowAction, delivered' = delivered,
         \A s \in Seqs : status'[s] = "processed" => s \in delivered
  PROVE  Promise!DeliveryNext \/ UNCHANGED AbstractVars
  <1> USE DEF Promise!Seqs, Promise!Move
  <1>0. RowTypeOK /\ RowTypeOK' /\ Seqs = 1..MaxSeq
    BY DEF TypeOK, Seqs
  <1>1. ASSUME NEW k \in Key, Stage(k) PROVE Promise!DeliveryNext
    <2>1. nextSeq \in Seqs /\ status[nextSeq] = "none"
      <3>1. nextSeq \in Seqs
        BY <1>1 DEF Stage
      <3>2. ~(nextSeq < nextSeq)
        BY <1>0, <3>1
      <3>3. QED
        BY <3>1, <3>2 DEF TableInv, AllocationInv
    <2>2. /\ \A t \in Seqs : t # nextSeq => status'[t] = status[t] /\ keyOf'[t] = keyOf[t]
          /\ status'[nextSeq] = "staged" /\ keyOf'[nextSeq] = k
      BY <1>0, <1>1, <2>1 DEF Stage, RowTypeOK
    <2>3. k # None /\ AggregateOf[k] \in Aggregate
      BY RepositoryAssumption
    <2>4. PICK n \in Seqs : n = nextSeq
      BY <2>1
    <2>5. StateOf(n) = "absent" /\ StateOf(n)' = "staged" /\ Stream(n)' = AggregateOf[k]
      <3>1. status[n] = "none" /\ status'[n] = "staged" /\ keyOf'[n] = k
        BY <2>1, <2>2, <2>4
      <3>2. StateOf(n) = "absent" /\ StateOf(n)' = "staged"
        BY <3>1, StateMap DEF StateFacts
      <3>3. Stream(n)' = AggregateOf[k]
        BY <2>3, <3>1 DEF Stream
      <3>4. QED
        BY <3>2, <3>3
    <2>6. \A t \in Seqs : t # n => StateOf(t)' = StateOf(t) /\ Stream(t)' = Stream(t)
      BY <2>2, <2>4 DEF StateOf, Stream
    <2>7. States' = [States EXCEPT ![n] = "staged"]
      BY <2>5, <2>6 DEF States
    <2>8. Streams' = [Streams EXCEPT ![n] = AggregateOf[k]]
      BY <2>5, <2>6 DEF Streams
    <2>9. buried' = buried
      BY <1>1 DEF Stage
    <2>10. ASSUME AggregateOf[k] \in Serialised, NEW p \in Seqs, Stream(p) = AggregateOf[k]
           PROVE  p < n /\ StateOf(p) # "staged"
      <3>1. keyOf[p] # None
        BY <2>10, RepositoryAssumption DEF Stream
      <3>2. p < nextSeq
        BY <3>1 DEF TableInv, AllocationInv
      <3>3. status[p] # "staged"
        BY <1>1, <2>10 DEF Stage
      <3>4. StateOf(p) # "staged"
        BY <1>0, <3>3, StateMap DEF StateFacts, RowTypeOK, Status, Retained
      <3>5. QED
        BY <2>4, <3>2, <3>4
    <2>11. Promise!StageEvent(n, AggregateOf[k])
      BY <1>0, <2>5, <2>7, <2>8, <2>9, <2>10 DEF Promise!StageEvent, States, Streams
    <2>12. QED
      BY <1>0, <2>3, <2>11 DEF Promise!DeliveryNext
  <1>2. ASSUME NEW s \in Seqs, Commit(s) PROVE Promise!DeliveryNext
    <2>1. StateOf(s) = "staged" /\ StateOf(s)' = "open"
      BY <1>0, <1>2 DEF Commit, StateOf, RowTypeOK, Open
    <2>2. States' = [States EXCEPT ![s] = "open"] /\ Streams' = Streams
      BY <1>0, <1>2, <2>1, RowMovesTo DEF Commit, Status, Retained, Open
    <2>3. Promise!CommitEvent(s)
      BY <1>2, <2>1, <2>2 DEF Promise!CommitEvent, Commit, States, Streams
    <2>4. QED
      BY <1>0, <2>3 DEF Promise!DeliveryNext
  <1>3. ASSUME NEW s \in Seqs, Rollback(s) PROVE Promise!DeliveryNext
    <2>1. StateOf(s) = "staged" /\ StateOf(s)' = "withdrawn"
      <3>1. status[s] = "staged" /\ status'[s] = "rolled_back"
        BY <1>0, <1>3 DEF Rollback, RowTypeOK
      <3>2. QED
        BY <3>1, StateMap DEF StateFacts
    <2>2. States' = [States EXCEPT ![s] = "withdrawn"] /\ Streams' = Streams
      BY <1>0, <1>3, <2>1, RowMovesTo DEF Rollback, Status
    <2>3. Promise!WithdrawEvent(s)
      BY <1>3, <2>1, <2>2 DEF Promise!WithdrawEvent, Rollback, States, Streams
    <2>4. QED
      BY <1>0, <2>3 DEF Promise!DeliveryNext
  <1>4. ASSUME NEW s \in Seqs, status[s] = "leased", AcknowledgeRow(s) PROVE Promise!DeliveryNext
    <2>1. StateOf(s) = "open" /\ StateOf(s)' = "closed" /\ s \in delivered
      BY <1>0, <1>4 DEF AcknowledgeRow, StateOf, RowTypeOK, Open
    <2>2. States' = [States EXCEPT ![s] = "closed"] /\ Streams' = Streams
      BY <1>0, <1>4, <2>1, RowMovesTo DEF AcknowledgeRow, Status, Retained
    <2>3. Promise!CloseEvent(s)
      BY <1>4, <2>1, <2>2 DEF Promise!CloseEvent, AcknowledgeRow, States, Streams
    <2>4. QED
      BY <1>0, <2>3 DEF Promise!DeliveryNext
  <1>5. ASSUME NEW s \in Seqs, status[s] = "leased", DeadLetterRow(s) PROVE Promise!DeliveryNext
    <2>1. StateOf(s) = "open" /\ StateOf(s)' = "dead"
      BY <1>0, <1>5 DEF DeadLetterRow, StateOf, RowTypeOK, Open
    <2>2. States' = [States EXCEPT ![s] = "dead"] /\ Streams' = Streams
      BY <1>0, <1>5, <2>1, RowMovesTo DEF DeadLetterRow, Status, Retained
    <2>3. Promise!BuryEvent(s)
      BY <1>5, <2>1, <2>2 DEF Promise!BuryEvent, DeadLetterRow, States, Streams
    <2>4. QED
      BY <1>0, <2>3 DEF Promise!DeliveryNext
  <1>6. ASSUME NEW S \in SUBSET Seqs, ReplayDeadLetters(S) PROVE Promise!DeliveryNext
    <2>1. \A s \in S : StateOf(s) = "dead"
      BY <1>0, <1>6 DEF ReplayDeadLetters, StateOf, Open
    <2>2. \A s \in Seqs : StateOf(s)' = IF s \in S THEN "open" ELSE StateOf(s)
      <3>1. \A s \in Seqs \ S : status'[s] = status[s]
        BY <1>6 DEF ReplayDeadLetters
      <3>2. \A s \in Seqs \ S : StateOf(s)' = StateOf(s)
        BY <3>1 DEF StateOf, Open
      <3>3. \A s \in S : status'[s] = "pending"
        BY <1>6 DEF ReplayDeadLetters
      <3>4. \A s \in S : StateOf(s)' = "open"
        BY <3>3, StateMap DEF StateFacts, Open
      <3>5. QED
        BY <3>2, <3>4
    <2>3. Streams' = Streams
      BY <1>6 DEF ReplayDeadLetters, Streams, Stream
    <2>4. Promise!ReviveEvents(S)
      BY <1>0, <1>6, <2>1, <2>2, <2>3 DEF Promise!ReviveEvents, ReplayDeadLetters, States, Streams
    <2>5. QED
      BY <1>0, <2>4 DEF Promise!DeliveryNext
  <1>7. ASSUME NEW S \in SUBSET Seqs, PurgeProcessed(S) PROVE Promise!DeliveryNext
    <2>1. \A s \in S : StateOf(s) = "closed"
      BY <1>0, <1>7 DEF PurgeProcessed, StateOf, Open
    <2>2. \A s \in Seqs : StateOf(s)' = IF s \in S THEN "forgotten" ELSE StateOf(s)
      <3>1. \A s \in Seqs \ S : status'[s] = status[s]
        BY <1>7 DEF PurgeProcessed
      <3>2. \A s \in Seqs \ S : StateOf(s)' = StateOf(s)
        BY <3>1 DEF StateOf, Open
      <3>3. \A s \in S : status'[s] = "purged"
        BY <1>7 DEF PurgeProcessed
      <3>4. \A s \in S : StateOf(s)' = "forgotten"
        BY <3>3, StateMap DEF StateFacts
      <3>5. QED
        BY <3>2, <3>4
    <2>3. Streams' = Streams
      BY <1>7 DEF PurgeProcessed, Streams, Stream
    <2>4. Promise!ForgetEvents(S)
      BY <1>0, <1>7, <2>1, <2>2, <2>3 DEF Promise!ForgetEvents, PurgeProcessed, States, Streams
    <2>5. QED
      BY <1>0, <2>4 DEF Promise!DeliveryNext
  <1>8. ASSUME UNCHANGED <<keyOf, buried>>,
               \A s \in Seqs : status'[s] = status[s] \/ (status[s] \in Open /\ status'[s] \in Open)
        PROVE  UNCHANGED AbstractVars
    <2>1. \A s \in Seqs : StateOf(s)' = StateOf(s)
      BY <1>8 DEF StateOf, Open
    <2>2. \A s \in Seqs : Stream(s)' = Stream(s)
      BY <1>8 DEF Stream
    <2>3. QED
      BY <1>8, <2>1, <2>2 DEF AbstractVars, States, Streams
  <1>9. ASSUME NEW S \in SUBSET Seqs, ClaimRows(S) PROVE UNCHANGED AbstractVars
    BY <1>0, <1>8, <1>9 DEF ClaimRows, Claimable, Open, RowTypeOK
  <1>10. ASSUME NEW s \in Seqs, Ripen(s) \/ (status[s] = "leased" /\ RetryRow(s))
         PROVE  UNCHANGED AbstractVars
    BY <1>0, <1>8, <1>10 DEF Ripen, RetryRow, Open, RowTypeOK
  <1>11. CASE UNCHANGED rowVars
    BY <1>8, <1>11 DEF rowVars
  <1>12. QED
    BY <1>1, <1>2, <1>3, <1>4, <1>5, <1>6, <1>7, <1>9, <1>10, <1>11 DEF RowAction

\* A handler that reaches its effect, stale and abandoned ones included, is a
\* delivery OutboxDelivery allows.
LEMMA EffectRefines ==
  ASSUME TypeOK, OutboxInv, NEW s \in Seqs, issued[s] > 0,
         UNCHANGED rowVars, delivered' = delivered \cup {s}
  PROVE  Promise!DeliveryNext
  <1>1. Seqs = Promise!Seqs
    BY DEF Seqs, Promise!Seqs
  <1>2. status[s] \in Retained \cup {"purged"}
    BY DEF OutboxInv, ClaimInv
  <1>3. StateOf(s) \in {"open", "closed", "dead", "forgotten"}
    BY <1>2, StateMap DEF StateFacts, Retained
  <1>4. ASSUME NEW p \in Promise!Predecessors(s)
        PROVE  Promise!Answered(p)
    <2>1. p \in Seqs /\ Stream(s) \in Serialised /\ p < s /\ Stream(p) = Stream(s)
      BY <1>1 DEF Promise!Predecessors
    <2>2. status[p] \in Gone \/ p \in buried
      BY <2>1 DEF OutboxInv, ClaimInv
    <2>3. status[p] \in {"processed", "purged"} => p \in delivered
      BY <2>1 DEF OutboxInv, RowStateInv
    <2>4. status[p] = "rolled_back" => StateOf(p) = "withdrawn"
      BY <2>1, StateMap DEF StateFacts
    <2>5. QED
      BY <2>1, <2>2, <2>3, <2>4 DEF Promise!Answered, Gone
  <1>5. UNCHANGED <<States, Streams, buried>>
    BY DEF rowVars, States, Streams, Stream, StateOf
  <1>6. Promise!DeliverEvent(s)
    BY <1>3, <1>4, <1>5 DEF Promise!DeliverEvent, States, Streams
  <1>7. QED
    BY <1>1, <1>6 DEF Promise!DeliveryNext

\* The outbox implements what OutboxDelivery promises, however its workers
\* interleave, stall and crash.
THEOREM Refinement == Spec => KeepsPromise
  <1>1. Init => Promise!DeliveryInit
    <2> SUFFICES ASSUME Init PROVE Promise!DeliveryInit
      OBVIOUS
    <2>1. \A s \in Seqs : StateOf(s) = "absent" /\ Stream(s) = None
      BY DEF Init, RowInit, StateOf, Stream, Open
    <2>2. QED
      BY <2>1 DEF Init, RowInit, Promise!DeliveryInit, Promise!Seqs, Seqs
  <1>2. TypeOK /\ OutboxInv /\ OutboxInv' /\ [Next]_vars =>
           [Promise!DeliveryNext]_AbstractVars
    <2> SUFFICES ASSUME TypeOK, OutboxInv, OutboxInv', [Next]_vars
                 PROVE  Promise!DeliveryNext \/ UNCHANGED AbstractVars
      OBVIOUS
    <2>1. CASE delivered' = delivered
      <3>1. TypeOK' /\ RowAction /\ TableInv
        BY NextTypeOK, NextIsRowAction, InvSplits
      <3>2. \A s \in Seqs : status'[s] = "processed" => s \in delivered
        BY <2>1 DEF OutboxInv, RowStateInv
      <3>3. QED
        BY <2>1, <3>1, <3>2, RowRefines
    <2>2. CASE delivered' # delivered
      <3>1. ASSUME NEW w \in Worker, NEW a \in active[w]
            PROVE  a.job.seq \in Seqs /\ issued[a.job.seq] > 0
        <4>1. a.job \in Job /\ a.job \in JobsOf(w)
          BY DEF TypeOK, Activity, JobsOf
        <4>2. 0 < a.job.lease /\ a.job.lease <= issued[a.job.seq]
          BY <4>1 DEF OutboxInv, JobInv
        <4>3. QED
          BY <4>1, <4>2 DEF Job, TypeOK, RowTypeOK
      <3>2. \A z \in zombies : z[2] \in Seqs /\ issued[z[2]] > 0
        BY DEF TypeOK, OutboxInv, EffectInv
      <3>3. \/ \E z \in zombies : ZombieEffect(z)
            \/ \E w \in Worker : \E a \in active[w] : HandlerEffect(w, a)
        BY <2>2 DEF Next, vars, jobVars, Produce, Administer, TimePasses, Claim, EmptyPoll,
                    StartJob, SkipJob, RunStep, HandlerSettles, HandlerDeadline, LoseLease,
                    Settle, SettleThrows, AbortJob, Shutdown, Restart, Crash, Reset
      <3>4. \E s \in Seqs :
               issued[s] > 0 /\ UNCHANGED rowVars /\ delivered' = delivered \cup {s}
        BY <3>1, <3>2, <3>3 DEF ZombieEffect, HandlerEffect
      <3>5. QED
        BY <3>4, EffectRefines
    <2>3. QED
      BY <2>1, <2>2
  <1>3. QED
    BY <1>1, <1>2, Invariance, TypeCorrect, PTL
       DEF Spec, KeepsPromise, Promise!DeliverySpec, AbstractVars, States, Streams

=============================================================================
