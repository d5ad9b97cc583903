--------------------- MODULE DomainEventOutboxRepository ---------------------
(***************************************************************************)
(* The table domain_event_outbox and the operations that the PostgreSQL    *)
(* repositories of the events module run on it: staging inside a business  *)
(* transaction, leasing a batch, the four lease-fenced updates, the replay *)
(* of dead letters and the purge of processed rows.  Every operation is    *)
(* one SQL statement or one short transaction, hence one action here; the  *)
(* worker that calls them is DomainEventOutboxWorker.                      *)
(*                                                                         *)
(* A row is named by its bigserial sequence.  Wall-clock columns are kept  *)
(* as what the statements ask of them: ripe[s] is "available_at <= now"    *)
(* for a pending row and "locked_until <= now" for a leased one.           *)
(***************************************************************************)
EXTENDS Naturals, FiniteSets

CONSTANTS
    Key,          \* (event_name, dedupe_key) pairs a producer may stage
    None,         \* the key, and the aggregate, of a sequence not allocated yet
    Aggregate,    \* (aggregate_type, aggregate_id) pairs
    AggregateOf,  \* the aggregate an event of a key belongs to
    Serialised,   \* aggregates whose producers lock the aggregate row first
    MaxSeq,       \* bound on the sequences a run allocates
    MaxReplays    \* bound on the operator replays a run explores

ASSUME RepositoryAssumption ==
    /\ MaxSeq \in Nat
    /\ MaxReplays \in Nat
    /\ None \notin Key \cup Aggregate
    /\ AggregateOf \in [Key -> Aggregate]
    /\ Serialised \subseteq Aggregate

VARIABLES
    nextSeq,   \* the next value of the bigserial column
    keyOf,     \* the key each sequence was staged with
    status,    \* the status column, and where a row is when it has none
    ripe,      \* see above
    attempt,   \* attempt_count
    lease,     \* lease_token, NoLease for NULL
    issued,    \* lease tokens handed out for a row: gen_random_uuid() is fresh
    buried,    \* history: rows that were a dead letter at some time
    replays    \* operator replays so far

rowVars == <<nextSeq, keyOf, status, ripe, attempt, lease, issued, buried, replays>>

Seqs == 1..MaxSeq
NoLease == 0

\* "none": not allocated; "staged": inserted by a transaction that is still
\* open; "rolled_back" and "purged": the row is no longer in the table.
Open == {"pending", "leased"}
Retained == Open \cup {"processed", "dead_letter"}
Status == {"none", "staged", "rolled_back", "purged"} \cup Retained

RowTypeOK ==
    /\ nextSeq \in 1..(MaxSeq + 1)
    /\ keyOf \in [Seqs -> Key \cup {None}]
    /\ status \in [Seqs -> Status]
    /\ ripe \in [Seqs -> BOOLEAN]
    /\ attempt \in [Seqs -> Nat]
    /\ lease \in [Seqs -> Nat]
    /\ issued \in [Seqs -> Nat]
    /\ buried \subseteq Seqs
    /\ replays \in 0..MaxReplays

RowInit ==
    /\ nextSeq = 1
    /\ keyOf = [s \in Seqs |-> None]
    /\ status = [s \in Seqs |-> "none"]
    /\ ripe = [s \in Seqs |-> FALSE]
    /\ attempt = [s \in Seqs |-> 0]
    /\ lease = [s \in Seqs |-> NoLease]
    /\ issued = [s \in Seqs |-> 0]
    /\ buried = {}
    /\ replays = 0

\* The aggregate a row belongs to.
Stream(s) == IF keyOf[s] = None THEN None ELSE AggregateOf[keyOf[s]]

-----------------------------------------------------------------------------
(* Producers: stageDomainEvent inside the caller's transaction. *)

\* Mutant of Stage: the producer does not lock the aggregate row first.
StageUnlocked(k) ==
    /\ nextSeq \in Seqs
    /\ \A s \in Seqs : keyOf[s] = k => status[s] \notin Retained \cup {"staged"}
    /\ nextSeq' = nextSeq + 1
    /\ keyOf' = [keyOf EXCEPT ![nextSeq] = k]
    /\ status' = [status EXCEPT ![nextSeq] = "staged"]
    /\ UNCHANGED <<ripe, attempt, lease, issued, buried, replays>>

\* The insert.  A retained row with the same key makes it a no-op that returns
\* the existing row, an open transaction with the same key makes it wait, and a
\* producer of a serialised aggregate waits for the aggregate's row lock.
Stage(k) ==
    /\ nextSeq \in Seqs
    /\ \A s \in Seqs : keyOf[s] = k => status[s] \notin Retained \cup {"staged"}
    /\ AggregateOf[k] \in Serialised =>
          \A s \in Seqs : status[s] = "staged" => Stream(s) # AggregateOf[k]
    /\ nextSeq' = nextSeq + 1
    /\ keyOf' = [keyOf EXCEPT ![nextSeq] = k]
    /\ status' = [status EXCEPT ![nextSeq] = "staged"]
    /\ UNCHANGED <<ripe, attempt, lease, issued, buried, replays>>

\* The caller's transaction commits and the row becomes visible; available_at
\* defaults to the insertion time.
Commit(s) ==
    /\ status[s] = "staged"
    /\ status' = [status EXCEPT ![s] = "pending"]
    /\ ripe' = [ripe EXCEPT ![s] = TRUE]
    /\ UNCHANGED <<nextSeq, keyOf, attempt, lease, issued, buried, replays>>

\* The caller's transaction fails; the sequence stays burnt.
Rollback(s) ==
    /\ status[s] = "staged"
    /\ status' = [status EXCEPT ![s] = "rolled_back"]
    /\ UNCHANGED <<nextSeq, keyOf, ripe, attempt, lease, issued, buried, replays>>

-----------------------------------------------------------------------------
(* Leasing. *)

\* Mutants of Claimable: a predecessor that waits for its retry, or one that is
\* leased, does not hold the claim back; an expired lease is not reclaimed.
ClaimablePastRetries(s) ==
    /\ status[s] \in Open
    /\ ripe[s]
    /\ \A p \in Seqs : p < s /\ Stream(p) = Stream(s) => status[p] # "leased"

ClaimablePastLeases(s) ==
    /\ status[s] \in Open
    /\ ripe[s]
    /\ \A p \in Seqs : p < s /\ Stream(p) = Stream(s) => status[p] # "pending"

ClaimableOnce(s) ==
    /\ status[s] = "pending"
    /\ ripe[s]
    /\ \A p \in Seqs : p < s /\ Stream(p) = Stream(s) => status[p] \notin Open

\* The WHERE clause of the claim: due, and no earlier open row of the aggregate.
Claimable(s) ==
    /\ status[s] \in Open
    /\ ripe[s]
    /\ \A p \in Seqs : p < s /\ Stream(p) = Stream(s) => status[p] \notin Open

\* SKIP LOCKED may pass over any claimable row, so a batch is any set of them.
ClaimRows(S) ==
    /\ \A s \in S : Claimable(s)
    /\ status' = [s \in Seqs |-> IF s \in S THEN "leased" ELSE status[s]]
    /\ ripe' = [s \in Seqs |-> IF s \in S THEN FALSE ELSE ripe[s]]
    /\ attempt' = [s \in Seqs |-> IF s \in S THEN attempt[s] + 1 ELSE attempt[s]]
    /\ issued' = [s \in Seqs |-> IF s \in S THEN issued[s] + 1 ELSE issued[s]]
    /\ lease' = [s \in Seqs |-> IF s \in S THEN issued[s] + 1 ELSE lease[s]]
    /\ UNCHANGED <<nextSeq, keyOf, buried, replays>>

\* Mutant of HoldsLease: the fence does not compare the token.
HoldsAnyLease(s, token) ==
    /\ status[s] = "leased"
    /\ ~ripe[s]

\* The fence of every later statement: id, lease_token, status and locked_until.
HoldsLease(s, token) ==
    /\ status[s] = "leased"
    /\ lease[s] = token
    /\ ~ripe[s]

\* Mutant of AcknowledgeRow: the outcome is stored in place of the status.
AcknowledgeWithOutcome(s) ==
    /\ status' = [status EXCEPT ![s] = "delivered"]
    /\ lease' = [lease EXCEPT ![s] = NoLease]
    /\ UNCHANGED <<nextSeq, keyOf, ripe, attempt, issued, buried, replays>>

AcknowledgeRow(s) ==
    /\ status' = [status EXCEPT ![s] = "processed"]
    /\ lease' = [lease EXCEPT ![s] = NoLease]
    /\ UNCHANGED <<nextSeq, keyOf, ripe, attempt, issued, buried, replays>>

\* Back to pending with an available_at in the future.
RetryRow(s) ==
    /\ status' = [status EXCEPT ![s] = "pending"]
    /\ ripe' = [ripe EXCEPT ![s] = FALSE]
    /\ lease' = [lease EXCEPT ![s] = NoLease]
    /\ UNCHANGED <<nextSeq, keyOf, attempt, issued, buried, replays>>

DeadLetterRow(s) ==
    /\ status' = [status EXCEPT ![s] = "dead_letter"]
    /\ lease' = [lease EXCEPT ![s] = NoLease]
    /\ buried' = buried \cup {s}
    /\ UNCHANGED <<nextSeq, keyOf, ripe, attempt, issued, replays>>

\* The retry delay of a pending row, or the lease of a leased one, runs out.
Ripen(s) ==
    /\ status[s] \in Open
    /\ ~ripe[s]
    /\ ripe' = [ripe EXCEPT ![s] = TRUE]
    /\ UNCHANGED <<nextSeq, keyOf, status, attempt, lease, issued, buried, replays>>

-----------------------------------------------------------------------------
(* Administration. *)

\* An operator replays every dead letter a selector matches, or none of them
\* when one is locked.
ReplayDeadLetters(S) ==
    /\ S # {}
    /\ replays < MaxReplays
    /\ \A s \in S : status[s] = "dead_letter"
    /\ status' = [s \in Seqs |-> IF s \in S THEN "pending" ELSE status[s]]
    /\ attempt' = [s \in Seqs |-> IF s \in S THEN 0 ELSE attempt[s]]
    /\ ripe' = [s \in Seqs |-> IF s \in S THEN TRUE ELSE ripe[s]]
    /\ replays' = replays + 1
    /\ UNCHANGED <<nextSeq, keyOf, lease, issued, buried>>

\* Mutant of PurgeProcessed: dead letters are purged too.
PurgeSettled(S) ==
    /\ S # {}
    /\ \A s \in S : status[s] \in {"processed", "dead_letter"}
    /\ status' = [s \in Seqs |-> IF s \in S THEN "purged" ELSE status[s]]
    /\ UNCHANGED <<nextSeq, keyOf, ripe, attempt, lease, issued, buried, replays>>

\* The retention job deletes processed rows older than its cutoff.
PurgeProcessed(S) ==
    /\ S # {}
    /\ \A s \in S : status[s] = "processed"
    /\ status' = [s \in Seqs |-> IF s \in S THEN "purged" ELSE status[s]]
    /\ UNCHANGED <<nextSeq, keyOf, ripe, attempt, lease, issued, buried, replays>>

=============================================================================
