---------------------------- MODULE OutboxDelivery ----------------------------
(***************************************************************************)
(* What the outbox promises to producers and consumers, with no lease, no  *)
(* worker and no clock: a committed event is handed to its handlers any    *)
(* number of times, for the first time only after every earlier event of   *)
(* its aggregate was delivered or given up, and it is closed only once it  *)
(* was delivered.                                                          *)
(***************************************************************************)
EXTENDS Naturals

CONSTANTS
    MaxSeq,      \* bound on the events of a run
    Aggregate,   \* aggregates events belong to
    Serialised,  \* the aggregates whose events are committed in sequence order
    None         \* the aggregate of an event that does not exist yet

VARIABLES
    state,      \* life of each event
    stream,     \* the aggregate it belongs to
    delivered,  \* events whose handlers have run to their effect
    buried      \* events that were given up at some time

Seqs == 1..MaxSeq
EventState == {"absent", "staged", "withdrawn", "open", "closed", "dead", "forgotten"}

DeliveryInit ==
    /\ state = [s \in Seqs |-> "absent"]
    /\ stream = [s \in Seqs |-> None]
    /\ delivered = {}
    /\ buried = {}

Move(s, from, to) ==
    /\ state[s] \in from
    /\ state' = [state EXCEPT ![s] = to]

\* A serialised aggregate numbers its events in the order it commits them.
StageEvent(s, a) ==
    /\ Move(s, {"absent"}, "staged")
    /\ a \in Serialised => \A p \in Seqs : stream[p] = a => p < s /\ state[p] # "staged"
    /\ stream' = [stream EXCEPT ![s] = a]
    /\ UNCHANGED <<delivered, buried>>

CommitEvent(s) == Move(s, {"staged"}, "open") /\ UNCHANGED <<stream, delivered, buried>>
WithdrawEvent(s) == Move(s, {"staged"}, "withdrawn") /\ UNCHANGED <<stream, delivered, buried>>

Answered(p) == p \in delivered \cup buried \/ state[p] = "withdrawn"

Predecessors(s) ==
    IF stream[s] \in Serialised THEN {p \in Seqs : p < s /\ stream[p] = stream[s]} ELSE {}

\* A repeated delivery is unconstrained: a stale or abandoned handler may reach
\* its effect long after the event was closed.
DeliverEvent(s) ==
    /\ state[s] \in {"open", "closed", "dead", "forgotten"}
    /\ s \notin delivered => \A p \in Predecessors(s) : Answered(p)
    /\ delivered' = delivered \cup {s}
    /\ UNCHANGED <<state, stream, buried>>

CloseEvent(s) ==
    /\ s \in delivered
    /\ Move(s, {"open"}, "closed")
    /\ UNCHANGED <<stream, delivered, buried>>

BuryEvent(s) ==
    /\ Move(s, {"open"}, "dead")
    /\ buried' = buried \cup {s}
    /\ UNCHANGED <<stream, delivered>>

\* An operator replays a selection, the retention job forgets one.
ReviveEvents(S) ==
    /\ \A s \in S : state[s] = "dead"
    /\ state' = [s \in Seqs |-> IF s \in S THEN "open" ELSE state[s]]
    /\ UNCHANGED <<stream, delivered, buried>>

ForgetEvents(S) ==
    /\ \A s \in S : state[s] = "closed"
    /\ state' = [s \in Seqs |-> IF s \in S THEN "forgotten" ELSE state[s]]
    /\ UNCHANGED <<stream, delivered, buried>>

DeliveryNext ==
    \/ \E s \in Seqs :
          \/ \E a \in Aggregate : StageEvent(s, a)
          \/ CommitEvent(s)
          \/ WithdrawEvent(s)
          \/ DeliverEvent(s)
          \/ CloseEvent(s)
          \/ BuryEvent(s)
    \/ \E S \in SUBSET Seqs : ReviveEvents(S) \/ ForgetEvents(S)

DeliverySpec == DeliveryInit /\ [][DeliveryNext]_<<state, stream, delivered, buried>>

-----------------------------------------------------------------------------
(* What a reader of the promise may rely on. *)

DeliveryTypeOK ==
    /\ state \in [Seqs -> EventState]
    /\ stream \in [Seqs -> Aggregate \cup {None}]
    /\ delivered \subseteq Seqs
    /\ buried \subseteq Seqs

\* A closed event was delivered, whether or not it is still remembered.
ClosedWasServed == \A s \in Seqs : state[s] \in {"closed", "forgotten"} => s \in delivered

\* Nobody sees an event whose transaction is open or was withdrawn.
OnlyCommittedIsServed == \A s \in delivered : state[s] \notin {"absent", "staged", "withdrawn"}

\* Every earlier event of a delivered one was delivered, given up or withdrawn.
ServedInOrder == \A s \in delivered : \A p \in Predecessors(s) : Answered(p)

=============================================================================
