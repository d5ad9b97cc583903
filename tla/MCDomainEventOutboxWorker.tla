---------------------- MODULE MCDomainEventOutboxWorker ----------------------
(* Instances of DomainEventOutboxWorker for TLC. *)
EXTENDS DomainEventOutboxWorker, TLC

CONSTANTS k1, k2, k3, k4, projectA, talentB

\* Two events of one aggregate.
OneAggregate == k1 :> projectA @@ k2 :> projectA

\* Two events of a project, two of an aggregate whose producers take no row lock.
TwoAggregates == k1 :> projectA @@ k2 :> projectA @@ k3 :> talentB @@ k4 :> talentB

WorkerSymmetry == Permutations(Worker)

\* Events of the same aggregate are alike, too.
EventSymmetry == WorkerSymmetry \cup Permutations({k1, k2}) \cup Permutations({k3, k4})

=============================================================================
