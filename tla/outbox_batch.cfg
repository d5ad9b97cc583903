SPECIFICATION Spec
CONSTANTS
    k1 = k1
    k2 = k2
    k3 = k3
    k4 = k4
    projectA = projectA
    talentB = talentB
    None = None
    Key = {k1, k2, k3, k4}
    Aggregate = {projectA, talentB}
    AggregateOf <- TwoAggregates
    Serialised = {projectA}
    MaxSeq = 2
    MaxReplays = 1
    Worker = {w1, w2}
    BatchSize = 2
    Concurrency = 1
    MaxAttempts = 1
    MaxFaults = 1
SYMMETRY EventSymmetry
INVARIANTS
    TypeOK
    ClosedWasDelivered
    LeaseIsExclusive
    OneLeasePerAggregate
PROPERTIES
    KeepsPromise
