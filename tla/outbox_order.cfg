SPECIFICATION Spec
CONSTANTS
    k1 = k1
    k2 = k2
    k3 = k3
    k4 = k4
    projectA = projectA
    talentB = talentB
    None = None
    Key = {k1, k2}
    Aggregate = {projectA}
    AggregateOf <- OneAggregate
    Serialised = {projectA}
    MaxSeq = 2
    MaxReplays = 0
    Worker = {w1, w2}
    BatchSize = 2
    Concurrency = 1
    MaxAttempts = 2
    MaxFaults = 1
SYMMETRY WorkerSymmetry
PROPERTIES
    DeliveryIsOrdered
