SPECIFICATION Spec
CONSTANTS
    r1 = r1
    Nobody = Nobody
    Reader <- MCReader
    ProcessOf <- MCProcessOf
    Exact = FALSE
    BypassShared = TRUE
    MaxVersion = 2
    MaxToken = 3
    MaxFaults = 0
    Worker = {w1, w2}
    BatchSize = 2
    MaxAttempts = 2
    MaxTrouble = 1
SYMMETRY WorkerSymmetry
INVARIANTS
    OutboxTypeOK
    ProcessedMeansFresh
CHECK_DEADLOCK FALSE
