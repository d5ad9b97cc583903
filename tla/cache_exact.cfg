SPECIFICATION Spec
CONSTANTS
    r1 = r1
    Nobody = Nobody
    Reader <- MCReader
    ProcessOf <- MCProcessOf
    Exact = TRUE
    BypassShared = TRUE
    MaxVersion = 1
    MaxToken = 0
    MaxFaults = 0
    Worker = {w1}
    BatchSize = 2
    MaxAttempts = 2
    MaxTrouble = 1
INVARIANTS
    ProcessedMeansFresh
CHECK_DEADLOCK FALSE
