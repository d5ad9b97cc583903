SPECIFICATION FairSpec
CONSTANTS
    r1 = r1
    Nobody = Nobody
    Reader <- NoReader
    ProcessOf <- NoProcess
    Exact = TRUE
    BypassShared = TRUE
    MaxVersion = 2
    MaxToken = 0
    MaxFaults = 0
    Worker = {w1, w2}
    BatchSize = 2
    MaxAttempts = 2
    MaxTrouble = 3
INVARIANTS
    AckedIsInvalidated
    OneHolder
PROPERTIES
    ProcessedIsFinal
    EveryWriteSettles
CHECK_DEADLOCK FALSE
