SPECIFICATION StoreSpec
CONSTANTS
    r1 = r1
    r2 = r2
    r3 = r3
    Nobody = Nobody
    Reader <- MCReader
    ProcessOf <- MCProcessOf
    Exact = FALSE
    BypassShared = TRUE
    MaxVersion = 1
    MaxToken = 2
    MaxFaults = 1
SYMMETRY ReaderSymmetry
INVARIANTS
    TypeOK
    LoadedOnce
PROPERTIES
    FreshAnswers
    ReleaseIsFenced
    ImplementsFreshReads
CHECK_DEADLOCK FALSE
