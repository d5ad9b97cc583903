SPECIFICATION FairStoreSpec
CONSTANTS
    r1 = r1
    r2 = r2
    r3 = r3
    Nobody = Nobody
    Reader <- MCReader
    ProcessOf <- MCProcessOf
    Exact = FALSE
    BypassShared = TRUE
    MaxVersion = 0
    MaxToken = 1
    MaxFaults = 2
PROPERTIES
    LookupsEnd
CHECK_DEADLOCK FALSE
