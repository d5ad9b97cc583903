SPECIFICATION FairSpec
CONSTANTS
    MaxNote = 1
    MaxTarget = 1
    MaxWork = 2
    Handler = {w1}
    None = None
    MaxAttempts = 2
PROPERTIES
    ReplayedIsProcessed
CHECK_DEADLOCK FALSE
