SPECIFICATION Spec
CONSTANTS
    MaxNote = 2
    MaxTarget = 2
    MaxWork = 2
    Handler = {w1, w2}
    None = None
    MaxAttempts = 2
SYMMETRY HandlerSymmetry
INVARIANTS
    TypeOK
    IndexNeverAhead
    ProcessedIsVisible
    ProcessedEverywhere
    ProjectionInv
PROPERTIES
    AliasIsFed
    FollowsFeed
CHECK_DEADLOCK FALSE
