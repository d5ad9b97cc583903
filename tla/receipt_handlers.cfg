CONSTANTS
    accepted = accepted
    disputed = disputed
    dev = dev
    Confirmation = {accepted, disputed}
    None = none
    Reviewee = {dev}
    RevieweeOf <- OneReviewee
    Rescores = {accepted, disputed}
    Skills <- SkillCounts
    Handler = {h1, h2}
    MaxRevision = 4
    MaxFaults = 2
SPECIFICATION FairSpec
INVARIANTS
    TypeOK
    ReceiptInv
    ProjectionsConverge
    DatabasePhaseOnce
    CheckpointsAreDelivered
    CursorNeverCollides
PROPERTIES
    ReceiptMovesForward
    RegressionIsOwed
    KeepsPlan
    EventuallyCompleted
