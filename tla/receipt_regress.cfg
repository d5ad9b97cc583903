CONSTANTS
    accepted = accepted
    disputed = disputed
    dev = dev
    Confirmation = {accepted, disputed}
    None = none
    Reviewee = {dev}
    RevieweeOf <- OneReviewee
    Rescores = {accepted}
    Skills <- SkillCounts
    Handler = {h1, h2}
    MaxRevision = 2
    MaxFaults = 0
SPECIFICATION Spec
SYMMETRY HandlerSymmetry
PROPERTIES
    ProjectionNeverRegresses
