SPECIFICATION ReviewSpec
CONSTANTS
    Claims = {c1, c2}
    TagJobs = {"t1", "t2", "t3"}
    Origin <- MCOrigin
    Publications <- MCPublications
    Reviewers = {v1, v2}
    Resolutions <- MCResolutions
    Flights = {f1, f2}
    RescoreKeys = {k1, k2}
    Packs = {p1, p2, p3}
    Frozen = p1
    None = None
    MaxEpoch = 6
SYMMETRY Symmetry
INVARIANTS
    NoUpdateLost
    RescoresAccounted
    AuthorsHonest
    CountsMatchHeads
PROPERTIES
    DecidedUnderActivePack
CHECK_DEADLOCK FALSE
