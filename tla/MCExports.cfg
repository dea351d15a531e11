SPECIFICATION Spec
CONSTANTS
    Claims = {c1, c2}
    TagJobs = {"t1", "t2", "t3"}
    Origin <- MCOrigin
    Publications <- MCPublications
    Reviewers = {v1}
    Resolutions <- MCResolutions
    Flights = {f1}
    RescoreKeys = {k1}
    Packs = {p1}
    Frozen = p1
    None = None
    MaxEpoch = 4
    Builders = {b1, b2}
    Attempts = 2
SYMMETRY Symmetry
INVARIANTS
    ExportsSound
    AuditTellsAll
PROPERTIES
    FrozenForGood
CHECK_DEADLOCK FALSE
