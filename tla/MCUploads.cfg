SPECIFICATION Spec
CONSTANTS
    Docs = {d1}
    UploadIds = {1, 2}
    Keys = {k1, k2}
    Runners = {r1, r2}
    None = None
    Ttl = 2
    MaxClock = 3
    MaxAttempts = 2
SYMMETRY Symmetry
INVARIANTS
    AcceptedIsWhole
    LatestIsNewest
    ManifestIsComplete
PROPERTIES
    VerdictFinal
CHECK_DEADLOCK FALSE
