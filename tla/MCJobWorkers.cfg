SPECIFICATION WSpec
CONSTANTS
    parse = parse
    extract = extract
    tag = tag
    w1 = w1
    w2 = w2
    Workers = {w1, w2}
    None = None
    Jobs <- StageJobs
    Stage <- StageOf
    Origin <- StageOrigin
    NextJob <- StageNext
    FirstJob = parse
    LeaseSeconds = 1
    Delays = {1}
    RetryLimit = 2
    PublishedStatus = "partial"
    MaxClaims = 5
    MaxMarks <- StageMarks
    MaxActions = 1
    MaxCrashes = 0
    Punctual = FALSE
SYMMETRY WorkerSymmetry
INVARIANTS
    AttemptsAccounted
    NoLostWakeup
PROPERTIES
    StoreSpec
CHECK_DEADLOCK FALSE
