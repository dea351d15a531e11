SPECIFICATION FairSpec
CONSTANTS
    parse = parse
    extract = extract
    tag = tag
    w1 = w1
    w2 = w2
    Workers = {w1}
    None = None
    Jobs <- StageJobs
    Stage <- StageOf
    Origin <- StageOrigin
    NextJob <- StageNext
    FirstJob = parse
    LeaseSeconds = 2
    Delays = {1}
    RetryLimit = 2
    PublishedStatus = "completed"
    MaxClaims = 20
    MaxMarks <- StageMarks
    MaxActions = 1
    MaxCrashes = 1
    Punctual = TRUE
PROPERTIES
    WorkSettles
CHECK_DEADLOCK FALSE
