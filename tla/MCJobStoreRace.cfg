SPECIFICATION Spec
CONSTANTS
    parse = parse
    extract = extract
    tag = tag
    batch = batch
    tagb = tagb
    rec1 = rec1
    rep1 = rep1
    None = None
    Jobs <- MixedJobs
    Stage <- MixedStage
    Origin <- MixedOrigin
    NextJob <- MixedNext
    FirstJob = parse
    LeaseSeconds = 1
    Delays = {1}
    RetryLimit = 2
    PublishedStatus = "partial"
    MaxClaims = 6
    MaxMarks <- MixedMarks
    MaxActions = 1
INVARIANTS
    NoRacingTagCallbacks
CHECK_DEADLOCK FALSE
