SPECIFICATION Spec
CONSTANTS
    parse = parse
    extract = extract
    tag = tag
    batch = batch
    tagb = tagb
    rec1 = rec1
    rep1 = rep1
    None = None
    Jobs <- AllJobs
    Stage <- AllStage
    Origin <- AllOrigin
    NextJob <- AllNext
    FirstJob = parse
    LeaseSeconds = 1
    Delays = {1}
    RetryLimit = 2
    PublishedStatus = "partial"
    MaxClaims = 5
    MaxMarks <- TagMarks
    MaxActions = 2
INVARIANTS
    CheckpointFenced
    CancelledRunIsClosed
    EventIdsFresh
    RetryBudget
    TaggedFromCurrentExtraction
PROPERTIES
    SettledForGood
CHECK_DEADLOCK FALSE
