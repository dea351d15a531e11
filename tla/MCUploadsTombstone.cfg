SPECIFICATION Spec
CONSTANTS
    Docs = {d1}
    UploadIds = {1}
    Keys = {k1}
    Runners = {r1}
    None = None
    Ttl = 2
    MaxClock = 1
    MaxAttempts = 1
PROPERTIES
    TombstoneFencesBytes
CHECK_DEADLOCK FALSE
