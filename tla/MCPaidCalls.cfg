SPECIFICATION Spec
CONSTANTS
    q1 = q1  q2 = q2  q3 = q3  k1 = k1  k2 = k2  t1 = t1  t2 = t2
    NoRequest = NoRequest
    Threads = {t1, t2}
    Requests = {q1, q2, q3}
    KeyOf <- CacheKey
    Event = "event"
    Scopes = {"event", "run"}
    Members <- ScopeMembers
    ScopeCap <- ScopeLimits
    Bound = 2
    Reservation = 2
    Limit = 4
    MaxCost = 1
    MaxCrashes = 1
SYMMETRY Symmetry
INVARIANTS
    ChargesCovered
    ScopeCapsHold
    SingleFlight
    ReusedResponseSettled
PROPERTIES
    ImplementsLedgers
CHECK_DEADLOCK FALSE
