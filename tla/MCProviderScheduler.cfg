\* Arrivals never stop; one restart.
SPECIFICATION FairSpec
CONSTANTS
    t1 = t1  t2 = t2  t3 = t3
    Threads = {t1, t2, t3}
    Roles = {1, 2}
    Workers = 2
    MaxBypass = 1
    MaxDenials = 2
    MaxRestarts = 1
INVARIANTS
    BoundedBypass
    SlotsBalance
PROPERTIES
    CircuitForGood
    NobodyStarves
CHECK_DEADLOCK FALSE
