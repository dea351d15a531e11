\* Two runs of two documents in one queue, with the fairness of the worker loop.  Documents
\* get their tombstones by expiry, which leaves their runs queued.
SPECIFICATION FairSpec
CONSTANTS
    r1 = r1  r2 = r2  d1 = d1  d2 = d2  u1 = u1  u2 = u2
    Runs = {r1, r2}
    Documents = {d1, d2}
    DocOf <- Apart
    UserOf <- Users
    Calls = {}
    Bounds = {1}
    Envelope = 1
    EventCap = 2
    DayCap = 2
    DailyRuns = 2
    UserDailyRuns = 2
    QueueLimit = 2
    MaxActive = 1
    UserActive = 1
    Earlier = {0}
    Requests = {"drain"}
    MaxFence = 2
    MaxDay = 1
PROPERTIES
    RunsEnd
    DeletionCompletes
CHECK_DEADLOCK FALSE
