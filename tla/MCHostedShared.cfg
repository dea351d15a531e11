\* Two runs of one document, each with a paid call: money, slots, the document lock,
\* deletion under a running analysis.
SPECIFICATION Spec
CONSTANTS
    r1 = r1  r2 = r2  d1 = d1  d2 = d2  u1 = u1  u2 = u2
    Runs = {r1, r2}
    Documents = {d1}
    DocOf <- Shared
    UserOf <- Users
    Calls = {c1}
    Bounds = {1, 2}
    Envelope = 1
    EventCap = 2
    DayCap = 1
    DailyRuns = 2
    UserDailyRuns = 2
    QueueLimit = 2
    MaxActive = 2
    UserActive = 1
    Earlier = {0, 1}
    Requests = {"cancel", "delete", "reconcile", "lose"}
    MaxFence = 2
    MaxDay = 2
SYMMETRY Symmetry
INVARIANTS
    MoneyAccounted
    ReservationsSound
    CapsHold
    AnalysisUndisturbed
    DeletedLeavesNothing
PROPERTIES
    HostedImplementsLedger
    EndedForGood
CHECK_DEADLOCK FALSE
