SPECIFICATION FairSpec
CONSTANTS
    Requests = {r1, r2}
    c1 = c1
    c2 = c2
    p1 = p1
    p2 = p2
    Orders <- ApplyOrders
    Configs = {c1, c2}
    Paths = {p1}
    Mounted = p1
    Modes = {"docker"}
    MaxFaults = 1
    NoConfig = NoConfig
    NoPath = NoPath
    NoRequest = NoRequest
    Unread = Unread
INVARIANTS
    TypeOK
    RestartAfterWrite
    OkApplyTakesEffect
    PolicyRespected
PROPERTIES
    EveryRequestEnds
    AppliedEventuallyRuns
CHECK_DEADLOCK FALSE
