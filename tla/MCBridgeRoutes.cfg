SPECIFICATION Spec
CONSTANTS
    Requests = {r1, r2}
    c1 = c1
    c2 = c2
    p1 = p1
    p2 = p2
    Orders <- RouteOrders
    Configs = {c1, c2}
    Paths = {p1, p2}
    Mounted = p1
    Modes = {"docker", "pm2"}
    MaxFaults = 1
    NoConfig = NoConfig
    NoPath = NoPath
    NoRequest = NoRequest
    Unread = Unread
INVARIANTS
    CalmSnapshotIsTrue
PROPERTIES
    KeepsPromise
SYMMETRY Symmetry
CHECK_DEADLOCK FALSE
