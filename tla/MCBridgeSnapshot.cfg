SPECIFICATION Spec
CONSTANTS
    Requests = {r1, r2}
    c1 = c1
    c2 = c2
    p1 = p1
    p2 = p2
    Orders <- SnapshotOrders
    Configs = {c1, c2}
    Paths = {p1}
    Mounted = p1
    Modes = {"docker"}
    MaxFaults = 0
    NoConfig = NoConfig
    NoPath = NoPath
    NoRequest = NoRequest
    Unread = Unread
INVARIANTS
    SnapshotMatchesDisk
SYMMETRY Symmetry
CHECK_DEADLOCK FALSE
