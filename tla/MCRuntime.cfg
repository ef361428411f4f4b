SPECIFICATION Spec
CONSTANTS
    Requests = {r1, r2, r3}
    Orders <- AllOrders
    Ids = {a, b}
    Brokers = {m1, m2}
    a = a
    b = b
    m1 = m1
    m2 = m2
    MaxFaults = 1
    None = None
INVARIANTS
    TypeOK
    EventsMatchRegistry
    RefreshIsShown
    CurrentMatchesFile
    SyncLeavesSnapshot
PROPERTIES
    EarlierScansAreLateAnswers
SYMMETRY Symmetry
CHECK_DEADLOCK FALSE
