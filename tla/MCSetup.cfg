SPECIFICATION Spec
CONSTANTS
    d1 = d1
    d2 = d2
    t1 = t1
    t2 = t2
    s1 = s1
    s2 = s2
    h1 = h1
    h2 = h2
    z = z
    w = w
    u1 = u1
    u2 = u2
    p1 = p1
    Devices = {d1, d2}
    Ttys = {t1, t2}
    Sockets = {s1, s2}
    Labels <- MCLabels
    Nil = Nil
    Hosts = {h1, h2}
    Topics = {z, w}
    DefaultTopic = z
    Secrets = {u1, u2}
    Ports = {p1}
    None = None
    Orders <- MCOrders
    PiPhiMqtt <- MCPiPhiMqtt
    AskServers <- MCAskServers
    Kinds = {"map", "check"}
    Inputs <- MCInputs
    Houses <- MCHouses
    Asks = {a1}
    Applies = {b1, b2}
INVARIANTS
    TypeOK
    FileLeadsToItsAdapter
    AsksWhereFileSays
PROPERTIES
    HealthKeepsAnswering
