SPECIFICATION FairSpec
CONSTANTS
    Calls = {a, d}
    Readers = {d}
    Workers = 1
    MaxConnects = 2
    MaxForeign = 1
    NoTag = NoTag
    Nothing = Nothing
    Foreign = Foreign
    Devices = Devices
PROPERTIES
    ImplementsClient
    EveryCallEnds
CHECK_DEADLOCK FALSE
