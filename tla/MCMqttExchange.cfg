SPECIFICATION Spec
CONSTANTS
    Calls = {a, b}
    Readers = {}
    Workers = 2
    MaxConnects = 2
    MaxForeign = 1
    NoTag = NoTag
    Nothing = Nothing
    Foreign = Foreign
    Devices = Devices
INVARIANTS
    TypeOK
    AnswersDoNotCross
    OwnAnswerWhenAlone
    ScansPerConnection
PROPERTIES
    ImplementsClient
SYMMETRY CallSymmetry
CHECK_DEADLOCK FALSE
