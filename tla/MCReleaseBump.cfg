SPECIFICATION Spec
CONSTANTS
    Start <- FirstVersion
    Requests <- AllRequests
    Settable <- ByHand
    Pinnable <- PinnedByHand
    Foreign = Foreign
    Unversioned = Unversioned
    MaxRevisions = 3
    None = None
INVARIANTS
    BumpIncrements
CHECK_DEADLOCK FALSE
