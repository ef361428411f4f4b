SPECIFICATION Spec
CONSTANTS
    Start <- FirstVersion
    Requests <- AllRequests
    Settable <- ByHand
    Pinnable <- PinnedByHand
    Foreign = Foreign
    Unversioned = Unversioned
    MaxRevisions = 4
    None = None
INVARIANTS
    TypeOK
    TagMatchesImage
    TagsAgree
    TagsOnBranch
    ResolvedIsNewer
PROPERTIES
    LatestNeverGoesBack
CHECK_DEADLOCK FALSE
