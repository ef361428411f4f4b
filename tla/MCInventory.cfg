SPECIFICATION Spec
CONSTANTS
    i1 = i1
    i2 = i2
    a1 = a1
    n1 = n1
    Texts <- MCTexts
    Addresses <- MCAddresses
    Zero = Zero
    OutOfRange = OutOfRange
    None = None
    Junk = Junk
    MaxNodes = 2
    MaxLinks = 2
    NodeLists <- MCNodeLists
    LinkLists <- MCLinkLists
    DeviceLists <- MCDeviceLists
INVARIANTS
    TypeOK
    LinksJoinTheirNodes
    EveryLinkIsDrawn
    DeviceListsAreWhole
CHECK_DEADLOCK FALSE
