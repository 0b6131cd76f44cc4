SPECIFICATION FairSpec
CONSTANTS
    Gnbs = {"A", "B"}
    Unknown = "unknown"
    RanIds = {1, 2}
    AmfId = 1
    Row <- CodeRow
    MaxRequired = 4
PROPERTIES
    AckIsCommanded
CHECK_DEADLOCK FALSE
