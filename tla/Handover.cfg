SPECIFICATION Spec
CONSTANTS
    Gnbs = {"A", "B", "C"}
    Unknown = "unknown"
    RanIds = {1, 2}
    AmfId = 1
    Row <- DecodingRow
    MaxRequired = 3
INVARIANTS
    TypeOK
    ReleaseSparesTheUe
    UeIsFound
CHECK_DEADLOCK FALSE
