SPECIFICATION Spec
CONSTANTS
    Assocs = {1, 2}
    RanIds = {1, 2}
    Imsis = {1}
    OwnRan <- MCDisjointRan
    MaxAmf = 2
    MaxUnc = 2
    QueueCap = 1
    MaxProcs = 5
INVARIANTS
    TypeOK
    AmfIdKeepsItsRanId
PROPERTIES
    ReleaseIsLocal
    ReleaseClearsRanMap
    SettledUeIsGone
CHECK_DEADLOCK FALSE
