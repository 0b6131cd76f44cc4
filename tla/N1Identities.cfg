SPECIFICATION Spec
CONSTANTS
    Ues = {1, 2}
    MaxConn = 3
    MaxTmsi = 4
    MaxFail = 0
    Overtaking = TRUE
    AmfSetId = 1
    AmfPointer = 1
INVARIANTS
    TypeOK
    IdentitiesAgree
    OneProcedureAtATime
PROPERTIES
    RegisteredBySmc
CHECK_DEADLOCK FALSE
