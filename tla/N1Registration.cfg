SPECIFICATION FairSpec
CONSTANTS
    Ues = {1}
    MaxConn = 3
    MaxTmsi = 4
    MaxFail = 1
    Overtaking = FALSE
    AmfSetId = 1
    AmfPointer = 1
PROPERTIES
    RegistrationAnswered
CHECK_DEADLOCK FALSE
