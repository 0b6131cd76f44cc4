SPECIFICATION FairSpec
CONSTANTS
    Clients = {"TASK_AMF_N1", "TASK_AMF_N2"}
    Makes <- MCMakes
    Keys = {1, 2}
    MaxPid = 3
INVARIANTS
    TypeOK
    AwaitedIsSetOrKnown
PROPERTIES
    ImplementsCall
    CallReturns
CHECK_DEADLOCK FALSE
