SPECIFICATION FairSpec
CONSTANTS
    CreationOrder <- MCCreationOrder
    IdOrder <- MCIdOrder
    App = "app"
    N2 = "n2"
    Timed = {"app", "n1", "n2"}
    Sctp = "sctp"
    Http = "http"
    Msgs = {m1, m2}
    Terminate = Terminate
    None = None
INVARIANTS TypeOK AsleepHasNothing InstancesOutliveTasks
PROPERTIES CreateReturns AcceptedIsHandled ShutdownEnds
CHECK_DEADLOCK FALSE
