SPECIFICATION FairSpec
CONSTANTS
    Clients = {n1}
    Removers = {n1}
    Delays = {1, 2}
    MaxTime = 3
    MaxSetups = 2
PROPERTIES
    InstantServedOrRemoved
CHECK_DEADLOCK FALSE
