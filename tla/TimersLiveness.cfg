SPECIFICATION FairSpec
CONSTANTS
    Clients = {n1, n2}
    Removers = {}
    Delays = {1, 2}
    MaxTime = 3
    MaxSetups = 3
PROPERTIES
    InstantServed
CHECK_DEADLOCK FALSE
