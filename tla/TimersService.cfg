SPECIFICATION Spec
CONSTANTS
    Clients = {n1, n2}
    Removers = {n1, n2}
    Delays = {1, 2}
    MaxTime = 3
    MaxSetups = 3
SYMMETRY ClientSymmetry
INVARIANTS
    TypeOK
    PlacesAreDisjoint
PROPERTIES
    ImplementsService
    RemoveCancels
CHECK_DEADLOCK FALSE
