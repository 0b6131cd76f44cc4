SPECIFICATION Spec
CONSTANTS
    Sids = {1}
    Kinds = {"modify", "n1"}
    Threads = {h1}
    MaxContexts = 1
    MaxTransfers = 1
    MaxAsks = 1
    None = None
PROPERTY ModifyFindsItsSession
CHECK_DEADLOCK FALSE
