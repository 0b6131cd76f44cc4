SPECIFICATION Spec
CONSTANTS
    Sids = {1}
    Kinds = {"setup", "modify", "n1"}
    Threads = {h1, h2}
    MaxContexts = 2
    MaxTransfers = 2
    MaxAsks = 2
    None = None
INVARIANTS TypeOK TransferIsConserved OrderKept AnswerStaysInItsContext
SYMMETRY ThreadSymmetry
CHECK_DEADLOCK FALSE
