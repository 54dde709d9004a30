SPECIFICATION Spec
CONSTANTS
    p = p
    k = k
    op = op
    NoJob = NoJob
    Jobs = {p, k}
    Parent <- Nested
    Logged = {p}
    AtTerminal = {}
    Operators = {op}
    Capacity = 1
    MaxAsks = 0
    MaxFaults = 0
INVARIANTS
    MarkedIsDeadOrDying
