SPECIFICATION Spec
CONSTANTS
    a = a
    b = b
    Procs = {a, b}
    Leakscan = TRUE
    Sensitive = {1}
    Trigger = 1
    Chunk = 1
    LoadMax = 2
    MaxRuns = 2
    Scenarios <- SomeScenarios
SYMMETRY ProcSymmetry
INVARIANTS
    RecordedTruly
    PartsAccounted
    CompactionsFollow
    PagesFollow
CHECK_DEADLOCK FALSE
