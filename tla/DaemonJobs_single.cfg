SPECIFICATION FairSpec
CONSTANTS
    p = p
    k = k
    op = op
    NoJob = NoJob
    Jobs = {p}
    Parent <- Single
    Logged = {p}
    AtTerminal = {p}
    Operators = {op}
    Capacity = 2
    MaxAsks = 1
    MaxFaults = 1
INVARIANTS
    OkClosesJob
    OutcomesAreTrue
    FoundMeansDead
PROPERTIES
    JobLogSpec
    CancelEndsFrontend
    DeadWorkerFreesThread
