SPECIFICATION FairSpec
CONSTANTS
    External <- MCExternal
    Commands <- MCCommands
    Begins <- MCBegins
    Matches <- MCMatches
    ToolCalls <- MCToolCalls
    Modes <- SomeModes
    CallsPerTurn = 2
    MaxRuns = 2
    MaxContinues = 1
    MaxFaults = 1
INVARIANTS
    CallsAreHandled
    RunIsLogged
    UnfinishedCanResume
PROPERTIES
    InterruptEndsRun
