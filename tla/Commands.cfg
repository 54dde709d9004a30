SPECIFICATION MCSpec
CONSTANTS
    Plain <- MCPlain
    Trimmed <- MCTrimmed
    NoHome = NoHome
    None = None
    Builtin <- MCBuiltin
    Bad = Bad
    Terminal = Terminal
    Disks <- MCDisks
    RootCalls <- MCRootCalls
    ChildArgs <- MCChildArgs
    Saved = {}
    Codes = {0, 3}
    DefaultLimit = 2
    MaxSteps = 1
    MaxLevels = 4
    Typed <- MCTyped
    Shifted <- MCShifted
    ByteOrder <- MCByteOrder
    Foreign <- MCForeign
    MaxTyped = 4
    MaxIds = 3
    MaxKills = 1
    Enabled = {"changed", "console", "memory", "grep"}
    Limits <- MCLimits
    Short = {"is"}
    Inputs <- MCInputs
    Configs <- MCConfigs
    Budget <- MCBudget
    AddonsBudget <- MCAddonsBudget
    HardCap = 7
    Capacity = 1
    MaxFailures = 1
    MaxInterrupts = 2
INVARIANTS
    HandedDown
    NestedIsDenied
    PromptOfTheTask
    MadeSessionsWork
    
    
PROPERTIES
    EveryCallEnds
CHECK_DEADLOCK FALSE
