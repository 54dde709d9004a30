SPECIFICATION StreamSpec
CHECK_DEADLOCK FALSE
CONSTANTS
    x = x
    y = y
    NoName = NoName
    Instructed = FALSE
    Providers = {"compat"}
    Tools = {x, y}
    MaxSaid = 2
    MaxPieces = 1
    MaxTexts = 0
    MaxTurns = 1
    MaxRetries = 1
    LoopTests = {}
INVARIANTS
    CallsKeepTheirNames
