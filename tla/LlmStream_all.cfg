SPECIFICATION StreamSpec
CHECK_DEADLOCK FALSE
CONSTANTS
    x = x
    y = y
    NoName = NoName
    Instructed = TRUE
    Providers = {"compat", "gpt", "gemini", "echo"}
    Tools = {x, y}
    MaxSaid = 2
    MaxPieces = 2
    MaxTexts = 1
    MaxTurns = 2
    MaxRetries = 2
    LoopTests = {1, 2}
SYMMETRY ToolSymmetry
INVARIANTS
    CallsAsAsked
    NothingLost
    AnswersFollowCalls
