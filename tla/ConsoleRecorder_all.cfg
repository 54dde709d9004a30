SPECIFICATION MCSpec
CONSTANTS
    Commanders = {c1, c2}
    Scenarios <- SomeScenarios
    Tokens <- SomeTokens
    Rooms <- SomeRooms
INVARIANTS
    OutputIsWhole
    RecordsAgree
    PassesThrough
PROPERTIES
    ExitEndsRecorder
CHECK_DEADLOCK FALSE
