SPECIFICATION LogSpec
CONSTANTS
    a = a
    b = b
    c = c
    NoWriter = NoWriter
    Writers = {a, b, c}
    Mode <- Mixed
    MaxEvents = 1
    MaxFaults = 2
INVARIANTS
    SerialLog
    WrittenOnce
PROPERTIES
    SessionLogSpec
