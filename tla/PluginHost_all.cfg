SPECIFICATION Spec
CONSTANTS
    t = t
    none = none
    Servers = {1, 2}
    Deaf = {2}
    Names = {t}
    NoServer = none
    MaxCalls = 2
    MaxBabble = 2
INVARIANTS
    StaysInStep
PROPERTIES
    AlwaysEnds
