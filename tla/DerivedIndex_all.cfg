SPECIFICATION Spec
CONSTANTS
    a = a
    b = b
    c = c
    r = r
    Nobody = Nobody
    Operations = {a, c, r}
    Kind <- OneOfEach
    MaxFaults = 1
INVARIANTS
    IndexIsTrue
    NothingForgotten
