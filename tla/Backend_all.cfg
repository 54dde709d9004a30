SPECIFICATION MCSpec
CONSTANTS
    f = f
    g = g
    s = s
    o = o
    d = d
    e = e
    proj = proj
    other = other
    NoCwd = NoCwd
    glob = glob
    NoDir = NoDir
    NoFile = NoFile
    Empty = Empty
    Torn = Torn
    NoDaemon = NoDaemon
    NoFront = NoFront
    Savers = {s}
    Fronts = {f, g}
    Old = {o}
    Dirs = {proj, other, glob}
    Cwds = {"inside", "elsewhere"}
    Homes = {"home"}
    Project <- ProjectOf
    Global <- GlobalOf
    Context <- InAndOut
    HomeOf <- OldIn
    Daemons = {d, e}
    Foreign = {d}
    OwnContext <- Elsewhere
    Commands <- AllCommands
    MaxTries = 1
    MaxFaults = 1
INVARIANTS
    SerialListing
    WorksInOwnContext
    RunAtMostOnce
PROPERTIES
    EveryCommandEnds
CHECK_DEADLOCK FALSE
