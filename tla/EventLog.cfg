SPECIFICATION HostSpec
CONSTANTS
    Procs = {p1, p2}
    Sources = {s1, s2}
    NoSource = NoSource
    NoProc = NoProc
    Nil = Nil
    Calls = {"append", "build", "find", "aggregate"}
    IndexThreshold = 1
    MaxWrites = 3
    MaxCrashes = 1
    MaxChops = 1
    MaxClock = 1
SYMMETRY Symmetry
CHECK_DEADLOCK FALSE
INVARIANTS
    Chain
    LookupsTrue
PROPERTIES
    ImplementsStream
