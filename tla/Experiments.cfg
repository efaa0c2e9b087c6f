CONSTANTS
    p1 = p1
    p2 = p2
    r1 = r1
    c1 = c1
    c2 = c2
    Nobody = Nobody
    Procs = {p1, p2}
    Runs = {r1}
    Cases = {c1, c2}
    Commands = {"agent", "fork", "hook", "case", "apply"}
    MaxFaults = 1
SYMMETRY Symmetry
CONSTRAINT CaseBound
SPECIFICATION Spec
CHECK_DEADLOCK FALSE
INVARIANTS
    RunsOwned
    LogConsistent
    ForksKeepWorkspace
