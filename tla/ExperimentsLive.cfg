CONSTANTS
    p1 = p1
    p2 = p2
    r1 = r1
    c1 = c1
    c2 = c2
    Nobody = Nobody
    Procs = {p1, p2}
    Runs = {r1}
    Cases = {c1}
    Commands = {"fork", "case"}
    MaxFaults = 1
SPECIFICATION FairSpec
CHECK_DEADLOCK FALSE
PROPERTIES
    AttemptsConclude
    WorkspacesReclaimed
