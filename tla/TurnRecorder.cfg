SPECIFICATION Spec
CONSTANTS
    Procs = {p1, p2}
    Sessions = {"a","b"}
    Worktrees = {"main"}
    Primary = "main"
    HomeOf <- HomeInOne
    Calls = {"prompt", "stop"}
    Requested = {0}
    NoProc = NoProc
    Nil = Nil
    MaxTurns = 2
    FaultKinds = {"kill", "tear", "failure"}
    MaxFaults = 1
SYMMETRY Symmetry
CHECK_DEADLOCK FALSE
INVARIANTS
    RecordedOrJournaled
    EventsBacked
    RecallAnswers
    ReadersAgree
    DoctorTrue
PROPERTIES
    ActiveEndsWithPost
