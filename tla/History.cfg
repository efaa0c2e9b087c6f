\* What `turnal blame` and `turnal bisect` answer about small recorded histories.
CONSTANTS
    a = a
    b = b
    Sessions = {a, b}
    Paths = {"p", "q"}
    FirstPath = "p"
    Sizes <- MCSizes
SYMMETRY Symmetry
SPECIFICATION Spec
CHECK_DEADLOCK FALSE
INVARIANTS
    OriginsTrue
    BlameAnswers
    BreakBlamed
