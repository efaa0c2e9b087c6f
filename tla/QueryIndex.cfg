CONSTANTS
    s1 = s1
    r1 = r1
    r2 = r2
    Sessions = {s1}
    SessionOrder <- One
    Rebuilders = {r1, r2}
    Readers = {d1}
    Attempts = 2
    MaxWrites = 2
SPECIFICATION MCSpec
SYMMETRY Interchangeable
CHECK_DEADLOCK FALSE
INVARIANTS
    AnswersTrue
