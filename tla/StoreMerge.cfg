SPECIFICATION Spec
CONSTANTS
    a = a
    b = b
    a1 = a1
    b1 = b1
    Stores = {a, b}
    Streams = {a1, b1}
    Owner <- MCOwner
    Linked = {a1}
    Procs = {p1, p2}
    None = None
    MaxTurns <- MCTurns
    MaxImports = 2
    MaxFaults = 1
SYMMETRY Swapped
CHECK_DEADLOCK FALSE
INVARIANTS
    ImportsFound
PROPERTIES
    ImportsTrue
