SPECIFICATION Spec
CONSTANTS
    home = home
    side = side
    copy = copy
    Roots = {home, side, copy}
    Rank <- MCRank
    Home = home
    Neighbour = side
    Procs = {p1, p2}
    None = None
    Uses <- MCUses
    MaxIds = 7
SYMMETRY Swapped
CHECK_DEADLOCK FALSE
INVARIANTS
    IdentitiesApart
PROPERTIES
    RemovedStaysRemoved
    OthersUntouched
