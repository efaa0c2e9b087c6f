SPECIFICATION FairSpec
CONSTANTS
    Sessions = {"s"}
    Manual = Manual
    Checkpoints = {"turn", "save"}
    Owner <- OwnerDef
    TreeOf <- TreeDef
    Paths = {1, 2, 3, 4}
    RulesFile = 1
    Ignore <- IgnoreDef
    Denied = {4}
    StartTree <- StartDef
    Heads = {"main", "topic"}
    HeadOf <- HeadDef
    StartHead = "main"
    Committed <- CommittedDef
    Modes = {"checkpoint", "workspace-git"}
    Scoped = FALSE
    NoTarget = NoTarget
    BaseVersion = 2
    MaxEdits = 1
    MaxRuns = 2
    MaxStops = 2
CHECK_DEADLOCK FALSE
INVARIANTS
    RecoveryPossible
    HistoryBacked
PROPERTIES
    RestoresTrue
    NothingUnsavedDestroyed
    AmbiguousKept
    RecoveryCompletes
