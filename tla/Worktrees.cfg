SPECIFICATION Spec
CONSTANTS
    ws = ws
    eval = eval
    d1 = d1
    d2 = d2
    Rules = 1
    Meta = 0
    Scratch = 2
    Ignores <- MCIgnores
    Denied <- MCDenied
    Workspace = ws
    Evaluation = eval
    Spots = {d1, d2}
    Checkpoints <- MCCheckpoints
    CommitOf <- MCCommitOf
    StartTrees <- MCStartTrees
    OwnTree <- MCOwnTree
    Additions <- MCAdditions
    MaxCommands = 3
    MaxStops = 1
    MaxActs = 1
SYMMETRY Swapped
CHECK_DEADLOCK FALSE
INVARIANTS
    DirectoriesTrue
PROPERTIES
    RestoresExact
    PreviewTrue
    ProjectsKept
