CONSTANTS
    t1 = t1
    t2 = t2
    Tools = {t1, t2}
    Mutating = {t1, t2}
    Unnamed = {t2}
    Observed = {t2}
    Intents = {t1}
    Settings <- AllButNamedExternal
    MaxPrompts = 2
    MaxRetries = 1
    MaxKills = 1
    NoTool = NoTool
SPECIFICATION Spec
CHECK_DEADLOCK FALSE
INVARIANTS
    CallsTrue
    PromptsKept
    StopSettles
