CONSTANTS
    a = a
    b = b
    home = home
    mirror = mirror
    Devices = {a, b}
    TurnsOf <- PublisherAndReader
    Remotes = {home, mirror}
    PromptModes = {"redacted_text"}
    StartPolicy <- FullTextAtHome
    MaxBundlesPerBatch = 1
    FaultKinds = {"stop", "tamper", "change"}
    MaxFaults = 2
SPECIFICATION FairSpec
CHECK_DEADLOCK FALSE
INVARIANTS
    PublishedTrue
    CursorBacked
    OnlyAgreed
PROPERTIES
    TurnsArrive
