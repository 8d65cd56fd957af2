CONSTANTS
    Scalars = {"position"}
    Blocks = {"amp"}
    Lights = {"A"}
    Switches = {{"amp", "A"}}
    MaxValue = 1
    GraceMs = 1
    Polling = TRUE
    MaxEvents = 2
    MaxTouches = 1
    MaxBreaks = 1
    MaxTime = 2
SPECIFICATION FairSpec
INVARIANTS
    PendingIsShown
    MovesAreSerial
PROPERTIES
    RollbackUndoesOwnPreview
    Converges
CHECK_DEADLOCK FALSE
