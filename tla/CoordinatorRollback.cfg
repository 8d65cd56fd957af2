CONSTANTS
    Scalars = {"position"}
    Blocks = {}
    Lights = {}
    Switches = {}
    MaxValue = 2
    GraceMs = 1
    Polling = FALSE
    MaxEvents = 2
    MaxTouches = 0
    MaxBreaks = 0
    MaxTime = 1
SPECIFICATION Spec
INVARIANTS
    StateTruthful
CHECK_DEADLOCK FALSE
