CONSTANTS
    Scalars = {"position"}
    Blocks = {"amp"}
    Lights = {}
    Switches = {}
    MaxValue = 1
    GraceMs = 1
    Polling = FALSE
    MaxEvents = 2
    MaxTouches = 0
    MaxBreaks = 0
    MaxTime = 1
SPECIFICATION Spec
PROPERTIES
    GridsDoNotLeak
CHECK_DEADLOCK FALSE
