CONSTANTS
    Scalars = {"position"}
    Blocks = {"amp"}
    Lights = {}
    Switches = {}
    MaxValue = 1
    GraceMs = 2
    Polling = FALSE
    MaxEvents = 3
    MaxTouches = 0
    MaxBreaks = 0
    MaxTime = 3
SPECIFICATION Spec
PROPERTIES
    NoAcknowledgementFromBefore
CHECK_DEADLOCK FALSE
