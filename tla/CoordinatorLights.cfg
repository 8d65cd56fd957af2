CONSTANTS
    Scalars = {}
    Blocks = {"amp", "cab"}
    Lights = {"A", "B"}
    Switches = {{"amp", "A"}, {"cab", "B"}}
    MaxValue = 1
    GraceMs = 1
    Polling = FALSE
    MaxEvents = 2
    MaxTouches = 0
    MaxBreaks = 0
    MaxTime = 1
SPECIFICATION Spec
PROPERTIES
    LightsKeepNewer
CHECK_DEADLOCK FALSE
