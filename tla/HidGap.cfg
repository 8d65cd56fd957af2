SPECIFICATION Spec
CONSTANTS
    MaxReports = 2
    Sizes = {2}
    MaxFrames = 3
    MaxFaults = 0
    MaxSessions = 1
INVARIANT NoTornFrame
CHECK_DEADLOCK FALSE
