SPECIFICATION FairSpec
CONSTANTS
    MaxReports = 2
    Sizes = {1, 2, 3}
    MaxFrames = 2
    MaxFaults = 2
    MaxSessions = 2
INVARIANTS
    DropIsPending
PROPERTIES
    FramesAreDelivered
    TornFrameIsFlagged
    DeadReaderEndsLink
CHECK_DEADLOCK FALSE
