SPECIFICATION Spec
CONSTANTS
    Slots = {1, 2}
    NewSlots = {}
    MaxCalls = 1
    MaxEvents = 2
PROPERTIES
    NoBlindReplay
CHECK_DEADLOCK FALSE
