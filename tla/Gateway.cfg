SPECIFICATION Spec
CONSTANTS
    Slots = {1, 2}
    NewSlots = {3}
    MaxCalls = 2
    MaxEvents = 1
INVARIANTS
    MutationsAreFaithful
PROPERTIES
    VerifiedIsOnTheDevice
CHECK_DEADLOCK FALSE
