SPECIFICATION Spec
CONSTANTS
    Devices = {d, e}
    Principals = {p, q}
    Callers = {a, b}
    MaxOffers = 2
    MaxSessions = 2
    MaxEvents = 2
SYMMETRY Symmetry
INVARIANTS
    LastSessionIsListed
    PendingMeansWaiting
    RequestsReachOwnDevice
PROPERTIES
    CallsAreRemoteCalls
CHECK_DEADLOCK FALSE
