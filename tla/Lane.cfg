CONSTANTS
    Subscribers = {waiter}
    LogLimit = 2
    QueueLimit = 1
    MaxMessages = 3
    MaxGenerations = 2
SPECIFICATION Spec
INVARIANTS
    LaneTellsLink
    PollMissesNothing
    NoMissedWakeup
PROPERTIES
    CatalogsAdvance
