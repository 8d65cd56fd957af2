CONSTANTS
    Subscribers = {}
    LogLimit = 1
    QueueLimit = 1
    MaxMessages = 3
    MaxGenerations = 1
SPECIFICATION Spec
PROPERTIES
    TouchscreenChangesStick
