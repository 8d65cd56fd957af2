SPECIFICATION Spec
CONSTANTS
    KEEPALIVE_INTERVAL = 1
    RECONNECT_INTERVAL = 1
    HANDSHAKE_TIMEOUT = 2
    HANDSHAKE_ATTEMPT_TIMEOUT = 1
    MAX_ATTEMPTS = 3
    CallKinds = {"send", "request", "tagged", "reset"}
    MaxCalls = 2
    MaxFaults = 0
    MaxChanges = 2
INVARIANTS
    NoLostCall
    RightReply
