SPECIFICATION Spec
CONSTANTS
    KEEPALIVE_INTERVAL = 1
    RECONNECT_INTERVAL = 1
    HANDSHAKE_TIMEOUT = 2
    HANDSHAKE_ATTEMPT_TIMEOUT = 1
    MAX_ATTEMPTS = 3
    CallKinds = {"reconnect", "reset", "disconnect", "backup"}
    MaxCalls = 2
    MaxFaults = 1
    MaxChanges = 2
INVARIANTS
    StatusTracksLink
    SessionTracksLink
    SearchIsArmed
    MessagesAreOfThisLink
