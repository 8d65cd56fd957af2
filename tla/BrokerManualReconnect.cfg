SPECIFICATION Spec
CONSTANTS
    KEEPALIVE_INTERVAL = 1
    RECONNECT_INTERVAL = 1
    HANDSHAKE_TIMEOUT = 2
    HANDSHAKE_ATTEMPT_TIMEOUT = 1
    MAX_ATTEMPTS = 3
    CallKinds = {"reconnect", "backup"}
    MaxCalls = 2
    MaxFaults = 0
    MaxChanges = 1
PROPERTY ManualReconnectIsAvailable
