SPECIFICATION FairSpec
CONSTANTS
    KEEPALIVE_INTERVAL = 1
    RECONNECT_INTERVAL = 1
    HANDSHAKE_TIMEOUT = 2
    HANDSHAKE_ATTEMPT_TIMEOUT = 1
    MAX_ATTEMPTS = 3
    CallKinds = {"reset", "backup"}
    MaxCalls = 1
    MaxFaults = 0
    MaxChanges = 2
PROPERTIES
    LinkComesBack
    CommandsAreReceived
