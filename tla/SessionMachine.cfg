SPECIFICATION MachineSpec
CONSTANTS
    KEEPALIVE_INTERVAL = 3
    RECONNECT_INTERVAL = 2
    HANDSHAKE_TIMEOUT = 6
    HANDSHAKE_ATTEMPT_TIMEOUT = 2
    MAX_ATTEMPTS = 5
INVARIANTS
    ReadyMeansSynchronized
    OneProbePerWindow
    SilentLinkIsProbed
    ReconnectCadence
