SPECIFICATION FairSpec
CONSTANTS
    Peers = {p1, p2}
    LateClock = FALSE
    MAX_PERMISSIONS = 1
    MAX_CHANNELS = 1
    MAX_TRANSMISSIONS = 2
    RTO_MAX = 2
    LIFETIME = 6
    MARGIN = 5
    PERMISSION_INTERVAL = 1
    PERMISSION_LIFETIME = 6
    CHANNEL_REFRESH = 1
    CHANNEL_LIFETIME = 6
    MAX_AGE = 1
    MAX_OUTAGE = 2
    FAULTS = 1
INVARIANTS
    LeaseHeld
    RelayKeepsPeers
PROPERTY
    PeersReady
