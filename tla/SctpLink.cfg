SPECIFICATION LinkSpec
CONSTANTS
    Msgs <- LinkMsgs
    Retries <- LinkRetries
    Abandonable = {1}
    MAX_RECV_GAP = 4
    RECV_GAP_BUF_SIZE = 8
    MAX_MESSAGE_SIZE = 4
    RESERVE = 2
    MAX_DATACHANNELS = 2
    OUT_QUEUE_SIZE = 1
    TSN_MOD = 16
    SSN_MOD = 8
    InitTsn = 15
    InitSsn = 7
    MAX_SEND_QUEUE = 3
    SEND_BUF_SIZE = 3
    RTO_INITIAL = 1
    RTO_MAX = 2
    MAX_RETRANSMITS = 2
INVARIANTS
    NothingLost
    WakesUp
PROPERTIES
    ConformingPeer
    ImplementsStream
