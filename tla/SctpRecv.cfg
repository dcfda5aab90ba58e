SPECIFICATION FairSpec
CONSTANTS
    Msgs <- MixedMsgs
    Abandonable = {3}
    MAX_RECV_GAP = 5
    RECV_GAP_BUF_SIZE = 6
    MAX_MESSAGE_SIZE = 4
    RESERVE = 2
    MAX_DATACHANNELS = 2
    OUT_QUEUE_SIZE = 1
    TSN_MOD = 16
    SSN_MOD = 8
    InitTsn = 14
    InitSsn = 7
INVARIANTS
    TypeOK
    Intact
    OrderedOnce
    AckedIsKept
    PoolTiled
    WindowReopens
PROPERTIES
    NoRenege
    AllDelivered
