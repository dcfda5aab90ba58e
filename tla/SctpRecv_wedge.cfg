SPECIFICATION Spec
CONSTANTS
    Msgs <- LeadingMsgs
    Abandonable = {}
    MAX_RECV_GAP = 4
    RECV_GAP_BUF_SIZE = 8
    MAX_MESSAGE_SIZE = 4
    RESERVE = 2
    MAX_DATACHANNELS = 2
    OUT_QUEUE_SIZE = 2
    TSN_MOD = 16
    SSN_MOD = 8
    InitTsn = 14
    InitSsn = 7
INVARIANT
    WindowReopens
