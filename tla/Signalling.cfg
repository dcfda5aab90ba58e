SPECIFICATION FairSpec
CONSTANTS
    Programs <- AllPrograms
    MAX_MEDIA_TRACKS = 2
    SDP_MAX_CANDIDATES = 4
    TWCC_EXT_ID = 3
    MAX_LOCAL_CANDIDATES = 3
    MAX_ICE_CANDIDATES = 4
    MAX_DATACHANNELS = 3
    SEND_QUEUE = 2
INVARIANTS
    NegotiationAgrees
    CandidatesArrive
    ChannelsAgree
PROPERTY
    ChannelsOpen
CHECK_DEADLOCK FALSE
