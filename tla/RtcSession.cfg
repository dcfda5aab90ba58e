SPECIFICATION FairSpec
CONSTANTS
    MAX_RESTARTS = 1
    OUT_QUEUE_SIZE = 1
    FreeSlots = {0, 1}
    Hellos = {"hello", "fragments"}
INVARIANTS
    RolesSettled
    ConnectedTogether
    ConnectedOnce
PROPERTY
    Connects
