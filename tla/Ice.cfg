SPECIFICATION FairSpec
CONSTANTS
    Locals <- MCLocals
    Signalled <- MCSignalled
    Works <- MCWorks
    Timely = TRUE
    MAX_CANDIDATES = 2
    MAX_PENDING_CHECKS = 2
    MAX_CHECKS = 2
INVARIANTS
    QueueOrdered
    OneSlotPerPair
    SelectedWorks
PROPERTY
    Settles
CHECK_DEADLOCK FALSE
