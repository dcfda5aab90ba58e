SPECIFICATION Spec
CONSTANTS
    OUT_QUEUE_SIZE = 3
    PKT_RING_SIZE = 2
    CURSOR_MOD = 6
    TxSlots = {t1}
    NackSlots = {n1}
    FecSlots = {f1}
    Packets = {p1, p2}
    NoPacket = NoPacket
SYMMETRY Symmetric
INVARIANTS
    TypeOK
    QueuedIntact
    WrapIsOwn
    FrameFits
    BusyIsQueued
