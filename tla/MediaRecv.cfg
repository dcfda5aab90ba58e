SPECIFICATION Spec
CONSTANTS
  SEQ_MOD = 16
  REORDER_SLOTS = 2
  MAX_WAIT = 1
  JITTER_SLOTS = 2
  DEPTH = 1
  None = None
  Builds <- AllBuilds
  MTU = 12
  NAL_BUF = 29
  IN_FLIGHT = 2
  MAX_SSRC_MAP = 4
  GROUP = 2
  RING_COUNT_MOD = 4
  PLI_INTERVAL = 1
CHECK_DEADLOCK FALSE
INVARIANTS
  FramesIntact
  FramesInOrder
  AuthenticAccepted
PROPERTY
  BuffersDrain
