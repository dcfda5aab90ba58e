SPECIFICATION Spec
CONSTANTS
  BWE_MIN = 30
  BWE_MAX = 2000
  BWE_INITIAL = 300
  EMA_ALPHA = 204
  EVENT_THRESHOLD_PCT = 15
  SAFETY_PCT = 85
  UP_HEADROOM_PCT = 20
  MIN_HOLD = 3
  LOSS_DOWN_Q8 = 25
  RTCP_INTERVAL = 5
  OUT_QUEUE_SIZE = 2
  TX_SLOT_COUNT = 1
  TWCC_MAX_PACKETS = 20
  WORD = 24
  CLOCK = 64
  Scenarios <- MCScenarios
INVARIANTS
  ApplicationIsTold
  RungsJustified
  FeedbackRead
  ReportsRotate
CHECK_DEADLOCK FALSE
