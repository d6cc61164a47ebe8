SPECIFICATION ArmSpec
CONSTANTS
  FRAMES = 49
  QUEUE_PAGES = 2
  NET_HEAP_PAGES = 1
  RX_BUFFERS = 2
  TX_BUFFERS = 1
  FreeAtBoot = {6, 24, 46, 48, 49}
  RUNS = 1
  MAX_EVALUATIONS = 2
  MAX_YIELDS = 2
  POLL_BOUND = 4
  REPLY_LEN = 2
  MAX_FAULTS = 1
INVARIANTS MemorySafe EvaluationExact
PROPERTIES EvaluationEnds
