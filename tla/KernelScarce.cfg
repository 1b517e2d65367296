SPECIFICATION KSpec
CONSTANTS
  NR_TASKS = 4
  QUANTUM = 1
  INT_MAX = 1
  MAX_PID = 4
  MAX_PENDING = 1
  NUM_PAG_KERNEL = 2
  TOTAL_PAGES = 14
  NUM_PAG_DATA = 2
  NUM_PAG_CODE = 1
  Value = {0, 1}
INVARIANTS
  MTypeOK
  SpaceOfCurrent
  FramesAccounted
  PrivatePages
  NoStaleTLB
PROPERTIES
  PrivateMemories
  NoStarvationUnlessHalted
CHECK_DEADLOCK FALSE
