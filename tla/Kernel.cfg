SPECIFICATION KSpec
CONSTANTS
  NR_TASKS = 4
  QUANTUM = 1
  INT_MAX = 1
  MAX_PID = 5
  MAX_PENDING = 1
  NUM_PAG_KERNEL = 2
  TOTAL_PAGES = 9
  NUM_PAG_DATA = 1
  NUM_PAG_CODE = 1
  Value = {0}
INVARIANTS
  SpaceOfCurrent
  NoSlotLost
CHECK_DEADLOCK FALSE
