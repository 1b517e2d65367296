SPECIFICATION BSpec
CONSTANTS
  NR_TASKS = 4
  QUANTUM = 2
  INT_MAX = 2
  MAX_PID = 3
  MAX_PENDING = 1
  NUM_PAG_KERNEL = 2
  TOTAL_PAGES = 14
  NUM_PAG_DATA = 2
  NUM_PAG_CODE = 2
  Value = {0}
  Geometry = {2, 3}
  SEGMENT = 4
  PARAGRAPHS = 4
  ROOM = 3
  SECTOR = 2
  PARA = 2
  BUF = 3
  Size = {0, 1, 4, 7, 8, 9, 11, 13, 130}
  AX = 3
  PAGE_SIZE = 2
INVARIANTS
  LoadedInOrder
  RequestsServable
  
  BootEstablishesKernel
  

  
CHECK_DEADLOCK FALSE
