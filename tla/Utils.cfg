SPECIFICATION Spec
CONSTANTS
  BUFFER = 10
  Number <- MCNumber
  PAGE = 4
  UINT = 32
  CYCLESPERTICK = 5
  USER_FIRST_PAGE = 2
  NUM_PAG_DATA = 2
  NUM_PAG_CODE = 1
INVARIANTS
  CopiesExactly
  ShowsNumber
  RefusedIsInvalid
  TicksExact
