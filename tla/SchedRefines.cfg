SPECIFICATION Spec
CONSTANTS
  NR_TASKS = 5
  QUANTUM = 1
  INT_MAX = 1
  MAX_PID = 5
  MAX_PENDING = 1
INVARIANTS
  TypeOK
  OnePlace
  NoLostWakeup
  FamilyTree
  UniquePID
PROPERTIES
  IdleIsForever
  WokenByParent
  RefinesProcStates
  NoStarvation
