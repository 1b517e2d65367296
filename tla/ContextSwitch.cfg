SPECIFICATION Spec
CONSTANTS
  NR_TASKS = 3
  KERNEL_STACK_SIZE = 17
  UserValue <- MCUserValue
INVARIANTS
  ResumesItself
  CurrentIsRunning
PROPERTIES
  HandlersReturn
