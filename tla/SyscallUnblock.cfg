SPECIFICATION SSpec
CONSTANTS
  Pid = {2, 7}
  STACK_ROOM = 4
  Scratch <- MCScratch
  WriteArgs <- MCWriteArgs
  UserRegs <- MCUserRegs
INVARIANTS
  UnblockGetsPid
CHECK_DEADLOCK FALSE
