SPECIFICATION Spec
CONSTANTS
  MAX_PID = 6
  MAX_PROCESS = 5
  Memory = {0,3,4,5,6,7,8,9,10,11,12,13,14,15,16,17,18,19,20,21,22,23,24,25,26,27,28,29,30,31,32,33}
  SlobSize = 2
  EXEC_MAX_ARG_NUM = 2
  MaxCalls = 6
CHECK_DEADLOCK FALSE
INVARIANTS PidsExact LinksExact MemoryExact HoldsExact
