SPECIFICATION FairSpec
CONSTANTS
  idle = idle
  init = init
  u1 = u1
  u2 = u2
  Pid = {idle, init, u1, u2}
  idleproc = idle
  initproc = init
  NULL = NULL
  MAX_PROCESS = 4
  MaxSlice = 1
  MaxSleep = 1
INVARIANTS TypeOK RunQueueExact NoLostChild TimerBacksSleep NoAssertFails
PROPERTIES TreeSpec KilledDiesOrWaits SleeperWakes WaitReturns
