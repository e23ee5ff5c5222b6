SPECIFICATION FairSpec
CONSTANTS
  w1 = w1
  w2 = w2
  w3 = w3
  c1 = c1
  c2 = c2
  NULL = NULL
  Worker = {w1, w2, w3}
  Client = {c1, c2}
  MAX_TASKS = 3
  MaxTask = 5
CHECK_DEADLOCK FALSE
INVARIANT NoLostTask
PROPERTIES PoolSpec TaskStarts DestroyFrees
