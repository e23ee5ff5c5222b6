SPECIFICATION FairSpec
CONSTANTS
  N = 4
  TIMES = 2
  NULL = NULL
INVARIANT WokenEats
PROPERTIES TableSpec EveryoneQuits
