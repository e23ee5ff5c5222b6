SPECIFICATION FairSpec
CONSTANTS
  N = 4
  TIMES = 2
  NULL = NULL
INVARIANTS QueuesOK PermitsExact
PROPERTIES TableSpec EveryoneQuits
