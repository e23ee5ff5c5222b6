SPECIFICATION FairSpec
CONSTANTS
  Process = {p1, p2, p3}
  BIG_STRIDE = 2
  Priority = {2}
  NULL = NULL
INVARIANTS HeapExact LeastFirst
PROPERTY Served
