SPECIFICATION Spec
CONSTANTS
  Thread = {t1, t2, t3, t4, t5, t6}
  CV = {c1, c2}
  NULL = NULL
SYMMETRY Symmetry
INVARIANT MonitorOK
PROPERTY HoareSpec
CHECK_DEADLOCK FALSE
