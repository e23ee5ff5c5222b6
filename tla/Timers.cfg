SPECIFICATION Spec
CONSTANTS
  Timer = {t1, t2, t3, t4}
  MaxExpires = 6
SYMMETRY Sleepers
INVARIANT ListOK
PROPERTY CountdownSpec
