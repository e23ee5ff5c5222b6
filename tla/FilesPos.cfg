SPECIFICATION Spec
CONSTANTS
  Proc = {p1, p2}
  Ino = {a, b}
  NFD = 2
  KEPT = 1
  BLK = 2
  NDIRECT = 1
  NENTRY = 2
  MAXSIZE = 7
  TOTAL = 3
  MODES = {"RDWR"}
  LENS = {2}
  SEEKS = {3, 5}
  MAXOPEN = 2
  MAXLEAK = 1
SYMMETRY Symm
INVARIANT BmapIndexInFile
CHECK_DEADLOCK FALSE
