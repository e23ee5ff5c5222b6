SPECIFICATION FairSpec
CONSTANTS
  r1 = r1
  r2 = r2
  a = a
  b = b
  Reader = {r1, r2}
  Char = {a, b}
  STDIN_BUFSIZE = 2
  MaxLen = 3
  MaxTyped = 6
CHECK_DEADLOCK FALSE
INVARIANT ReadersOK
PROPERTIES InputSpec TypedIsRead
