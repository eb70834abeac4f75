CONSTANTS
  Threads = {t1, t2, t3}
  MAX_THREAD = 3
  Ops = {"malloc", "free", "realloc"}
  Objects = {x1, x2}
  NONE = NONE
SYMMETRY ProcSymmetry
SPECIFICATION ProcSpec
INVARIANT ProcTypeOK
INVARIANT OwnerOnly
INVARIANT ObjectsHome
INVARIANT Accounted
CHECK_DEADLOCK FALSE
