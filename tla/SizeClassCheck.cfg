CONSTANTS
  MIN_BAG_SIZE = 16
  GLOBAL_BAG_N = 14
SPECIFICATION Spec
INVARIANT IndexIsSmallestFit
