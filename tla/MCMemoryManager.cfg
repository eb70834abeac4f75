CONSTANTS
  MIN_BAG_SIZE = 16
  GLOBAL_BAG_N = 1
  HEADER_SIZE = 16
  LAZY_OCCUR = 2
  GLOBAL_SINGLE_BIBOP_SIZE = 48
  INDIVIDUAL_BIBOP_SIZE = 48
  INDIVIDUAL_DATA_POOL_SIZE = 96
  INDIVIDUAL_DATA_POOL_N = 2
  INDIVIDUAL_BIBOP_MAX_N = 2
  LAZY_N = 2
  CSIs = {c1, c2}
  Sizes = {0, 8, 16}
  Hash <- MCHash
  MAX_HUGE = 1
  MAX_QUEUE = 2
  MAX_HELD = 2
  NONE = NONE
SYMMETRY CSISymmetry
SPECIFICATION Spec
INVARIANT TypeOK
INVARIANT NoOverlap
INVARIANT SlotAccounting
INVARIANT CSIIsolation
INVARIANT LazyPromotion
CHECK_DEADLOCK FALSE
