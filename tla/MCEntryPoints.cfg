CONSTANTS
  MIN_BAG_SIZE = 16
  GLOBAL_BAG_N = 3
  HEADER_SIZE = 16
  LAZY_OCCUR = 1
  GLOBAL_SINGLE_BIBOP_SIZE = 48
  INDIVIDUAL_BIBOP_SIZE = 96
  INDIVIDUAL_DATA_POOL_SIZE = 96
  INDIVIDUAL_DATA_POOL_N = 2
  INDIVIDUAL_BIBOP_MAX_N = 1
  LAZY_N = 1
  CSIs = {c1}
  Sizes = {8, 24}
  Hash <- MCHash
  MAX_HUGE = 1
  MAX_QUEUE = 1
  MAX_HELD = 2
  NONE = NONE
  Alignments = {0, 16, 24}
  NMembs = {2}
  HugeLowBits = {80}
  SIZE_T_MOD = 1024
SPECIFICATION EPSpec
INVARIANT NoOverlap
INVARIANT SlotAccounting
INVARIANT Fits
CHECK_DEADLOCK FALSE
