CONSTANTS
  MIN_BAG_SIZE = 16
  GLOBAL_BAG_N = 4
  HEADER_SIZE = 16
  LAZY_OCCUR = 1
  GLOBAL_SINGLE_BIBOP_SIZE = 96
  INDIVIDUAL_BIBOP_SIZE = 160
  INDIVIDUAL_DATA_POOL_SIZE = 160
  INDIVIDUAL_DATA_POOL_N = 2
  INDIVIDUAL_BIBOP_MAX_N = 1
  LAZY_N = 1
  CSIs = {c1}
  Sizes = {8, 24}
  Hash <- MCHash
  MAX_HUGE = 1
  MAX_QUEUE = 1
  MAX_HELD = 2
  NONE = NONE
  Alignments = {32}
  NMembs = {2}
  HugeLowBits = {}
  SIZE_T_MOD = 1024
SPECIFICATION EPSpec
CHECK_DEADLOCK FALSE
INVARIANT HeldFreeable
