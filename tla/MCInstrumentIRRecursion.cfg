CONSTANTS
  Funcs <- MCFuncs
  Main <- main
  HMF <- MCHMF
  Inst <- MCInst
  MAX_DEPTH = 4
  Programs <- MCRecursive
  RawSizes <- MCRawSizes
  Throwers <- MCThrowers
  CSI_FIELD = 65536
SPECIFICATION Spec
CHECK_DEADLOCK FALSE
INVARIANT RecursionTracked
