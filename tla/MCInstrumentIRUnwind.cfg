CONSTANTS
  Funcs <- MCFuncs
  Main <- main
  HMF <- MCHMF
  Inst <- MCInst
  MAX_DEPTH = 4
  Programs <- MCUnwind
  RawSizes <- MCRawSizes
  Throwers <- MCUnwindThrowers
  CSI_FIELD = 65536
SPECIFICATION Spec
CHECK_DEADLOCK FALSE
PROPERTY CountersBalanced
