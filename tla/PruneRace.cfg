SPECIFICATION Spec
CONSTANTS
  SyncInPrune = TRUE
  MaxLogLen = 2
  MaxTerm = 2
  MaxPrunes = 1
  MaxCrashes = 0
INVARIANT NoFatal
