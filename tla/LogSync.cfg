SPECIFICATION FairSpec
CONSTANTS
  SyncInPrune = FALSE
  MaxLogLen = 3
  MaxTerm = 2
  MaxPrunes = 1
  MaxCrashes = 1
INVARIANT TypeOK
INVARIANT NoFatal
INVARIANT SyncedIsDurable
INVARIANT AppliedWithinOne
PROPERTY ImplementsLogStore
PROPERTY EventuallySynced
