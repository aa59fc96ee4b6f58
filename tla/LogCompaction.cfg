SPECIFICATION Spec
CONSTANTS
  MinScanEntries = 1
  ScanEntries = 1
  ReapFactor = 2
  ReapFactorMax = 100
  NumCheckpoints = 2
  ChkptMin = 2
  ChkptMax = 100
  AutoCheckpoints = FALSE
  InitialScan = 1000
  FirstIdx = 4
  FirstApplied = 1
  ReadIdx = {0}
  MaxIdx = 5
  MaxUnsynced = 1
  MaxRequests = 2
  MaxCrashes = 1
INVARIANT AbortsExplained
INVARIANT AppliedOrLogged
INVARIANT CheckpointComplete
INVARIANT RequestNotLost
PROPERTY PreviousKept
