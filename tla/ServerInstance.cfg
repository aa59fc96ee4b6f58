SPECIFICATION Spec
CONSTANTS
  Peers = {L1, L2}
  Self = S
  NoPeer = N
  Entries = 2
  RsyncTries = 2
  MarkerParses = {TRUE, FALSE}
  MaxIdx = 2
  MaxTerm = 1
  MaxFaults = 1
  RecoveryAttempts = 3
  MaxCrashes = 1
INVARIANT TypeOK
INVARIANT StoreKept
INVARIANT LogKept
INVARIANT ExitsExplained
INVARIANT CleanRestart
SYMMETRY PeerSymmetry
