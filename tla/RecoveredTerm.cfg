SPECIFICATION Spec
CONSTANTS
  Peers = {L1, L2}
  Self = S
  NoPeer = N
  Entries = 2
  RsyncTries = 2
  MarkerParses = {TRUE, FALSE}
  MaxIdx = 2
  MaxTerm = 2
  MaxFaults = 0
  RecoveryAttempts = 3
  MaxCrashes = 0
SYMMETRY PeerSymmetry
INVARIANT TermKept
