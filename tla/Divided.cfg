SPECIFICATION DividedSpec
CONSTANTS
  Server = {s1, s2, s3}
  None = None
  Marker = Marker
  Value = {v}
  SyncWrites = TRUE
  LateVotes = FALSE
  LateAcks = FALSE
  Overtaking = FALSE
  MaxTerm = 4
  MaxTimeouts = 2
  MaxLogLen = 3
  MaxVoteMsgs = 2
  MaxAppendMsgs = 1
  MaxRestarts = 0
SYMMETRY Symmetry
VIEW View
CHECK_DEADLOCK FALSE
INVARIANT TypeOK
INVARIANT LogMatching
INVARIANT NextIdxBound
INVARIANT TallyNeverRegresses
INVARIANT OnlyPruneAborts
