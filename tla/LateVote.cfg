SPECIFICATION Spec
CONSTANTS
  Server = {s1, s2, s3}
  None = None
  Marker = Marker
  Value = {v}
  SyncWrites = TRUE
  LateVotes = TRUE
  LateAcks = FALSE
  Overtaking = FALSE
  MaxTerm = 2
  MaxTimeouts = 3
  MaxLogLen = 0
  MaxVoteMsgs = 2
  MaxAppendMsgs = 0
  MaxRestarts = 0
SYMMETRY Symmetry
VIEW View
CHECK_DEADLOCK FALSE
INVARIANT ElectionSafety
