SPECIFICATION ThirdLeaderSpec
CONSTANTS
  Server = {s1, s2, s3}
  None = None
  Marker = Marker
  Value = {v}
  SyncWrites = TRUE
  LateVotes = FALSE
  LateAcks = FALSE
  Overtaking = FALSE
  MaxTerm = 5
  MaxTimeouts = 2
  MaxLogLen = 0
  MaxVoteMsgs = 1
  MaxAppendMsgs = 1
  MaxRestarts = 0
SYMMETRY Symmetry
VIEW View
CHECK_DEADLOCK FALSE
INVARIANT StateMachineSafety
