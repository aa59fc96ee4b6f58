SPECIFICATION AsyncSpec
CONSTANTS
  Server = {s1, s2, s3}
  None = None
  Marker = Marker
  Value = {v}
  SyncWrites = FALSE
  LateVotes = FALSE
  LateAcks = FALSE
  Overtaking = FALSE
  MaxTerm = 2
  MaxTimeouts = 2
  MaxLogLen = 0
  MaxVoteMsgs = 1
  MaxAppendMsgs = 1
  MaxRestarts = 1
SYMMETRY Symmetry
VIEW View
CHECK_DEADLOCK FALSE
INVARIANT CandidateViable
INVARIANT AckedIsStored
INVARIANT CommittedIsDurable
INVARIANT LeaderCompleteness
INVARIANT CommitWithinSync
INVARIANT ElectionSafety
INVARIANT VotesWritten
PROPERTY VoteIsFinal
