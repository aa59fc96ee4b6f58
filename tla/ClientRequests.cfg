SPECIFICATION Spec
CONSTANTS
  Servers = {A, B}
  Workers = {w1}
  Clients = {c1, c2}
  NumEntries = 2
  MaxSeq = 1
  MaxTerm = 2
  MaxTaken = 2
  MaxFaults = 1
  SeenInInit = FALSE
CHECK_DEADLOCK FALSE
SYMMETRY Symmetry
VIEW View
INVARIANT AppliedPrefix
INVARIANT EntriesIntact
INVARIANT AckedIsSeen
INVARIANT AbortsExplained
