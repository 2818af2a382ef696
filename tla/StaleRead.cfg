SPECIFICATION Spec
CONSTANTS
  q1 = q1
  q2 = q2
  Nodes <- Three
  FileHash = 15
  Csv = FALSE
  Reqs = {q1, q2}
  Creates = {}
  Before <- Nothing
  Timers = {20}
  MaxReads = 2
  MaxMerges = 0
  MaxMerged = 2
  FaultKinds = {}
  MaxFaults = 0
  MaxCrashes = 0
INVARIANTS
  ReadsAcked
CHECK_DEADLOCK FALSE
