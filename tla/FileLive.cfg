SPECIFICATION FairSpec
CONSTANTS
  q1 = q1
  q2 = q2
  Nodes <- Three
  FileHash = 15
  Csv = FALSE
  Reqs = {q1, q2}
  Creates = {}
  Before <- First
  Timers = {10, 20, 30}
  MaxReads = 0
  MaxMerges = 1
  MaxMerged = 1
  FaultKinds = {"log", "write", "flush", "rpc", "merge"}
  MaxFaults = 2
  MaxCrashes = 0
INVARIANTS
  MergeRestores
PROPERTIES
  WritesEnd
  AckedMerged
CHECK_DEADLOCK FALSE
