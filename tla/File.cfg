SPECIFICATION Spec
CONSTANTS
  q1 = q1
  q2 = q2
  Nodes <- Three
  FileHash = 15
  Csv = FALSE
  Reqs = {q1, q2}
  Creates = {q1}
  Before <- Nothing
  Timers = {20}
  MaxReads = 2
  MaxMerges = 0
  MaxMerged = 2
  FaultKinds = {"rpc"}
  MaxFaults = 1
  MaxCrashes = 0
INVARIANTS
  TypeOK
  AckedKept
  ReplicasKept
  FirstReadComplete
PROPERTIES
  KeptInOrder
  ReadsGrow
  ImplementsFile
CHECK_DEADLOCK FALSE
