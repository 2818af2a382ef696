SPECIFICATION Spec
CONSTANTS
  q1 = q1
  q2 = q2
  Nodes <- Five
  FileHash = 45
  Csv = FALSE
  Reqs = {q1}
  Creates = {}
  Before <- First
  Timers = {10, 20, 30, 40, 50}
  MaxReads = 0
  MaxMerges = 1
  MaxMerged = 2
  FaultKinds = {}
  MaxFaults = 0
  MaxCrashes = 1
INVARIANTS
  CopyRemains
  ThreeReplicas
  RepairPlaces
CHECK_DEADLOCK FALSE
