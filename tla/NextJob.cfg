SPECIFICATION FairSpec
CONSTANTS
  n0 = n0
  n1 = n1
  n2 = n2
  n3 = n3
  n4 = n4
  Nodes = {n0, n1, n2, n3, n4}
  Leader = n1
  Worker0 = n0
  Joined = {n0, n1, n2, n3, n4}
  Holders = {n0, n2}
  NumJobs = 2
  NUM_OF_TASKS_PER_JOB = 2
  MAX_TASK_PER_NODE = 10
  Patient = FALSE
  MaxCrashes = 0
  MaxFaults = 0
  MaxJoins = 0
  MaxMishaps = 0
  HurriedJoins = FALSE
  MaxLines = 1
PROPERTIES
  EndedIsCompleted
CHECK_DEADLOCK FALSE
