SPECIFICATION FairSpec
CONSTANTS
  p1 = p1
  p2 = p2
  Peers = {p1, p2}
  Introducer = TRUE
  Gossip <- Rumours
  MaxPings = 2
  MaxCrashes = 1
  MaxFaults = 1
  MaxGossip = 1
  MaxSwitches = 1
  MaxMishaps = 1
INVARIANTS
  TypeOK
  DroppedIsSignalled
  MutexReleased
  PromptSurvives
PROPERTIES
  FailureHandled
CHECK_DEADLOCK FALSE
