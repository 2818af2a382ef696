SPECIFICATION FairSpec
CONSTANTS
  p1 = p1
  p2 = p2
  Peers = {p1, p2}
  Introducer = FALSE
  Gossip <- NoGossip
  MaxPings = 2
  MaxCrashes = 2
  MaxFaults = 0
  MaxGossip = 0
  MaxSwitches = 0
  MaxMishaps = 0
PROPERTIES
  FailedRemoved
CHECK_DEADLOCK FALSE
