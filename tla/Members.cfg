SPECIFICATION FairSpec
CONSTANTS
  Nodes <- MCNodes
  Introducer = 20
  Members <- MCMembers
  KNeighbors = 2
  MaxJoins = 1
  MaxCrashes = 2
  MaxLeaves = 1
  MaxFaults = 1
  MaxSlow = 1
  MaxEvents = 2
INVARIANT TypeOK
PROPERTIES
  JoinSpreads
  FailSpreads
  GossipDies
\* With nothing left to tell the rounds change nothing.
CHECK_DEADLOCK FALSE
