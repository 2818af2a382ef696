SPECIFICATION FairSpec
CONSTANTS
  w1 = w1
  w2 = w2
  w3 = w3
  s1 = s1
  r1 = r1
  Workers = {w1, w2}
  Stage1 = {s1}
  Stage2 = {r1}
  Lines = 1
  KeyOf <- KeysOne
  Place <- PlaceApart
  MAX_RETRY_COUNT = 1
  MaxFaults = 0
  MaxCrashes = 0
  MaxEpoch = 4
INVARIANTS
  ReportedIsSettled
PROPERTIES
  NoSendAfterAck
  SendersTerminate
  JobCompletes
CHECK_DEADLOCK FALSE
