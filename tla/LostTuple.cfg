SPECIFICATION Spec
CONSTANTS
  w1 = w1
  w2 = w2
  w3 = w3
  s1 = s1
  r1 = r1
  Workers = {w1, w2}
  Stage1 = {s1}
  Stage2 = {r1}
  Lines = 1
  KeyOf <- KeysOne
  Place <- PlaceApart
  MAX_RETRY_COUNT = 1
  MaxFaults = 1
  MaxCrashes = 0
  MaxEpoch = 4
INVARIANTS
  AckedIsWritten
CHECK_DEADLOCK FALSE
