SPECIFICATION Spec
CONSTANTS
  w1 = w1
  w2 = w2
  w3 = w3
  s1 = s1
  r1 = r1
  Workers = {w1, w2}
  Stage1 = {s1}
  Stage2 = {r1}
  Lines = 1
  KeyOf <- KeysOne
  Place <- PlaceApart
  MAX_RETRY_COUNT = 0
  MaxFaults = 1
  MaxCrashes = 1
  MaxEpoch = 8
INVARIANTS
  TypeOK
  AtMostOncePerAol
  LoggedIsWritten
  LossNeedsFailure
  LockDiscipline
  AolDiscipline
PROPERTIES
  ImplementsDedup
CHECK_DEADLOCK FALSE
