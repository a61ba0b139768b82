SPECIFICATION ThreadsSpec
CONSTANTS
  CA = {c1, c2, c3}
  Threshold = 2
  Faulty = {}
  FaultyBehaviour = {}
  Crashable = {}
  Contents = {own}
  Own = own
  None = none
  RacyStart = {c1}
INVARIANTS Agreement
CHECK_DEADLOCK FALSE
