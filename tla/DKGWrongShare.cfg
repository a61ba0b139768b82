SPECIFICATION Spec
CONSTANTS
  CA = {c1, c2, c3}
  Threshold = 2
  Faulty = {c3}
  FaultyBehaviour <- WrongShare
  Crashable = {}
  Contents = {own, other}
  Own = own
  None = none
SYMMETRY HonestSymmetry
INVARIANTS Agreement
CHECK_DEADLOCK FALSE
