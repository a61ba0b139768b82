SPECIFICATION Spec
CONSTANTS
  CA = {c1, c2, c3}
  Threshold = 2
  Faulty = {c3}
  FaultyBehaviour <- WrongKey
  Crashable = {}
  Contents = {own, other}
  Own = own
  None = none
SYMMETRY HonestSymmetry
INVARIANTS ShareMatchesKey
CHECK_DEADLOCK FALSE
