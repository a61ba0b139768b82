SPECIFICATION Spec
CONSTANTS
  CA = {c1, c2, c3}
  Threshold = 2
  Faulty = {c3}
  FaultyBehaviour <- WrongReveal
  Crashable = {c1, c2, c3}
  Contents = {own, other}
  Own = own
  None = none
SYMMETRY HonestSymmetry
PROPERTIES ImplementsKeyGen
CHECK_DEADLOCK FALSE
