SPECIFICATION Spec
CONSTANTS
  Pseudonyms = {p}
  Nodes = {n1}
  FamilyIds = {}
  Claims <- GoodClaims
  None = none
  Relays = {r1}
  Silent = {}
  MaxSockets = 1
  MaxStarts = 2
CHECK_DEADLOCK FALSE
INVARIANTS EnforcedWhileUp
