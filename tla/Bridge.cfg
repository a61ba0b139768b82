SPECIFICATION FairSpec
CONSTANTS
  Pseudonyms = {p}
  Nodes = {n1, n2}
  FamilyIds = {}
  Claims <- MCClaims
  None = none
  Relays = {r1}
  Silent = {s}
  MaxSockets = 2
  MaxStarts = 3
CHECK_DEADLOCK FALSE
INVARIANTS BridgeInv ValidIsRegistered NullMeansTrouble
PROPERTIES ImplementsValidator CallsReturn
