SPECIFICATION Spec
CONSTANTS
  Pseudonyms = {p}
  Nodes = {r1, r2, name}
  Relays = {r1, r2}
  Second = r2
  Names = {name}
  FamilyIds = {f}
  Family <- OfFamily
  Auths = {a}
  Caches = {c}
  MaxGen = 2
  MaxLosses = 1
  MaxCrashes = 1
  MaxStarts = 2
  Spent <- Budgets
  None = none
CHECK_DEADLOCK FALSE
PROPERTIES NeverParseable
