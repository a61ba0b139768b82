SPECIFICATION FairSpec
CONSTANTS
  Pseudonyms = {p}
  Nodes = {n1, n2, n3}
  FamilyIds = {f1, f2}
  Claims <- MCClaims
  None = none
INVARIANTS RegistryInv OneFamily AcceptedIsRegistered
PROPERTIES ImplementsFamilyRegistry SomeoneAnswered
