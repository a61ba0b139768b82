SPECIFICATION FairSpec
CONSTANTS
  CA = {c1, c2, c3, c4}
  First = c1
  Odd = {c4}
  Threshold = 3
  Users = 1
  MaxAttempts = 2
  MaxCrashes = 1
  None = none
CHECK_DEADLOCK FALSE
INVARIANTS IssuanceInv ApprovedIsGood DeniedIsTaken ExportedIsGood
PROPERTIES ServedWhenReady
