SPECIFICATION Spec
CONSTANTS
  P = 5
  H = 3
  Ids = {1, 2, 3}
  Qualified = {1, 3}
  Threshold = 2
  Draws = {0, 1, 3}
  Context = 2
  Hash <- MCHash
  None = none
CHECK_DEADLOCK FALSE
INVARIANTS SharesVerify SharesHide OnePseudonym LinkageSound CredentialVerifies RegistrationAccepted
