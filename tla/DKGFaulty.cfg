SPECIFICATION FairSpec
CONSTANTS
  CA = {c1, c2, c3}
  Threshold = 2
  Faulty = {c3}
  FaultyBehaviour <- OneFault
  Crashable = {}
  Contents = {own, other}
  Own = own
  None = none
INVARIANTS DKGInv HonestStayQualified CommitBeforeReveal KeyBacked HonestContribute PolynomialKept NoShareIgnored
PROPERTIES PhaseForward HonestFinish
CHECK_DEADLOCK FALSE
