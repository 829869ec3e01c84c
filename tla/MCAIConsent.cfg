SPECIFICATION ConsentSpec
CONSTANTS
  User = {u1, u2}
  Subject = {a1}
  Email = {e1, e2}
  RequestId = {r1, r2}
  Login = {l1, l2}
  Budget <- MCBudget
  None = None
SYMMETRY MCSymmetry
CHECK_DEADLOCK FALSE
INVARIANTS
  ReplayAcknowledged
PROPERTIES
  AcceptedAsSeen
  OlderVerificationHarmless
