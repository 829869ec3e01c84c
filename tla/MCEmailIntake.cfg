SPECIFICATION Spec
CONSTANTS
  User = {u1, u2}
  Subject = {a1}
  Email = {e1}
  RequestId = {r1, r2}
  Login = {l1}
  Budget <- MCBudget
  None = None
  Message = {m1}
  Job = {j1, j2}
  MaxDeliveries = 2
  MaxAge = 0
  MaxAttempts = 2
SYMMETRY MCSymmetry
CONSTRAINT EmailMatters
CHECK_DEADLOCK FALSE
PROPERTIES
  KeepsAuthority
