SPECIFICATION Spec
CONSTANTS
  User = {u1, u2}
  Flight = {f1}
  Share = {s1, s2}
  Secret = {k1, k2}
  Request = {q1, q2}
  Viewer = {v1, v2}
  Budget <- RemovalBudget
  None = None
  Deleted = Deleted
PROPERTY
  RemovedStaysPrivate
