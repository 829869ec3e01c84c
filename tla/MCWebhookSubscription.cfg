SPECIFICATION Spec
CONSTANTS
  f1 = f1
  f2 = f2
  f3 = f3
  n1 = n1
  n2 = n2
  Flight = {f1, f2, f3}
  Number = {n1, n2}
  NumberOf <- MCNumberOf
  Sub = {s1, s2}
  ApiTask = {t1}
  Loop = loop
  Budget <- MCBudget
  None = None
SYMMETRY MCSymmetry
INVARIANTS
  SubscribedToOwnNumber
  DeadOnlyIfMissed
