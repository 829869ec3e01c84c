SPECIFICATION Spec
CONSTANTS
  Activity = {a1}
  Device = {d1}
  Flight = {f1}
  Token = {t1, t2}
  Prefs = {p1}
  Data = {x, done}
  Terminal = {done}
  Worker = {w1}
  Fetcher = fe
  Handler = {h1}
  MaxAttempts = 2
  MaxNow = 2
  Budget <- OverlapBudget
  None = None
PROPERTIES
  NewestNeverRewinds
