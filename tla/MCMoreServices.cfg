SPECIFICATION SumSpec
CONSTANTS
  None = None
  User = {u1, u2}
  Flight = {f1}
  Share = {s1, s2}
  Secret = {k1, k2}
  Request = {q1, q2}
  Viewer = {v1, v2}
  Budget <- MCBudget
  Deleted = Deleted
  Message = {"m1", "m2", "m3"}
  Id <- MCId
  Age <- MCAge
  Nature <- MCNature
  Content <- MCContent
  Happening <- MCHappening
  Search = {"a1", "t1"}
  Tracked = {"a1"}
  Turn <- MCTurn
  Hits <- MCHits
  PageSize = 1
  PagesPerRun = 2
  Overlap = 1
  CatchUp = 2
  News = 3
  Week = 4
  MostTries = 3
  PerWindow = 2
  PerMonth = 3
  Day = 4
  Pause = 2
  MostFailures = 2
  LastTenth = 3
  AirBudgets <- MCAirBudgets
  Sale = {"x1", "x2"}
  Enabled = "enabled"
  BoughtAt <- MCBoughtAt
  AlertsPerRun = 1
  RetryAfter = 1
  LastMinute = 1
  MaxChanges = 2
  MaxRefusals = 2
  Purchase = {"b1", "b2"}
  BuyerOf <- MCBuyerOf
  Production = {"b1"}
  Buyer = {"a1", "a2"}
  Failure = {"f1", "f2"}
  Reporting = {n1, n2}
  AlertDelay = 1
  LastInstant = 2
  MaxReports = 4
  Pick <- MCPick
  Listings <- MCListings
  Board <- MCBoard
  StoreDays <- MCStoreDays
  Handler = {h1, h2}
  MostRequests = 3
SYMMETRY MCSymmetry
INVARIANTS
  HandedOutResolves
  ViewsExact
  ReadAndPaidOnce
  NeverAnnouncedTwice
  NoneForgotten
  AnsweredAsPicked
PROPERTY
  RevokedStaysDead
  ResolvedStays
