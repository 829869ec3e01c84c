SPECIFICATION Spec
CONSTANTS
  None = None
  Subscriber = {"u1", "u2"}
  Transaction = {"t1", "t2"}
  Original <- MCOriginal
  PurchaseDate <- MCPurchaseDate
  ExpiresDate <- MCExpiresDate
  Token <- MCToken
  NoticeForm <- MCNoticeForm
  GraceDate = {1, 2}
  StoreWorker = {w1, w2}
  Lease = 1
  LifetimeLease = 3
  MaxClock = 1
  StoreBudget <- MCStoreBudget
  Reader = {"r1"}
  Handset = {"d1", "d2"}
  PushToken = {"k1"}
  Zone = {"z1", "z2"}
  Offset <- MCOffset
  Story = {"s1", "s2", "s3"}
  Fingerprint <- MCFingerprint
  PhoneAtStart <- MCPhoneAtStart
  Received <- MCReceived
  Tier <- MCTier
  Kind <- MCKind
  Follows <- MCFollows
  StorySender = {p1, p2}
  Hour = {10, 12, 34}
  Retention = 24
  RunSpan = 2
  MaxSends = 2
  PushBudget <- MCPushBudget
  AlertWorker = {a1, a2}
  FlightSnapshot <- MCFlightSnapshot
  FlightAtFirst <- MCFlightAtFirst
  StatusRank <- MCStatusRank
  Detail = {"gate"}
  DetailRank <- MCDetailRank
  AlertBudget <- MCAlertBudget
  Phone = {"d1"}
  StartToken = {1, 2}
  DueFlight = {1, 2}
  MaxStarts = 1
  StartBudget <- MCStartBudget
  Listing <- MCListing
  MostListed = 2
  Wanted = 1
  Sample = {"i1", "i2"}
  Searcher = {"u1"}
  FailedQuery = {"q1"}
  Journey = {"j1"}
  FailureReason = {"precise"}
  Kept = 2
  Batch = 1
  MaxBatches = 2
  LastDay = 2
  SampleAtStart <- MCSampleAtStart
  SampleBudget <- MCSampleBudget
  Account = {"u1","u2"}
  Install = {"n1"}
  CohortWorker = {k1, k2}
  EnrollEvent = {"e1"}
  EnrolledAt <- MCEnrolledAt
  GoalAnswer = {"g1","g2"}
  Confirmation = {"i1","i2"}
  MaxRevision = 2
  Checkout = {"t1"}
  CheckoutOwner <- MCCheckoutOwner
  CheckoutSubscription <- MCCheckoutSubscription
  CheckoutAt <- MCCheckoutAt
  DiagnosticId = {"v1","v2","v3"}
  JourneyBudgets <- MCJourneyBudgets
  ClientEvent <- MCClientEvent
  MostEvents = 3
  MostInBatch = 2
  PaywallArm = {"p1","p2"}
  LegacyTime = {0,1}
  GoalsAtStart <- MCGoalsAtStart
CHECK_DEADLOCK FALSE
INVARIANTS
  FactsFreshest RevenueAgrees LeaseFollowsFacts AccessImpliesGrant
  ToldOnce CampaignsSpaced OneStoryPerWindow
  DriftAnnounced NoticeTruthful
  StartedOnce
  ActiveWins EmptyAccounted
  ReportedLive
  ContextAgrees EventsKept GoalsNewest
PROPERTIES
  SuccessMeansSwept
