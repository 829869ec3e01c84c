SPECIFICATION Spec
CONSTANTS
  u1 = u1
  i1 = i1
  i2 = i2
  f1 = f1
  f2 = f2
  h1 = h1
  a1 = a1
  Account = {u1}
  Installation = {i1, i2}
  OwnerOf <- MCOwnerOf
  Flight = {f1, f2}
  Asked <- MCAsked
  Input = {h1, a1}
  InputsOf <- MCInputsOf
  Answers <- MCAnswers
  Live = {"nothing"}
  Request = {r1, r2}
  Lease = 1
  Cooldown = 4
  Minute = 4
  InputTtl <- MCInputTtl
  ResultTtl = 3
  MaxBuilds = 2
  MaxTries = 2
  DayCap = 3
  MinuteCap = 1
  Busy = {0}
  Span = 1
  Horizon = 5
  Budget <- MCBudget
  None = None
PROPERTY
  FinalKept
