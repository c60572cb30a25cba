SPECIFICATION Spec
CONSTANTS
  FirstYear = 1896
  LastYear = 2004
  TimesOfDay <- SomeTimes
  Parts = {"journal"}
  Branches = {b1, b2}
  NoBranch = none
  Instants = {0, 1, 2, 3, 4, 5}
  Threshold = 1
  InstantMax = 4
  MaxBudget = 8
  PurposeCount = 2
  MaxPerPurpose = 2
  LimbMax = 1
  PrebootstrapOrigin = 0
  RawOrigins <- SomeOrigins
  RawRows <- SomeRows
  RawWaters <- SomeWaters
  MaxRows = 3
  MaxWaters = 2
  MaxRotations = 4
  Files <- SomeFiles
  MaxSwaps = 2
  GenerationMax = 3
  Policies <- SmallPolicies
  RetryAfters <- Asked
  Candidates <- Words
  Tokens = {t1, t2}
  MaxUpdates = 4
  UtcMax = 100000
  AgeMax = 1000000
  REJECTION_LIMIT = 2002
  CounterMax = 1
  Roots = {r1, r2}
  Commands = {c1, c2}
  SerialMax = 2
  MaxEnded = 4
  Absent = Absent
  Digest <- CountingDigest
  TailCountLimit = 2
  CommandLimit = 2
  RingLimit = 2
  Times = {0, 1}
  Reasons = {"Periodic"}
  HoldLimit = 2
  Observations = {"o1"}
  Processes = {p1, p2}
  SelectedHeads = {1, 2}
  Members <- SomeMembers
  MaxSequence = 4
  MaxGeneration = 4
INVARIANT AckRecoverable
CHECK_DEADLOCK FALSE
