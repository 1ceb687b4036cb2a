SPECIFICATION Spec
CONSTANTS
  s1 = s1
  s2 = s2
  Services = {s1}
  ServiceConcurrency <- Concurrency
  NoLimit = NoLimit
  BudgetConcurrency = NoLimit
  MaxCalls = 4
  MaxBytes = 4
  MaxPages = 4
  WallClock = NoLimit
  StaticCap = 2
  Fallback = 2
  MaxBatch = 3
  MaxItems = 3
  PageSizes = {1, 2}
  PageBound = 2
  MaxBatches = 2
  Horizon = 0
INVARIANTS
  TypeOK
  WithinBudget
  VerdictsFollowInputOrder
PROPERTIES
  KeepsLedger
