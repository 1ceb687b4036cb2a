SPECIFICATION Spec
CONSTANTS
  s1 = s1
  s2 = s2
  Services = {s1}
  ServiceConcurrency <- Concurrency
  NoLimit = NoLimit
  BudgetConcurrency = NoLimit
  MaxCalls = 4
  MaxBytes = 3
  MaxPages = 3
  WallClock = NoLimit
  StaticCap = 2
  Fallback = 2
  MaxBatch = 2
  MaxItems = 3
  PageSizes = {1, 2}
  PageBound = 2
  MaxBatches = 2
  Horizon = 0
INVARIANT
  EveryAttemptHasItsRow
