SPECIFICATION Spec
CONSTANTS
  s1 = s1
  s2 = s2
  Services = {s1, s2}
  ServiceConcurrency <- Concurrency
  NoLimit = NoLimit
  BudgetConcurrency = 2
  MaxCalls = 4
  MaxBytes = NoLimit
  MaxPages = NoLimit
  WallClock = 1
  StaticCap = 2
  Fallback = 2
  MaxBatch = 2
  MaxItems = 3
  PageSizes = {1}
  PageBound = 2
  MaxBatches = 2
  Horizon = 2
INVARIANT
  NoRequestPastDeadline
