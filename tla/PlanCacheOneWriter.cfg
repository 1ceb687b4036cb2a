SPECIFICATION Spec
CONSTANTS
  Writers = {w1}
  Requests = {r1, r2}
  MaxWrites = 2
  MaxAsks = 3
  MaxRestarts = 1
INVARIANTS
  TypeOK
  CurrentEntryIsStored
  ServedPlanIsFresh
PROPERTIES
  GenerationCountsWrites
