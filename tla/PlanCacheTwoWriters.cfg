SPECIFICATION Spec
CONSTANTS
  Writers = {w1, w2}
  Requests = {r1}
  MaxWrites = 2
  MaxAsks = 2
  MaxRestarts = 0
INVARIANTS
  ServedPlanIsFresh
