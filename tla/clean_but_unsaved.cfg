CONSTANTS
  Order <- MCOrder
  Initial <- MCInitial
  MaxEdits = 2
  MaxNameOps = 0
  MaxUses = 2
  MaxFailures = 0
  MaxCalls = 1
SPECIFICATION Spec
INVARIANTS
  CleanMeansSaved
CHECK_DEADLOCK FALSE
