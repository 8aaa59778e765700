CONSTANTS
  Order <- MCOrder
  Initial <- MCInitial
  MaxEdits = 2
  MaxNameOps = 2
  MaxUses = 4
  MaxFailures = 1
  MaxCalls = 2
SPECIFICATION Spec
INVARIANTS
  TypeOK
  DiskMirrorsTheList
  SettledFilesAreSaved
  OneNameOperation
PROPERTIES
  EditsAreWritten
CHECK_DEADLOCK FALSE
