SPECIFICATION FairSpec
CONSTANTS
  Recorders = {w1, w2}
  NoSession = NoSession
  MaxSecond = 1
  MaxRecords = 3
  MaxFaults = 1
INVARIANTS
  SinkInv
  UndamagedFilesAreWhole
PROPERTIES
  SwitchReturns
CHECK_DEADLOCK FALSE
