SPECIFICATION Spec
CONSTANTS
  Ids = {x1, x2, x3}
  Records = {old, new}
  Absent = Absent
  Max = 2
INVARIANTS
  TypeOK
  QueueMatchesEntries
PROPERTIES
  ImplementsLog
