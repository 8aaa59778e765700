CONSTANTS
  Clients = {c1, c2}
  Nobody = nobody
  MaxFaults = 1
  MaxSwitches = 1
SPECIFICATION Spec
INVARIANTS
  TypeOK
  CloseEndsConnections
  ReportedAsServed
  EventsHaveRecords
PROPERTY AcceptLoopEnds
CHECK_DEADLOCK FALSE
