CONSTANTS
  Clients = {c1}
  Nobody = nobody
  MaxFaults = 0
  MaxSwitches = 0
SPECIFICATION Spec
INVARIANT CloseLeavesNothingOpen
CHECK_DEADLOCK FALSE
