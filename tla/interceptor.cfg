CONSTANTS
  Tunnels = {t1}
  MaxExchanges = 2
  MaxBytes = 1
  MaxChanges = 3
  StoreSize = 2
  Plain = {p1, p2}
  Absent = absent
SPECIFICATION Spec
INVARIANTS
  SteadyExchangesAreComplete
  BodiesAreTold
CHECK_DEADLOCK FALSE
