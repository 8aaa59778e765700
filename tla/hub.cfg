SPECIFICATION FairSpec
CONSTANTS
  Publishers = {p1, p2}
  Browsers = {b1, b2}
  Stuck = {b2}
  Buffer = 2
  MaxMessages = 3
INVARIANTS
  HubInv
  OrderedWithoutGaps
PROPERTIES
  BrowsersNeverStallPublish
  HandlersEndAtShutdown
CHECK_DEADLOCK FALSE
