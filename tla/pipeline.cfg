CONSTANTS
  Requests <- MCRequests
  Setups <- MCSetups
  Offers <- MCOffers
  MaxExchanges = 8
  MaxReconnections = 2
  MaxClosings = 2
SPECIFICATION Spec
INVARIANTS
  TypeOK
  TokensStayOnTheirConnection
  NothingLeaks
  SideEffectsHappenOnce
PROPERTIES
  HonestExchangesComplete
  BodilessRequestsSettle
  BrowserEndsRelay
CHECK_DEADLOCK FALSE
