SPECIFICATION FairSpec
CONSTANTS
  Clients = {c1, c2}
  AccessModes = {"loopback", "lan"}
  direct = direct
  corporate = corporate
  small = small
  large = large
  Upstreams <- MCUpstreams
  Direct <- MCDirect
  CaptureRules <- MCRules
  InitialConfigs <- MCInitialConfigs
  Commands <- MCCommands
  NoMode = NoMode
  NoState = NoState
  Torn = Torn
  MaxRequests = 3
  MaxFaults = 2
INVARIANTS
  TypeOK
  ServersAccountedFor
  RestartFindsConfig
  PipelineFollowsConfig
  SettledMeansInSync
PROPERTIES
  EveryRequestEnds
CHECK_DEADLOCK FALSE
