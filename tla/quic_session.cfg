SPECIFICATION FairSpec
CONSTANTS
  ClientWrites = 2
  ServerWrites = 1
INVARIANTS
  IInv
  OkMeansOrderly
  DisconnectReports
PROPERTIES
  TunnelSpec
  EndReachesPeer
  ArrivedIsDelivered
  EndRunsDown
CHECK_DEADLOCK FALSE
