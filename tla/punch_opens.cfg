SPECIFICATION FairSpec
CONSTANTS
  Window = 10
  Retry = 20
  Delay = 2
  MaxQueue = 3
  MaxFaults = 1
INVARIANTS
  IInv
  PunchInv
  ServerDiscoversFirst
  NobodyFails
PROPERTIES
  BothOpen
CHECK_DEADLOCK FALSE
