SPECIFICATION Spec
CONSTANTS
  Interval = 3
  KaMiss = 1
  Delay = 1
INVARIANTS
  IInv
  SilentPeerDropped
  DropsOnlyPausedPeer
  KeepAlivesCountIntervals
CHECK_DEADLOCK FALSE
