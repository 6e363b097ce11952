SPECIFICATION FairSpec
CONSTANTS
  SeqSpace = 4
  Sizes = {5}
  MaxAttempts = 2
  KaMiss = 1
  MaxReads = 1
  MaxDup = 0
PROPERTIES
  AloneRunsDown
  PeersEndTogether
  HolePunchingEnds
CHECK_DEADLOCK FALSE
