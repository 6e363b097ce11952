SPECIFICATION Spec
CONSTANTS
  SeqSpace = 4
  Sizes = {5}
  MaxAttempts = 1
  KaMiss = 1
  MaxReads = 2
  MaxDup = 1
INVARIANTS
  IInv
  OpensOnEvidence
  ClosesOnRequest
  DataBetweenOpenPeers
PROPERTIES
  TunnelSpec
CHECK_DEADLOCK FALSE
