SPECIFICATION Spec
CONSTANTS
  SeqSpace = 3
  Sizes = {2, 5}
  MaxSend = 7
  MaxRecv = 7
  LossyReplies = TRUE
  MaxFlight = 4
INVARIANTS
  IInv
  WholeLapsOff
PROPERTIES
  SlipsOnlyWhenLapped
CHECK_DEADLOCK FALSE
