SPECIFICATION Spec
CONSTANTS
  SeqSpace = 5
  Sizes = {5}
  MaxSend = 3
  MaxRecv = 3
  LossyReplies = FALSE
  MaxFlight = 4
PROPERTIES
  WholeChunks
CHECK_DEADLOCK FALSE
