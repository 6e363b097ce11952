SPECIFICATION Spec
CONSTANTS
  SeqSpace = 4
  Sizes = {5}
  MaxSend = 6
  MaxRecv = 6
  LossyReplies = FALSE
  MaxFlight = 4
PROPERTIES
  LostDataIsResent
CHECK_DEADLOCK FALSE
