SPECIFICATION FairSpec
CONSTANTS
  SeqSpace = 7
  Sizes = {3}
  MaxSend = 6
  MaxRecv = 6
  LossyReplies = FALSE
  MaxFlight = 6
INVARIANTS
  RepairInv
PROPERTIES
  NoRepairForgotten
  RepairsRunDown
  GapHeals
  RepairEnds
CHECK_DEADLOCK FALSE
