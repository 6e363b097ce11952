SPECIFICATION Spec
CONSTANTS
  SeqSpace = 5
  Sizes = {2, 5}
  MaxSend = 4
  MaxRecv = 4
INVARIANTS
  IInv
  InOrder
  PieceOfChunk
PROPERTIES
  PipeSpec
CHECK_DEADLOCK FALSE
