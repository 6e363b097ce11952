SPECIFICATION Spec
CONSTANTS
  ClientWrites = 2
  ServerWrites = 0
INVARIANTS
  WholeStream
CHECK_DEADLOCK FALSE
