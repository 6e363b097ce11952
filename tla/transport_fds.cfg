SPECIFICATION Spec
CONSTANTS
  Transports = {t1, t2}
  NumFds = 4
  SetSize = 3
  MaxSockets = 4
INVARIANTS
  IInv
  OneCloser
  DescriptorsAreThoseGiven
PROPERTIES
  OwnershipSpec
CHECK_DEADLOCK FALSE
