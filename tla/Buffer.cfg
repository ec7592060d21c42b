SPECIFICATION Spec
CONSTANTS
  InitSize = 3
  ExtraSize = 2
  MaxMsg = 4
  MaxBytes = 12
INVARIANTS
  TypeOK
  FifoIntact
  GrowsOnlyToPeak
CHECK_DEADLOCK FALSE
