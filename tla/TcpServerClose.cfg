SPECIFICATION Spec
CONSTANTS
  MaxSize = 2
  MaxConns = 2
  ExplicitClose = FALSE
INVARIANTS
  LoopsOutliveCalls
CHECK_DEADLOCK FALSE
