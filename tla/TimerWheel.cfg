SPECIFICATION FairSpec
CONSTANTS
  Conns = {c1, c2}
  N = 3
  MaxBurst = 4
INVARIANTS
  TypeOK
  WheelBounded
PROPERTIES
  ImplementsIdleTimeout
  SilentReclaimed
