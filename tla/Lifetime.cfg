SPECIFICATION FairSpec
CONSTANTS
  Conns = {a, b}
  Timer = timer
  Heartbeats = {TRUE, FALSE}
INVARIANTS
  TypeOK
  OutlivesRegistration
  GuardedByTie
PROPERTIES
  Reclaimed
CHECK_DEADLOCK FALSE
