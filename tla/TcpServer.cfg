SPECIFICATION FairSpec
CONSTANTS
  MaxSize = 2
  MaxConns = 3
  ExplicitClose = TRUE
INVARIANTS
  TypeOK
  OpenAreRegistered
  NoGhosts
  HandedToLiveLoop
  Balanced
PROPERTIES
  Served
CHECK_DEADLOCK FALSE
