SPECIFICATION FairSpec
CONSTANTS
  Producers = {p1, p2}
  BufSize = 2
  Limit = 1
  MaxLen = 2
  MaxLogs = 2
INVARIANTS
  TypeOK
  LogsConserved
  QueueBounded
  FlushedWhenGone
PROPERTIES
  LogsWritten
  DestructorEnds
CHECK_DEADLOCK FALSE
