SPECIFICATION FairSpec
CONSTANTS
  Callers = {a}
  LoopThread = io
  MsgLen = 2
  SndCap = 1
  MaxWrites = 1
  SetupWrites = 1
  MaxChunks = 1
  Resets = FALSE
INVARIANT
  PendingWriteArmed
CHECK_DEADLOCK FALSE
