SPECIFICATION FairSpec
CONSTANTS
  Callers = {a, b}
  LoopThread = io
  MsgLen = 2
  SndCap = 1
  MaxWrites = 1
  SetupWrites = 0
  MaxChunks = 1
  Resets = FALSE
INVARIANT
  CallersSafe
CHECK_DEADLOCK FALSE
