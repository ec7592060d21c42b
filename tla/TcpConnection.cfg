SPECIFICATION FairSpec
CONSTANTS
  Callers = {a, b}
  LoopThread = io
  MsgLen = 2
  SndCap = 1
  MaxWrites = 2
  SetupWrites = 1
  MaxChunks = 1
  Resets = TRUE
INVARIANTS
  TypeOK
  StreamIntact
  TornDownOnce
  NoIOAfterClose
PROPERTIES
  ClosingIsFinal
  CloseCompletes
  OutputFlushed
CHECK_DEADLOCK FALSE
