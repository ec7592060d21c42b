SPECIFICATION FairSpec
CONSTANTS
  Clients = {own, c1}
  Owner = own
  LoopThread = io
  MaxTasks <- TwoClients
  own = own
  c1 = c1
  io = io
  EvMax = 2
  Signals = TRUE
  PollMayFail = TRUE
INVARIANTS
  TypeOK
  NoLostWakeup
  WaitIsSynchronous
PROPERTIES
  ImplementsTaskQueue
  MissionsExecuted
  StopHonoured
CHECK_DEADLOCK FALSE
