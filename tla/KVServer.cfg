SPECIFICATION FairSpec
CONSTANTS
  a = a
  b = b
  Conns = {a, b}
  Packets <- MCPackets
  Bytes = {1}
  Checks = {"default", "supplied"}
  MaxRequests <- MCMaxRequests
  Cuts = {5, 9, 16}
  MaxPieces <- MCMaxPieces
  kMaxKeyLength = 1
  kMaxValueLength = 1
  kMaxBodyLength = 5
INVARIANTS TypeOK InSync
PROPERTIES ImplementsMap Answered
CHECK_DEADLOCK FALSE
