SPECIFICATION Spec
CONSTANTS
  a = a
  b = b
  Conns = {a, b}
  Packets <- MCPackets
  Bytes = {1}
  Checks = {"default"}
  MaxRequests <- MCMaxRequests
  Cuts = {5, 9, 16}
  MaxPieces <- MCMaxPieces
  kMaxKeyLength = 1
  kMaxValueLength = 1
  kMaxBodyLength = 5
INVARIANT ClosedOnlyAtBadHeader
CHECK_DEADLOCK FALSE
