SPECIFICATION Spec
CONSTANTS
  Requests <- MCRequests
  MaxTransfers = 3
  MaxResets = 1
  Configs <- MCConfigs
  Last = 2
  Memory = 640
  Chunk = 4
  Lengths = {0, 2, 3, 5, 8}
  MaxPieces = 3
  MaxAsked = 12
  AllStrings = {maker, product, iface}
  AllInterfaces = {i0, i1}
  Sentinel = Sentinel
INVARIANTS
  AnswerStartsAtOne
CHECK_DEADLOCK FALSE
