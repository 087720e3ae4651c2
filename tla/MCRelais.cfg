SPECIFICATION FairSpec
CONSTANTS
  out0 = out0
  out1 = out1
  Channels <- MCChannels
  Buffers = 2
  Debounce = 2
  MaxStall = 1
  MaxSets = 3
  StoreOrders = {"payload"}
INVARIANTS
  GroundFirst
PROPERTIES
  Debounced
  Converges
CHECK_DEADLOCK FALSE
