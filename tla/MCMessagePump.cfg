SPECIFICATION FairSpec
CONSTANTS
  relais = relais
  switch = switch
  Buffers <- MCBuffers
  Capacity <- MCCapacity
  Context <- MCContext
  Values = {1, 2}
  NoValue = NoValue
  NoSlot = NoSlot
  NumListeners = 2
  MaxDepth = 3
  MaxPosts = 4
INVARIANT
  NoDoubleLink
PROPERTIES
  ImplementsChannel
  Delivered
CHECK_DEADLOCK FALSE
