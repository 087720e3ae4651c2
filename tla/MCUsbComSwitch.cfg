SPECIFICATION Spec
CONSTANTS
  Shapes <- Regular
  Capacity <- MCCapacity
  AnytimeHost = FALSE
  MaxRequests = 3
  MaxWorkers = 1
INVARIANT SwitchHasMessage
CHECK_DEADLOCK FALSE
