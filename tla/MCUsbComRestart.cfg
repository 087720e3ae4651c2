SPECIFICATION Spec
CONSTANTS
  Shapes <- Regular
  Capacity <- MCCapacity
  AnytimeHost = TRUE
  MaxRequests = 2
  MaxWorkers = 2
INVARIANT PostedHandleIsLive
CHECK_DEADLOCK FALSE
