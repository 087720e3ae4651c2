SPECIFICATION FairSpec
CONSTANTS
  Shapes <- Mixed
  Capacity <- MCCapacity
  AnytimeHost = FALSE
  MaxRequests = 3
  MaxWorkers = 3
INVARIANTS
  OwnAnswer
  SetsAreWhole
  RunsLive
PROPERTY
  Answered
CHECK_DEADLOCK FALSE
