SPECIFICATION MCSpec
CONSTANTS
  c1 = c1
  c2 = c2
  c3 = c3
  c4 = c4
  c5 = c5
  Claims <- MCClaims
  Prio <- MCPrio
  None = None
  MaxTasks = 5
  MaxDepth = 3
  N = 2
  MaxPuts = 5
  MaxYields = 3
  MaxEvents = 2
  Blocks = {b1, b2}
  MaxCalls = 4
  MaxFires = 5
  MaxElapse = 2
INVARIANTS
  HandedOver
  TasksReturn
  EventsAreRead
  HeapAlone
  NoLostWakeup
  OneWakeup
  NothingStale
PROPERTIES
  ImplementsLock
  ForemostIsServed
CHECK_DEADLOCK FALSE
