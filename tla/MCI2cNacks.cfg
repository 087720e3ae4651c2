SPECIFICATION Spec
CONSTANTS
  Kinds <- FirmwareKinds
  MaxAsked = 2
  TxDepth = 16
  Capacity = 8
INVARIANT NacksDetected
CHECK_DEADLOCK FALSE
