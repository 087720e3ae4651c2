SPECIFICATION Spec
CONSTANTS
  Kinds <- MCKinds
  MaxAsked = 3
  TxDepth = 3
  Capacity = 5
INVARIANTS
  ReportsTruth
  AssertsHold
PROPERTY ImplementsTransfers
CHECK_DEADLOCK FALSE
