SPECIFICATION Spec
CONSTANTS
  N = 4
  Buffers = 2
  MaxFaults = 3
  Ids = {"a", "b", "c"}
  Size <- MCSize
  Values = {"x", "y"}
  Firmwares <- MCFirmwares
  Page = 8
  Sector = 8
  Sectors = 2
  ListHead = ListHead
  Sentinel = Sentinel
  Elements = {a, b, c}
  MaxChanges = 5
  Buttons = {b0, b1}
  Slots = 2
  MaxEdges = 3
  Frequencies = {1, 2}
  Setpoints = {5}
  Polynomials = {"id", "fit"}
  RawLevels = {7}
  MaxSets = 3
  Sources = {"readings", "setpoint"}
  Areas = 3
  MaxNews = 2
  MaxTime = 5
  Delays <- MCDelays
  MaxSteps = 5
  MaxWait = 2
INVARIANTS
  RoundsAreWhole
  AllOrNothing
  VisitsOnce
  DutyIsRight
  PanelIntact
  TimesAddUp
PROPERTIES
  KeepsMeasuring
  ButtonsSettle
  ShowsLatest
CHECK_DEADLOCK FALSE
