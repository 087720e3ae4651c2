SPECIFICATION FairSpec
CONSTANTS
  t1 = t1
  t2 = t2
  Timers <- MCTimers
  Timeouts <- MCTimeouts
  Delays = {0, 1, 3}
  Res = 2
  MaxTime = 7
  None = None
INVARIANTS
  AlarmArmed
PROPERTIES
  CountsPeriods
  FiresEventually
