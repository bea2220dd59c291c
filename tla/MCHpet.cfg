SPECIFICATION Spec
CONSTANTS
  Comparators = {0, 1}
  FS_PER_NS = 4
  NS_PER_MS = 7
  TICKS_PER_SEC = 2
  Periods = {3, 9, 15}
  Times = {1, 2}
  MaxTicks = 7
  MaxCalls = 2
INVARIANTS
  OneShotExact
  PeriodicExact
  ClockCounts
PROPERTIES
  OneShotFires
