SPECIFICATION Spec
CONSTANTS
  BASE = 2
  BYTES = 4
  SHORT = 2
  TIMEOUT = 1
  POLL = 1
  Settings = {3}
  MAX_TICKS = 9
INVARIANTS
  ReadsAreWhole
  RealTimeRuns
  TimeoutInTime
PROPERTY
  WaitEnds
