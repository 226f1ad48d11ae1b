SPECIFICATION Spec
CONSTANTS
  NodeNames <- MCNodeNames
  MaxRuns = 2
  Interval = 2
  TicksPerSecond = 2
  MaxLaunches = 2
  MaxTime = 5
INVARIANTS TypeOK RecordsKept
CHECK_DEADLOCK FALSE
