CONSTANTS
  N = 3
  Bytes = {0, 1}
  Widths = {1, 2}
  MaxThreadId = 2
  MaxClock = 6
  InitCapacity = 1
  MaxSteps = 5
SPECIFICATION Spec
INVARIANTS RacesAreReal RacesAreFound OverrunsNeedLargeIds
CHECK_DEADLOCK FALSE
