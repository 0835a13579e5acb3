SPECIFICATION FairSpec
CONSTANTS
  N = 1
  MaxReflect = 2
  MaxAfterDiffraction = 1
  Slots = 4
  MaxRuns = 2
PROPERTY DroppedOnlyWhenExceeded
CHECK_DEADLOCK FALSE
