SPECIFICATION FairSpec
CONSTANTS
  N = 1
  MaxReflect = 2
  MaxAfterDiffraction = 1
  Slots = 4
  MaxRuns = 2
INVARIANT FoundRaysReached
CHECK_DEADLOCK FALSE
