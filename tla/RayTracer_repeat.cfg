\* Repeated runs on the arrays the earlier runs left.
\* The system may stop: an overrun array is the end of what the model says.
SPECIFICATION FairSpec
CONSTANTS
  N = 2
  MaxReflect = 1
  MaxAfterDiffraction = 0
  Slots = 3
  MaxRuns = 3
INVARIANTS
  FoundIffRx
  ExactWhenClean
  NoEarlyOverrun
  LeakBound
  WithinBudget
CHECK_DEADLOCK FALSE
