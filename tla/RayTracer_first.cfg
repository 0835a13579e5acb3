\* The first run of a fresh engine: two rays with two children each.
SPECIFICATION FairSpec
CONSTANTS
  N = 2
  MaxReflect = 2
  MaxAfterDiffraction = 1
  Slots = 4
  MaxRuns = 1
INVARIANTS
  TypeOK
PROPERTIES
  RaysIndependent
  RunEnds
  FirstRunImplementsPathReport
