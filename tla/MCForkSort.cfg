SPECIFICATION FairSpec
CONSTANTS
  N = 5
  Value <- const_Value
  MaxDepth = 2
  ForkMayFail = TRUE
CHECK_DEADLOCK FALSE
INVARIANTS
  NoSharedCell
  NoOrphans
  ExitedMeansSorted
  ResourceBound
PROPERTIES
  Implements
  Termination
