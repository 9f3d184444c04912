SPECIFICATION FairSpec
CONSTANTS
  N = 5
  Value <- const_Value
  MaxDepth = 1
CHECK_DEADLOCK FALSE
INVARIANTS
  NoSharedCell
  DataLifetime
  ExitedMeansSorted
PROPERTIES
  Implements
  Termination
