SPECIFICATION Spec
CONSTANTS
  Proc <- const_Proc
  Value <- const_Value
  MaxPushes = 3
  MaxReads = 4
CHECK_DEADLOCK FALSE
INVARIANTS
  SegmentsAreLinked
  NoneLeft
PROPERTIES
  Implements
