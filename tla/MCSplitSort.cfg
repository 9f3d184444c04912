SPECIFICATION Spec
CONSTANTS
  N = 4
  Value <- const_Value
INVARIANTS
  IInv
  SortedWhenIdle
  IsPermutation
