SPECIFICATION Spec
CONSTANTS
  File <- const_File
  Typed <- const_Typed
  Unset = Unset
CHECK_DEADLOCK FALSE
INVARIANTS
  EveryLineIsATerm
