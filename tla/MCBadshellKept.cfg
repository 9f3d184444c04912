SPECIFICATION Spec
CONSTANTS
  Proc <- const_Proc
  Argument <- const_Argument
  ValueOf <- const_ValueOf
  MaxArguments = 2
  MaxWords = 2
CHECK_DEADLOCK FALSE
INVARIANTS
  Destroyed
