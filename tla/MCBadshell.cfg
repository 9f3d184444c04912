SPECIFICATION Spec
CONSTANTS
  Proc <- const_Proc
  Argument <- const_Argument
  ValueOf <- const_ValueOf
  MaxArguments = 2
  MaxWords = 5
CHECK_DEADLOCK FALSE
INVARIANTS
  PrintsOutput
  LiveWhileUsed
  OnlyArgvKept
