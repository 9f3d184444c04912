SPECIFICATION Spec
CONSTANTS
  Value <- const_Value
  MaxNodes = 4
INVARIANTS
  RemovesValues
