SPECIFICATION AllSpec
CONSTANTS
  Programs = {"pi", "cost", "tree", "set", "string", "bst", "autocomplete", "converter"}
  None = None
  Garbage = {0, 2}
  THREADS = 3
  POINTS_PER_THREAD = 1
  size = 4
  Contribution = {0, 1, 2}
  Data <- const_Data
  Inputs <- const_Inputs
  Depths <- const_Depths
  Handle = {h1, h2, h3}
  Num = {0, 7, 8}
  Bytes = {1, 2}
  UnsetBytes = {2}
  Text <- const_Text
  Slack = 2
CHECK_DEADLOCK FALSE
INVARIANTS
  SumOfShares
  CostOfShares
  SamplesInLeaves
  HoldsElements
  ReadsAsText
  IsTree
  SetUntilTwoChildren
  TrieOfFile
  AnswersFromFile
  WritingsInFileOrder
PROPERTIES
  Prints
