SPECIFICATION AllSpec
CONSTANTS
  t1 = t1
  t2 = t2
  t3 = t3
  t4 = t4
  w1 = w1
  w2 = w2
  w3 = w3
  other = other
  Null = Null
  Unset = Unset
  Term <- const_Term
  Word <- const_Word
  Writing <- const_Writing
  MaxAnswers = 6
CHECK_DEADLOCK FALSE
INVARIANTS
  Linked
  Recalled
  FreedOnce
  AllKnown
  LinesAreTerms
  ReadersAgree
  PagesHoldText
PROPERTIES
  Implements
  AsksUntilRight
