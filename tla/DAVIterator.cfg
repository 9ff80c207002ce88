SPECIFICATION FairSpec
CONSTANTS
  Total = 5
  QuerySize = 2
  Unreadable = {3}
INVARIANTS IteratorTypeOK InOrder NullMeansOver FrontIsSafe DeleteAfterEnd
PROPERTIES CallsReturn
CHECK_DEADLOCK FALSE
