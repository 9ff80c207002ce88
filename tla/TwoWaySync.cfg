CONSTANTS
  Contacts <- MCContacts
  Incremental <- MCIncremental
  BatchSize = 1
  MaxInitial = 2
  MaxRuns = 3
  MaxEdits = 2
  MaxFaults = 1
SPECIFICATION Spec
CHECK_DEADLOCK FALSE
INVARIANTS TypeOK SuccessMirrors MergeIsThreeWay QuietResync
PROPERTIES RemovalAsked
