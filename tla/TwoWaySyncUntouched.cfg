CONSTANTS
  Contacts <- MCContacts
  Incremental <- MCIncremental
  BatchSize = 1
  MaxInitial = 2
  MaxRuns = 2
  MaxEdits = 1
  MaxFaults = 1
SPECIFICATION Spec
CHECK_DEADLOCK FALSE
PROPERTIES UntouchedStay
