SPECIFICATION MCSpec
CONSTANTS
  k1 = k1
  k2 = k2
  a = a
  b = b
  p = p
  Blank = Blank
  Contacts <- MCContacts
  Phases <- MCPhases
  Slots = {x, y}
  Ids = {1, 2, 3, 4}
  BatchSize = 1
  MaxInitial = 2
  MaxRuns = 2
SYMMETRY Symmetry
INVARIANTS TypeOK SuccessMirrorsSource QuietResync QueuesDrained
PROPERTIES RemovalAfterFullStream RemovalKeepsSource
CHECK_DEADLOCK FALSE
