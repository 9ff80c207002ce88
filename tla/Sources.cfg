SPECIFICATION Spec
CONSTANTS
  MaxContacts = 4
  QuerySize = 2
  Retries = 2
  Directories <- MCDirectories
  N = 4
  FifoSize = 1
  FirstChunk = 2
INVARIANTS TypeOK InRingOrder EndAccountsForAll BrokenNeverEnds
PROPERTIES GoogleKeepsPromise FileKeepsPromise GoogleCallsReturn PBAPDownloadEnds
CHECK_DEADLOCK FALSE
