SPECIFICATION Spec
CONSTANTS
  MaxContacts = 2
  QuerySize = 2
  Retries = 2
  Directories <- MCDirectories
  N = 1
  FifoSize = 1
  FirstChunk = 1
PROPERTY CancelMeansError
CHECK_DEADLOCK FALSE
