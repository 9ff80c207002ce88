SPECIFICATION PBAPSpec
CONSTANTS
  N = 2
  FifoSize = 1
  FirstChunk = 2
INVARIANT EndMeansAll
CHECK_DEADLOCK FALSE
