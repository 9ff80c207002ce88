SPECIFICATION FairSpec
CONSTANTS
  Items = {1, 2}
  Parts <- MCParts
  FetchContactsSize = 1
  FetchEventsSize = 2
  MaxBatch = 2
  MaxClock = 3
INVARIANTS TypeOK WritesAreReported RevisionsAreSeen PassIsExact
PROPERTIES CallsReturn
