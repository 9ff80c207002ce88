SPECIFICATION FairSpec
CONSTANTS
  Clients = {c1, c2}
  Threads = {t1, t2}
  Instances = {s1, s2}
  NumPhases = 2
  MaxCalls = 2
  None = None
INVARIANTS TypeOK SingleRun FlagMatchesRun SourcesOwned
PROPERTIES CallsReturn
CHECK_DEADLOCK FALSE
