SPECIFICATION Spec
CONSTANTS
  Clients = {c1}
  Threads = {t1}
  Instances = {s1, s2}
  NumPhases = 1
  MaxCalls = 2
  None = None
INVARIANT NoDeadCall
CHECK_DEADLOCK FALSE
