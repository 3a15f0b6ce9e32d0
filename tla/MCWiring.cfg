SPECIFICATION FairSpec
CONSTANTS
  N = 4
  r1 = r1
  r2 = r2
  Requests = {r1, r2}
  IDs = {1, 2}
  Configs <- Both
  None = None
INVARIANTS TypeOK ServerIsWired 
PROPERTIES HandlerEnds
CHECK_DEADLOCK FALSE
