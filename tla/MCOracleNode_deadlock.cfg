SPECIFICATION FairSpec
CONSTANTS
  c1 = c1
  c2 = c2
  c3 = c3
  r1 = r1
  r2 = r2
  Calls = {c1, c2, c3}
  Requests = {r1, r2}
  RequestOf <- IDs
  Configs <- BusyLeader
  Quorum = 2
  MsgChanCap = 1
  Remote = Remote
  NoText = NoText
  Free = Free
  Run = Run
PROPERTY Completes
CHECK_DEADLOCK FALSE
