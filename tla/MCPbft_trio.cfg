SPECIFICATION FairSpec
CONSTANTS
  n0 = n0
  n1 = n1
  n2 = n2
  n3 = n3
  Nodes = {n0, n1, n2}
  Members <- AllThree
  Values = {v1, v2, v3}
  MaxFaults = 2
  MaxDown = 1
  Hung = {n2}
  ChanCap = 0
INVARIANTS TypeOK LeaderAhead
PROPERTIES ImplementsLog 
CHECK_DEADLOCK FALSE
