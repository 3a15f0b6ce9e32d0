SPECIFICATION Spec
CONSTANTS
  n0 = n0
  n1 = n1
  n2 = n2
  n3 = n3
  Nodes = {n0, n1}
  Members <- AllTwo
  Values = {v1, v2}
  MaxFaults = 0
  MaxDown = 0
  Hung = {}
  ChanCap = 0
INVARIANT PipelineDecides
CHECK_DEADLOCK FALSE
