SPECIFICATION Spec
CONSTANTS
  n0 = n0
  n1 = n1
  n2 = n2
  n3 = n3
  Nodes = {n0, n1, n2, n3}
  Members <- AllFour
  Values = {v1, v2}
  MaxFaults = 0
  MaxDown = 0
  Hung = {n3}
  ChanCap = 0
INVARIANTS Validity AgreementUnlessAborted QuorumBehindResult PrepareQuorumBehindCommit
SYMMETRY RunningPeers
CHECK_DEADLOCK FALSE
