SPECIFICATION Spec
CONSTANTS
  n1 = n1
  n2 = n2
  n3 = n3
  n4 = n4
  n5 = n5
  Nodes = {n1, n2, n3, n4, n5}
  Vectors <- Chain
  Threshold = 85
  None = None
SYMMETRY Symmetry
INVARIANTS TypeOK ScoresAreCosines ClustersPartition GroupsAreClusters MajorityIsSelected
CHECK_DEADLOCK FALSE
