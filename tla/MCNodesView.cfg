\* A scheduler without partitions leaves only the filter and the button.
CONSTANTS
  p1 = p1
  p2 = p2
  n1 = n1
  n2 = n2
  Partitions = {p1, p2}
  FirstPartition = p1
  Nodes = {n1, n2}
  NodesOf <- MCNodesOf
  ColumnIds <- MCColumnIds
  Filled <- MCFilled
  MaxCalls = 3
SPECIFICATION Spec
INVARIANTS SelectionInv AttributesWithDetails LastAnswerIsSelection
