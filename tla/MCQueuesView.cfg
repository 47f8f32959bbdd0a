\* A scheduler without partitions leaves the view with nothing to do.
CHECK_DEADLOCK FALSE
CONSTANTS
  p1 = p1
  p2 = p2
  root = root
  a = a
  b = b
  aa = aa
  bb = bb
  aaa = aaa
  Partitions = {p1, p2}
  FirstPartition = p1
  Queues = {root, a, b, aa, bb, aaa}
  Root = root
  Children <- MCChildren
  MaxLevel = 8
  MAX_QUEUE_LEVELS = 5
  MaxCalls = 2
  MaxTimers = 2
SPECIFICATION FairSpec
INVARIANTS SelectionInv RacksShowSelection
PROPERTIES CollapseIsComplete ContainerHidesInTheEnd
