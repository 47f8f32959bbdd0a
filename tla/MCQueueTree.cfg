\* A failed request leaves an empty diagram.
CHECK_DEADLOCK FALSE
CONSTANTS
  root = root
  a = a
  b = b
  aa = aa
  aaa = aaa
  Queues = {root, a, b, aa, aaa}
  Root = root
  Children <- MCChildren
SPECIFICATION Spec
INVARIANTS SelectionInv ExpandedCanCollapse DarkHidesChildren PlusFollowsOrientation
