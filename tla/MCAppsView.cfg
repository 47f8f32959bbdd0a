\* Answers come in any order and fail, or in order and all of them.
CONSTANTS
  p1 = p1
  p2 = p2
  q1 = q1
  q2 = q2
  a1 = a1
  a2 = a2
  Partitions = {p1, p2}
  FirstPartition = p1
  Queues = {q1, q2}
  Apps = {a1, a2}
  Leaves <- MCLeaves
  AppsOf <- MCAppsOf
  StoredChoices <- MCStored
  QueryChoices <- MCQuery
  MaxCalls = 2
SPECIFICATION Spec
INVARIANTS SelectionInv StoredIsSelection LastAnswerIsSelection
