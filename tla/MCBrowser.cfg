\* Views are left with requests in flight, or only when they are ready.
\* Views, requests and clicks are bounded, so the browser comes to a stop.
CHECK_DEADLOCK FALSE
CONSTANTS
  p1 = p1
  p2 = p2
  plain = plain
  shared = shared
  colon = colon
  Partitions = {p1, p2}
  FirstPartition = p1
  Queues = {plain, shared, colon}
  Leaves <- MCLeaves
  Cut <- MCCut
  StoredChoices <- MCStoredChoices
  Links <- MCLinks
  Opens = {"applications", "queues", "plain"}
  MaxVisits = 2
  MaxCalls = 2
SPECIFICATION Spec
INVARIANTS CallsInv NextViewAgrees
PROPERTIES LeftViewsKeepQuiet
