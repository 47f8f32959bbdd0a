\* Without partitions, and with all answers in, there is nothing left to do.
CHECK_DEADLOCK FALSE
CONSTANTS
  p1 = p1
  p2 = p2
  Partitions = {p1, p2}
  FirstPartition = p1
  TypeOrder <- MCTypeOrder
  NameOrder <- MCNameOrder
  Buckets = 3
  MaxShown = 2
  Palette = 10
  Reports <- MCReports
  MaxCalls = 4
SPECIFICATION TileSpec
INVARIANTS ChartInv CanvasFollowsSelection MostUsedShown
