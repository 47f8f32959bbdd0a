\* Trees of every shape up to six queues, logs in every order with repetitions;
\* a base of 12 and three prefixes stand for 1000 or 1024 and six.
CONSTANTS
  MaxQueues = 6
  MaxLog = 3
  Times <- MCTimes
  MaxAllocs = 2
  KeyOrder <- MCKeyOrder
  NamedCpu = {"vcore"}
  NamedMemory = {"memory", "gpumemory"}
  Base = 12
  UnitsLen = 3
  Amounts <- MCAmounts
  Usages <- MCUsages
SPECIFICATION AnswersSpec
INVARIANTS AmountsReadTrue FoldedCells RackAgreesWithDiagram DropdownFollowsTree RowsTellAll
