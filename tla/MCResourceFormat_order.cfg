\* The order the comment on formatResources promises.
CONSTANTS
  KeyOrder <- MCKeyOrder
  NamedCpu = {"vcore"}
  NamedMemory = {"memory", "gpumemory"}
  Base = 12
  UnitsLen = 3
  Amounts <- MCAmounts
  Usages <- MCUsages
SPECIFICATION FormatsSpec
INVARIANTS CpuAndMemoryFirst
