SPECIFICATION Spec
CONSTANTS
  Slot = {s1, s2, s3}
  LastGen = 2
  MaxConnections = 2
  ReadBudget = 3
  WriteBudget = 1
  WorldBudget = 3
INVARIANTS
  TableExact
  BudgetExact
PROPERTIES
  ListenerEnds
CHECK_DEADLOCK FALSE
