SPECIFICATION Spec
CONSTANTS
  LastOrder = 2
  Capacity = 1
  Policies = {"Continue", "StopActor", "StopWorld"}
INVARIANTS
  ReadyExact
  ChildrenFirst
  CloseFinishesAll
CHECK_DEADLOCK FALSE
