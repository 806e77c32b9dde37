SPECIFICATION Spec
CONSTANTS
  LastOrder = 2
  Capacity = 1
  Policies = {"StopActor"}
INVARIANT
  StartedFirst
CHECK_DEADLOCK FALSE
