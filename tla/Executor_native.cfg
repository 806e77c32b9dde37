SPECIFICATION Spec
CONSTANTS
  Op = {o1, o2}
  EventsPerTurn = 1
  MaxJobs = 1
  Slots = 2
  CpuJobs = 1
  Workers = 1
  Faults = {"error", "panic"}
  DrainPolicies = {"Producer", "Consumer"}
  FailureActions = {"Continue", "StopActor"}
INVARIANTS
  NoZombie
  CleanClose
  DeferredDecided
PROPERTIES
  ExecutorEnds
CHECK_DEADLOCK FALSE
