CONSTANTS
  Slot = {s1, s2}
  Kinds = {"Native", "Python"}
  NoRef = NoRef
  MaxGeneration = 2
  MaxDepth = 1
  MailboxCapacity = 1
  MaxPending = 0
  MaxTasks = 1
  MaxTime = 0
SPECIFICATION Spec
SYMMETRY SlotSymmetry
INVARIANTS
  TypeOK LineageLive LeasesPinSlot NotificationReceivable NoLostFinalisation
PROPERTIES
  NeverRevived
