CONSTANTS
  OpSlot = {o1, o2}
  LastGen = 2
  Actor = {a1, a2}
  NoActor = NoActor
  NoOp = NoOp
  MaxTime = 1
  MailboxCapacity = 2
  MaxIssued = 2
SPECIFICATION Spec
SYMMETRY OpSymmetry
INVARIANTS
  IndexExact PendingIsServed DeliveredOnce
PROPERTIES
  KeepsPromise LateReplyLoses
