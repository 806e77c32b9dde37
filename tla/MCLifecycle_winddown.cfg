CONSTANTS
  Slot = {s1, s2}
  Kinds = {"Native", "Python"}
  NoRef = NoRef
  MaxGeneration = 1
  MaxDepth = 1
  MailboxCapacity = 0
  MaxPending = 1
  MaxTasks = 0
  MaxTime = 1
SPECIFICATION FairSpec
INVARIANTS
  FenceClosed DrainIndexExact
PROPERTIES
  DrainNeverExtended WindsDown
