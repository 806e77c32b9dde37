SPECIFICATION Spec
CONSTANTS
  Slot = {s1, s2, s3, s4}
  LastGen = 2
  Allocations = 5
  Name = {"n"}
  MaxServices = 1
  MaxLeases = 2
  MaxHeld = 1
INVARIANTS
  RegistryExact
  WorkIsLeased
SYMMETRY SlotSymmetry
CHECK_DEADLOCK FALSE
