CONSTANTS
  Slot = {s1}
  Thread = {t1, t2}
  NoRef = NoRef
  MaxGeneration = 2
  MaxVersion = 3
SPECIFICATION Spec
INVARIANTS
  NoLostWakeup UnchangedMeansUnchanged
PROPERTIES
  StoppedExecutorEnds
CHECK_DEADLOCK FALSE
