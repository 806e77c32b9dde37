SPECIFICATION Spec
CONSTANTS
  Source = {s1, s2}
  Thread = {t1, t2}
  MaxQueued = 2
INVARIANTS
  NoLostWakeup
PROPERTIES
  CloseEndsRouter
  ReadyGetsTurn
