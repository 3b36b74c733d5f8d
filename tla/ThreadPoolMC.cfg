SPECIFICATION Spec
CONSTANTS
  w1 = w1
  w2 = w2
  k1 = k1
  k2 = k2
  k3 = k3
  Owner = Owner
  Workers = {w1, w2}
  Tasks = {k1, k2, k3}
CHECK_DEADLOCK FALSE
INVARIANTS
  TypeOK
  NoLostWakeup
PROPERTIES
  RunsEveryTaskOnce
  DestructorReturns
