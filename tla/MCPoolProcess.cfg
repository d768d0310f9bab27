SPECIFICATION Spec
CONSTANTS
  Callers = {c1, c2, c3}
  Pools = {p, q}
  NoPool = none
INVARIANTS
  TypeOK
  AliveWhileHeld
  NoOrphan
  OneCheck
PROPERTIES
  TasksEnd
  GateServed
CHECK_DEADLOCK FALSE
