SPECIFICATION Spec
CONSTANTS
  Addr = {a1}
  NoAddr = none
  Callers = {c1, c2, c3}
  DnsTask = dns
SYMMETRY Symmetry
INVARIANTS
  TypeOK
  OneRecheck
  NothingHeld
  PoolBounded
PROPERTIES
  EmptiedForCause
  RefinesGate
