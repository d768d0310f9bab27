SPECIFICATION Spec
CONSTANTS
  Addr = {a1}
  NoAddr = none
  Callers = {c1}
  DnsTask = dns
  U8Max = 3
  Limit = 2
INVARIANTS
  TypeOK
  NothingKept
PROPERTIES
  RequestReturns
  DefaultReturns
