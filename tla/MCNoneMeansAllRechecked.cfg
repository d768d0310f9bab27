SPECIFICATION Spec
CONSTANTS
  Addr = {a1, a2}
  NoAddr = none
  Callers = {c1}
  DnsTask = dns
PROPERTY
  NoneMeansAllRechecked
