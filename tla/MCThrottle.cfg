SPECIFICATION Spec
CONSTANTS
  Addr = {a1}
  NoAddr = none
  Callers = {c1, c2}
  DnsTask = dns
PROPERTY
  Throttled
