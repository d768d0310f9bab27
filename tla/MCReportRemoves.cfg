SPECIFICATION Spec
CONSTANTS
  Addr = {a1}
  NoAddr = none
  Callers = {c1}
  DnsTask = dns
PROPERTY
  ReportRemoves
