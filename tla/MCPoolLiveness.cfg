SPECIFICATION SyncSpec
CONSTANTS
  Addr = {a1}
  NoAddr = none
  Callers = {c1, c2}
  DnsTask = dns
PROPERTIES
  GetChannelReturns
  TrackedAgain
