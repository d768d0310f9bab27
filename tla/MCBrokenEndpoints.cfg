SPECIFICATION FairSpec
CONSTANTS
  Addr = {a1, a2}
  NoAddr = none
  U8Max = 2
  MaxShift = 1
  Horizon = 1
  MaxSkew = 1
INVARIANTS
  TypeOK
  OneEntryPerAddress
  NoLostWakeup
  SleepsForLatest
PROPERTIES
  RefinesBrokenSet
  BackoffGrows
  DoctorProgress
