SPECIFICATION FairSpec
CONSTANTS
  Addr = {a1, a2}
  NoAddr = none
  U8Max = 3
  MaxShift = 1
  Horizon = 1
  MaxSkew = 0
PROPERTY EveryBrokenRetested
