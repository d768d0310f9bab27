SPECIFICATION Spec
CONSTANTS
  Addr = {a1, a2, a3}
  NoAddr = none
  IndexMod = 8
  MaxLen = 4
INVARIANTS
  TypeOK
  Balanced
PROPERTIES
  RefinesChannelBag
  OperationsAgree
