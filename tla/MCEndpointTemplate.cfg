SPECIFICATION Spec
CONSTANTS
  Ips = {v4, v6}
  Localhost = v4
  Values = {x, y}
  BadText = bad
  NotAUrl = text
  None = none
  Default = default
  MaxCalls = 3
INVARIANTS
  TypeOK
  BuiltAsAsked
PROPERTIES
  PanicsOnlyUntested
