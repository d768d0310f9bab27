SPECIFICATION Spec
CONSTANTS
  s1 = s1
  s2 = s2
  x = x
  y = y
  Stems = {s1, s2}
  Idents = {s1}
  Names = {x, y}
  Sources <- Directories
  MaxBuilds = 2
INVARIANTS
  TypeOK
  AllBuilt
  UpToDate
  OnlyPooledWritten
CHECK_DEADLOCK FALSE
