SPECIFICATION Spec
CONSTANTS
  a = a
  b = b
  std = std
  reg = reg
  Missing = Missing
  Process = {p1, p2}
  Local = {a, b}
  Std = {std}
  Registry = {reg}
  Spelling <- MCSpelling
  Sources <- MCSources
  Entry = {a}
  MaxLoads = 2
CHECK_DEADLOCK FALSE
INVARIANT SplicedOnce
INVARIANT ResolvesTheGraph
PROPERTY LoadEnds
