SPECIFICATION Spec
CONSTANTS
  main = main
  lib = lib
  Missing = Missing
  Closed = Closed
  Never = Never
  Nothing = Nothing
  Unreadable = Unreadable
  Doc = {main, lib}
  Text = {t1, t2}
  Imports <- MCImports
  Debounce = 3
  Poll = 2
  MaxSends = 3
INVARIANT ShowsTheBuffer
INVARIANT FiresInTime
INVARIANT SymbolsFollowDiagnostics
PROPERTY ReparseHappens
