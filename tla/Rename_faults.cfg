SPECIFICATION Spec
CONSTANTS
  main = main
  lib = lib
  out1 = out1
  out2 = out2
  NoBackup = NoBackup
  Torn = Torn
  Files <- TwoFiles
  Outs <- TwoOuts
  IOErrors = TRUE
  Crashes = TRUE
  EditsWhileRunning = FALSE
  MaxRuns = 2
  MaxEdits = 2
CHECK_DEADLOCK FALSE
INVARIANT Recoverable
PROPERTY EditsKept
PROPERTY RollbackIsTotal
PROPERTY AppliedEverywhere
