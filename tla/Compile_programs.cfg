SPECIFICATION Spec
CONSTANTS
  CheckBody <- CheckHandler
  RunBody <- Reference
  Lowering <- Render
  Programs <- MCPrograms
  Spelling <- MCSpelling
INVARIANT PathsAreSound
INVARIANT CyclesAreFound
INVARIANT ServicesApart
INVARIANT ServicesFit
INVARIANT OrderIsFree
INVARIANT ExpansionsApart
CHECK_DEADLOCK FALSE
INVARIANT BodiesRun
INVARIANT LoweringPreservesMeaning
