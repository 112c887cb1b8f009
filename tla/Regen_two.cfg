SPECIFICATION Spec
CONSTANTS
  main = main
  aux = aux
  svc = svc
  g1 = g1
  g2 = g2
  u = u
  x = x
  y = y
  NoFile = NoFile
  Absent = Absent
  Torn = Torn
  NoManifest = NoManifest
  TornManifest = TornManifest
  File <- OneFile
  Content <- MCContent
  Feature <- MCFeature
  Revision <- TwoRevisions
  MaxSeq = 1
  Schema <- TwoSchema
  Breaking = {}
  Compiler = {"v1"}
  Emit <- TwoEmit
  Builder = {"b1", "b2"}
  Modes = {"normal", "force"}
  UserDoes = {"edit", "delete"}
  Edits = {u}
  Interfere = FALSE
  Crashes = TRUE
INVARIANT UpToDateIsSound
