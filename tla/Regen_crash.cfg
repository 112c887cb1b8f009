SPECIFICATION Spec
CONSTANTS
  main = main
  aux = aux
  svc = svc
  g1 = g1
  g2 = g2
  u = u
  x = x
  y = y
  NoFile = NoFile
  Absent = Absent
  Torn = Torn
  NoManifest = NoManifest
  TornManifest = TornManifest
  File <- OneFile
  Content <- MCContent
  Feature <- MCFeature
  Revision <- TwoRevisions
  MaxSeq = 2
  Schema <- TwoSchema
  Breaking = {}
  Compiler = {"v1"}
  Emit <- TwoEmit
  Builder = {"b1"}
  Modes = {"normal", "adopt"}
  UserDoes = {"edit", "delete", "drop sidecar", "drop manifest"}
  Edits = {u}
  Interfere = FALSE
  Crashes = TRUE
INVARIANT SchemaCovered
PROPERTY SeedWrittenOnce
