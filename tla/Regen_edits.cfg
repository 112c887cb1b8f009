SPECIFICATION Spec
CONSTANTS
  main = main
  aux = aux
  svc = svc
  g1 = g1
  g2 = g2
  u = u
  x = x
  y = y
  NoFile = NoFile
  Absent = Absent
  Torn = Torn
  NoManifest = NoManifest
  TornManifest = TornManifest
  File <- MCFile
  Content <- MCContent
  Feature <- MCFeature
  Revision <- MCRevision
  MaxSeq = 2
  Schema <- MCSchema
  Breaking <- MCBreaking
  Compiler = {"v1"}
  Emit <- MCEmit
  Builder = {"b1"}
  Modes = {"normal", "replay"}
  UserDoes = {"edit", "delete", "drop sidecar"}
  Edits = {u}
  Interfere = FALSE
  Crashes = FALSE
INVARIANT TypeOK
INVARIANT NoFalseConflict
PROPERTY NoUserContentLost
PROPERTY FailedBuildsKeepTree
