SPECIFICATION FairSpec
CONSTANTS
  main = main
  aux = aux
  svc = svc
  g1 = g1
  g2 = g2
  u = u
  x = x
  y = y
  NoFile = NoFile
  Absent = Absent
  Torn = Torn
  NoManifest = NoManifest
  TornManifest = TornManifest
  File <- MCFile
  Content <- MCContent
  Feature <- MCFeature
  Revision <- MCRevision
  MaxSeq = 2
  Schema <- MCSchema
  Breaking <- MCBreaking
  Compiler = {"v1", "v2"}
  Emit <- MCEmit2
  Builder = {"b1"}
  Modes = {"normal"}
  UserDoes = {"delete"}
  Edits = {}
  Interfere = FALSE
  Crashes = FALSE
PROPERTY BuildsConverge
