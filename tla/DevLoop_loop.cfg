SPECIFICATION FairSpec
CONSTANTS
  main = main
  lib = lib
  seed = seed
  Missing = Missing
  project = project
  shared = shared
  services = services
  Dir <- MCDir
  SavesDuring <- AnyTime
  MaxSaves = 2
CHECK_DEADLOCK FALSE
PROPERTY PendingIsBuilt
PROPERTY EchoesEnd
