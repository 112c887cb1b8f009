SPECIFICATION Spec
CONSTANTS
  a = a
  b = b
  orphan = orphan
  Every = Every
  Stream <- MCStream
  Effects <- MCEffects
  Apis <- MCApis
  Workers <- FanOutWorkers
  Jobs <- TwoJobs
  Rules <- SomeRules
  CountCap = 4
  MaxSteps = 6
  Minute = 2
  Period = 4
  Lookahead = 6
  DueCap = 8
  StartAt = 3
  Horizon = 11
CHECK_DEADLOCK FALSE
INVARIANT AttemptsAddUp
INVARIANT EachInstantOnce
INVARIANT QuiescenceIsReal
INVARIANT PublishesAddUp
