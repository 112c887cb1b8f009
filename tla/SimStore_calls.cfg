SPECIFICATION Spec
CONSTANTS
  customers = customers
  orders = orders
  items = items
  NoRef = NoRef
  Refused = Refused
  Every = Every
  CountCap = 0
  Keys <- FiveKeys
  Field <- TwoFields
  Table <- ThreeTables
  Effects <- ThreeEffects
  References <- ChainSchema
  Rules <- OrdersFail
  MaxBatch = 2
  BatchTables <- TwoTables
  KeepsId = TRUE
  Reinserts = FALSE
INVARIANT ConstraintsHold
INVARIANT DeleteIsTheClosure
INVARIANT BatchIsSequential
