CONSTANTS
  t1 = t1  t2 = t2  t3 = t3  cement = cement  steel = steel  u1 = u1  u2 = u2  order = order
  Task <- MCTask
  Depends <- MCDepends
  Material <- MCMaterial
  Reserved = 0
  MaxStock = 10
  Update <- MCUpdate
  MaxAttempts = 2
  MaxDeliveries = 2
  Interpretations <- MCInterpretations
  At <- MCAt
  Needs <- MCNeeds
  UserCommand <- MCUserCommand
  Occasions <- MCOccasions
  Setup <- MCSetup
SPECIFICATION Spec
INVARIANTS TypeOK StockExplained DeliveredAsOrdered RetryIsRecognised CompletedAfterDependencies ReportTellsTheTruth
PROPERTY NoChangeIsLost
CHECK_DEADLOCK FALSE
