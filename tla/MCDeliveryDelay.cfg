SPECIFICATION RoutedSpec
CONSTANTS
  MaxDeliveries = 2
  MaxAttempts = 2
  MaxPlan = 2
  Enough <- MCEnough
INVARIANTS
  RoutedTypeOK
  HandledMeansDone
  OneStory
PROPERTIES
  OutcomeIsFinal
  DeliverEnds
CHECK_DEADLOCK FALSE
