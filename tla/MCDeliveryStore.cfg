SPECIFICATION RoutedSpec
CONSTANTS
  MaxDeliveries = 2
  MaxAttempts = 2
  MaxPlan = 1
  Enough <- MCEnough
INVARIANT ReadsBeforeWrites
CHECK_DEADLOCK FALSE
