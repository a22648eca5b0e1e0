SPECIFICATION Spec
CONSTANTS
  Message = {m1, m2}
  MaxDeliveries = 3
  Key = {k1}
  Fingerprint = {f1, f2}
  None = None
  LeaseSeconds = 1
  MaxAttempts = 2
  MaxTime = 2
CHECK_DEADLOCK FALSE
INVARIANTS
  TypeOK
  AckedIsSettledOrBusy
PROPERTIES
  UndisturbedEventsSettle
