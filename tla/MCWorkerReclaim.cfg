SPECIFICATION Spec
CONSTANTS
  Message = {m1}
  MaxDeliveries = 3
  Key = {k1}
  Fingerprint = {f1}
  None = None
  LeaseSeconds = 2
  MaxAttempts = 2
  MaxTime = 4
CHECK_DEADLOCK FALSE
INVARIANTS
  AbandonedWorkCanBeReclaimed
