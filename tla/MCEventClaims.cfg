SPECIFICATION Spec
CONSTANTS
  Key = {k1}
  Fingerprint = {f1, f2}
  Call = {c1, c2, c3, c4}
  None = None
  LeaseSeconds = 2
  MaxAttempts = 2
  MaxTime = 5
SYMMETRY Symm
CHECK_DEADLOCK FALSE
INVARIANTS
  TypeOK
  LeaseIsExclusive
  AttemptsCountClaims
  BuriedWithCause
  OwnersAgreeOnEvent
PROPERTIES
  ImplementsOnce
