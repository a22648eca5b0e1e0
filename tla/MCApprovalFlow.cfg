SPECIFICATION Spec
CONSTANTS
  Approval = {a1, a2}
  MaxAttempts = 2
SYMMETRY Symm
CHECK_DEADLOCK FALSE
INVARIANTS
  TypeOK
  RunAndSiteAgree
  ExecutedWasGranted
  HandledGrantClosedTheRun
PROPERTIES
  CompletedIsFinal
  PausedUntilDecided
