SPECIFICATION Spec
CONSTANTS
  Approval = {a1}
  MaxAttempts = 2
SYMMETRY Symm
CHECK_DEADLOCK FALSE
PROPERTIES
  RejectedIsFinal
