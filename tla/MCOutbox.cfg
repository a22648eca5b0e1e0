SPECIFICATION IntakeSpec
CONSTANTS
  Caller = {c1, c2, c3}
  ErrorCode = {"publish", "configuration"}
  File = {f1, f2}
  Body = {b1, b2}
  f1 = f1
  f2 = f2
  b1 = b1
  b2 = b2
  None = None
  Files <- MCFiles
SYMMETRY Callers
CHECK_DEADLOCK FALSE
INVARIANTS
  IntakeTypeOK
  AnswersAreTrue
  IntakeIsWhole
PROPERTIES
  CompletedIsFinal
