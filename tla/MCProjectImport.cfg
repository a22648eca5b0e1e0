SPECIFICATION Spec
CONSTANTS
  i1 = i1
  i2 = i2
  t1 = t1
  t2 = t2
  None = None
  Blank = Blank
  Unknown = Unknown
  MaxWrites = 450
  Import <- MCImport
  Call = {c1, c2}
  Client = {m1}
  Text <- MCText
  Answers <- MCAnswers
  Reviewed <- MCReviewed
  NewMaterial <- MCNewMaterial
  MaxAttempts = 2
  MaxMishaps = 1
  MaxVersion = 8
CHECK_DEADLOCK FALSE
INVARIANTS
  TypeOK
  ImportedWhole
PROPERTIES
  AddsOnly
  ReviewStands
  ConfirmedEnds
