SPECIFICATION Spec
CONSTANTS
    Key = {k1, k2}
    Item = {t1, t2, t3}
    k1 = k1
    k2 = k2
    t1 = t1
    t2 = t2
    t3 = t3
    Call = {c1, c2}
    None = None
    LargeImpact = 2
    Fresh = TRUE
    Firestore = TRUE
    MaxTurns = 2
    MaxEdits = 1
    MaxMishaps = 1
CONSTANT Dependents <- MCDependents
CONSTANT Meaning <- MCMeaning
PROPERTY NoSilentOverwrite
CHECK_DEADLOCK FALSE
