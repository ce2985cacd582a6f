SPECIFICATION Spec
CONSTANTS
    Requests = {r1, r2}
    Keys = {k1}
    MaxIds = 2
    MaxPwd = 1
    DbFails = TRUE
SYMMETRY Symmetry
INVARIANTS TypeOK WorksOnce LoginWasEntitled OldPasswordNeedsOverlap UnprovenFactorNeedsOverlap
CHECK_DEADLOCK FALSE
