SPECIFICATION Spec
CONSTANTS
    Users = {u1}
    Families = {f1}
    Tokens = {t1, t2, t3}
    Requests = {r1, r2}
    NoUser = NoUser
    NoFamily = NoFamily
    NoToken = NoToken
    Grace = 1
    TTL = 2
    MaxTime = 2
    DbFails = TRUE
SYMMETRY Symmetry
INVARIANTS TypeOK RotationIsLinear BanHolds
PROPERTIES RevocationIsFinal ReuseIsLate
CHECK_DEADLOCK FALSE
