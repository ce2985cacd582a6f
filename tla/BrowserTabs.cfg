SPECIFICATION TabSpec
CONSTANTS
    Users = {u1}
    Families = {f1}
    Tokens = {t1, t2, t3, t4}
    Requests = {r1, r2, r3}
    NoUser = NoUser
    NoFamily = NoFamily
    NoToken = NoToken
    Grace = 2
    TTL = 2
    MaxTime = 3
    DbFails = FALSE
    Latency = 1
INVARIANTS RaceNeverSignsOut QuietJarIsCurrent
PROPERTIES JarRecovers
CHECK_DEADLOCK FALSE
