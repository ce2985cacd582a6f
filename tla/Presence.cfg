SPECIFICATION Spec
CONSTANTS
    Users = {u1, u2}
    Nodes = {n1}
    Requests = {r1, r2}
    NoUser = NoUser
    NoNode = NoNode
    CheckTTL = 1
    SweepAfter = 1
    MaxEntries = 1
    Latency = 1
    MaxTime = 2
    DbFails = TRUE
SYMMETRY Symmetry
INVARIANTS TypeOK CacheIsHonest
PROPERTIES BlockLag
