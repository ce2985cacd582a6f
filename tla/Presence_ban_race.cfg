SPECIFICATION Spec
CONSTANTS
    Users = {u1}
    Nodes = {n1}
    Requests = {r1, r2}
    NoUser = NoUser
    NoNode = NoNode
    CheckTTL = 2
    SweepAfter = 2
    MaxEntries = 1
    Latency = 1
    MaxTime = 4
    DbFails = FALSE
SYMMETRY Symmetry
INVARIANTS BanAppliesOnNextRequest
