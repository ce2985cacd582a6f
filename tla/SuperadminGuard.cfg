SPECIFICATION FairSpec
CONSTANTS
    Users = {u1, u2}
    Requests = {r1, r2}
    NoUser = NoUser
    NoRequest = NoRequest
    BootstrapUser = u1
    Unguarded = TRUE
INVARIANTS TypeOK DecisionIsFresh LockoutNeedsOverlap
PROPERTIES RequestsFinish
CHECK_DEADLOCK FALSE
