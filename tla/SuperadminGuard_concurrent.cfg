SPECIFICATION Spec
CONSTANTS
    Users = {u1, u2}
    Requests = {r1, r2}
    NoUser = NoUser
    NoRequest = NoRequest
    BootstrapUser = NoUser
    Unguarded = FALSE
INVARIANTS SomeSuperadmin
