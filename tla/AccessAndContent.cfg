SPECIFICATION AccessSpec
CONSTANTS
    a1 = a1
    a2 = a2
    FileIds = {d1, d2}
    Keys = {f1, f2}
    FileTargets = {t1, c1, m1}
    TheIssue = t1
    TheComment = c1
    TheMeeting = m1
    Topics = {x1}
    Clock = {0, 1, 2}
    Uploaders = {h1, h2}
    NoFile = NoFile
    Sizes = {0, 1, 2}
    MaxFileOps = 3
    Painters = {h1, h2}
    Mimes = {d1, d2}
    NoImage = NoImage
    Torn = Torn
    MaxPaints = 3
    People = {alice, bob}
    Superadmins = {bob}
    Roles = {admin, dev}
    AdminRole = admin
    Invites = {i1}
    Agents = {h1, h2}
    NoRole = NoRole
    MaxCalls = 3
    Projects = {j1, j2}
    Boards = {b1, b2}
    Names = {xa, xb, xc}
    Viewers = {v1}
    Curators = {v1}
    Renamers = {h1, h2}
    Nobody = Nobody
    MaxRenames = 3
    Accounts = {a1, a2}
    Subjects = {d1, d2}
    Tickets = {f1, f2}
    Doors = {h1, h2}
    NoOne = NoOne
    MaxVisits = 4
    EmailOf <- EmailDef
    Texts = {y1, y2}
    Scribes = {h1, h2}
    NoText = NoText
    MaxDocOps = 3
    MaxCommits = 3
    Repos = {d1, d2}
    Urls = {f1, f2}
    SshKeys = {k1, k2}
    Parts = {c1}
    Operators = {h1, h2}
    Unset = Unset
    Unpatched = Unpatched
    MaxRepos = 1
    MaxSshKeys = 1
    MaxRepoOps = 4
    Holders = {u1}
    AppIds = {u2}
    Spaces = {f1, f2}
    Grants = {g1, g2}
    Secrets = {d1, d2}
    Clients = {h1, h2}
    Nothing = Nothing
    MaxTokenOps = 4
    Pages = {p1}
    Prose = {d1, d2}
    Writers = {h1, h2}
    NoPage = NoPage
    AsRead = AsRead
    MaxSaves = 4
    Customers = {d1, d2}
    Titles = {f1, f2}
    Details = {g1, g2}
    Cards = {t1, t2}
    Persons = {u1, u2}
    Moderators = {u2}
    Notes = {n1}
    Clerks = {h1, h2}
    Blank = Blank
    MaxCustomers = 1
    MaxRemarks = 4
    Variants = {country, city}
    Jobs = {h1, h2}
    Conns = {f1, f2}
    Families = {g1}
    NoBuild = NoBuild
    NoConn = NoConn
    MaxGeoOps = 3
    Addresses = {f1, f2}
    Identifiers = {d1, d2}
    Logins = {h1, h2}
    Anonymous = Anonymous
    Window = 4
    Tock = 2
    AuthPerMin = 2
    UnauthPerMin = 1
    FailureWindow = 4
    Patience = 6
    MaxRequests = 5
    MaxAttempts = 3
INVARIANTS
    AccessTypeOK
    DiskMatchesRows
    GuardsNeedOverlap
    OldLinkLeadsHome
    LockoutNeedsCause
    SavedIsOnRemote
PROPERTIES
    PatchReplacesWhatItRead
    TicketsWorkOnce
SYMMETRY AccessSymmetry
CHECK_DEADLOCK FALSE
