SPECIFICATION WorkSpec
CONSTANTS
    Issues = {i1, i2}
    Epics = {e1}
    Milestones = {m1}
    Editors = {h1, h2}
    Nil = Nil
    Depth = 2
    MaxEdits = 3
    Entries = {n1, n2}
    Bookings = {b1}
    People = {u1, u2}
    Loggers = {u1, u2}
    Managers = {u2}
    Task = t1
    Project = p1
    Clerks = {h1, h2}
    NoOne = NoOne
    LastDay = 2
    MonthLength = 1
    YearLength = 2
    Weekend = {2}
    MinutesLogged = {1}
    Targets = {1, 2}
    MaxTimeOps = 3
    Items = {s1, s2, s3}
    Movers = {h1, h2}
    NoItem = NoItem
    Gap = 2
    MaxTaxOps = 3
    Keys = {x1}
    Makers = {h1, h2}
    NoKey = NoKey
    Batch = 2
    MaxMakes = 3
    Comps = {c1, c2}
    Rels = {r1}
    Vers = {1, 2}
    Patchers = {h1, h2}
    NoVer = NoVer
    Keep = Keep
    MaxRelOps = 4
    Calendar = {1, 2}
    Planners = {a1}
    NoDay = NoDay
    Same = Same
    Width = 2
    MaxPlans = 3
    Streams = {w1, w2}
    Publishers = {h1, h2}
    Ids = Ids
    ChannelCapacity = 1
    MaxWrites = 3
INVARIANTS
    WorkTypeOK
    CycleNeedsCause
    DriftNeedsOverlap
    ViewsAgree
    RetryMakesOne
    MirrorNeedsCause
    RefusalIsExplained
PROPERTIES
    LockedMonthIsSealed
    QuietMoveLands
SYMMETRY WorkSymmetry
CHECK_DEADLOCK FALSE
