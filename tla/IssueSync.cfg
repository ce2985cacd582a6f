SPECIFICATION Spec
CONSTANTS
    Issues = {i1, i2}
    Writers = {w1, w2}
    NoCopy = NoCopy
    NotShown = NotShown
    Overlap = 3
    Limit = 1
    Grace = 3
    Lag = 1
    MaxTime = 4
    MaxWrites = 2
SYMMETRY Symmetry
VIEW View
INVARIANTS TypeOK LiveDelivered TombstoneDelivered
