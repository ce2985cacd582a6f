SPECIFICATION Spec
CONSTANTS
    Issues = {i1, i2, i3}
    Writers = {w1}
    NoCopy = NoCopy
    NotShown = NotShown
    Overlap = 3
    Limit = 2
    Grace = 3
    Lag = 1
    MaxTime = 1
    MaxWrites = 1
PROPERTIES ScanAdvances
