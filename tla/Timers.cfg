SPECIFICATION TimersSpec
CONSTANTS
    Intervals = {i1}
    Timeouts = {t1}
    Programs = {p1, p2}
    MaxTicks = 3
    MaxCancels = 1
INVARIANTS
    AtMostOneLate
    OnlyOverlapsPanic
PROPERTY
    CancelEnds
CHECK_DEADLOCK FALSE
