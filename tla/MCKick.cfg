SPECIFICATION MCFairSpec
CONSTANTS
    Presenters = {p}
    Consoles = {k1, k2}
    Diagnosers = {d}
    KeepConsole = FALSE
    MayTimeOut = TRUE
    MaxKicks = 3
    Crews <- OneSide
INVARIANTS
    OneKicker
    NoRetrigger
    DoneNotLost
    NoTearing
PROPERTY KicksReturn
CHECK_DEADLOCK FALSE
