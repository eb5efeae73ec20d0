SPECIFICATION MCFairSpec
CONSTANTS
    Presenters = {p}
    Consoles = {k1, k2}
    Diagnosers = {d}
    KeepConsole = FALSE
    MayTimeOut = FALSE
    MaxKicks = 2
    Crews <- Together
INVARIANT NoRetrigger
CHECK_DEADLOCK FALSE
