SPECIFICATION Spec
CONSTANTS
    t1 = t1
    t2 = t2
    c1 = c1
    c2 = c2
    Threads = {t1, t2}
    Clients = {c1, c2}
    Owners <- BothWays
    Surfaces = {s1, s2}
    Bufs = {b1, b2}
    None = None
    MaxId = 2
    Sizes = {1, 2}
    MinBig = 2
    NumKept = 1
    WiredMax = 2
    MayFail = TRUE
SYMMETRY Alike
INVARIANTS
    TypeOK
    UsersCounted
    RetainsCounted
    BuffersOwnedOnce
    WiredIsExact
    NoOldPixels
