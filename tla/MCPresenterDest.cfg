SPECIFICATION FairSpec
CONSTANTS
    s1 = s1
    s2 = s2
    Clients = {c1}
    PowerClients = {c1}
    Surfaces = {s1}
    NoSurface = NoSurface
    Layers = 1
    Swaps <- OneLayer
    Contents <- MCContents
    Blank = 0
    Sampled <- SampledAll
    Dests = {full, moved}
    Console = Console
    Writers = {w1}
    FlushTicks = 2
    AllowOff = FALSE
    KeepConsole = FALSE
    ReuseContents = FALSE
    KickTimesOut = FALSE
    MaxDraws = 1
    MaxSwaps = 2
    MaxVsync = 2
    MaxPower = 0
    MaxConsole = 0
PROPERTY SkipIsRedundant
CHECK_DEADLOCK FALSE
