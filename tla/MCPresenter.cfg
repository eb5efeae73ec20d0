SPECIFICATION FairSpec
CONSTANTS
    s1 = s1
    s2 = s2
    Clients = {c1}
    PowerClients = {c1}
    Surfaces = {s1, s2}
    NoSurface = NoSurface
    Layers = 2
    Swaps <- StackedSwaps
    Contents <- MCContents
    Blank = 0
    Sampled <- SampledAll
    Dests = {full}
    Console = Console
    Writers = {w1}
    FlushTicks = 1
    AllowOff = FALSE
    KeepConsole = FALSE
    ReuseContents = FALSE
    KickTimesOut = FALSE
    MaxDraws = 1
    MaxSwaps = 2
    MaxVsync = 1
    MaxPower = 2
    MaxConsole = 1
PROPERTIES
    SkippedIsThere
    SwapsAreShown
    ImplementsMailbox
INVARIANTS TypeOK NoSwapLeftBehind ConsoleKeepsPanel
CHECK_DEADLOCK FALSE
