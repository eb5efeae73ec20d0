SPECIFICATION FairSpec
CONSTANTS
    Helpers = {h1, h2, h3}
    Workers = 4
    Height = 6
    Bands <- MCBands
    ParallelMin = 3
    GenMod = 2
    MaxFrame = 2
INVARIANTS
    TypeOK
    LayerComplete
    JobStable
    NoSharedRow
    Inv
PROPERTY PresentReturns
CHECK_DEADLOCK FALSE
