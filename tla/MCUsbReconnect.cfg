SPECIFICATION FairSpec
CONSTANTS
    CallThreads = {c1}
    Pumps = {p}
    None = None
    EventRingSize = 2
    Rounds = 2
    TxRingSize = 3
    PacketSize = 1
    HwEvents = 2
    MaxOuts = 2
    Envs <- OnlyReconnect
PROPERTY LaterHostReads
