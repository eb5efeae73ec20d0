SPECIFICATION FairSpec
CONSTANTS
    NumRegs = 3
    PowerReg = 1
    HomeRegs <- MCHomeRegs
    Home = Home
    Clients = {c1, c2}
    Envs <- MCEnvs
    AtBoot <- MCAtBoot
    MaxPresses = 3
INVARIANTS
    TypeOK
    ClientsFollowKeys
    NoRepeatedEvent
PROPERTY PressesReported
