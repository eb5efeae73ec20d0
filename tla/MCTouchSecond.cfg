SPECIFICATION FairSpec
CONSTANTS
    Fingers = {0, 1}
    Envs <- GoodF12
    Up = Up
    Positions = {7, 12}
    MaxX = 30
    F11MaxX = 31
    Grip = 2
    Hyst = 3
    Jitter = 1
    Sub = 5
    MaxSteps = 4
    HeldTicks = 2
    IdleTicks = 2
    MaxFails = 2
    MaxContacts = 2
PROPERTY EveryFingerReported
