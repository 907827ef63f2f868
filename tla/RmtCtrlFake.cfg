SPECIFICATION FairSpec
CONSTANTS
    MaxEdges = 1
    MaxBlanks = 1
    MaxWrites = 0
    MaxSuspends = 1
    MaxTimeouts = 1
    MaxFakes = 1
    UnormalMax = 0
    RepeatMax = 1
    Protect = TRUE
PROPERTIES
    FakeEndsSleepLoop
CHECK_DEADLOCK FALSE
