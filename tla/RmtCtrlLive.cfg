SPECIFICATION FairSpec
CONSTANTS
    MaxEdges = 2
    MaxBlanks = 1
    MaxWrites = 0
    MaxSuspends = 1
    MaxTimeouts = 1
    MaxFakes = 0
    UnormalMax = 0
    RepeatMax = 1
    Protect = TRUE
PROPERTIES
    AccConverges
    SleepAskedAgain
CHECK_DEADLOCK FALSE
