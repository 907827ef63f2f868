SPECIFICATION Spec
CONSTANTS
    MaxEdges = 1
    MaxBlanks = 0
    MaxWrites = 0
    MaxSuspends = 1
    MaxTimeouts = 1
    MaxFakes = 0
    UnormalMax = 0
    RepeatMax = 1
    Protect = TRUE
INVARIANTS
    AccOffAtBootAnswered
CHECK_DEADLOCK FALSE
