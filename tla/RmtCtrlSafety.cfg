SPECIFICATION Spec
CONSTANTS
    MaxEdges = 3
    MaxBlanks = 1
    MaxWrites = 1
    MaxSuspends = 2
    MaxTimeouts = 0
    MaxFakes = 0
    UnormalMax = 0
    RepeatMax = 1
    Protect = TRUE
INVARIANTS
    TypeOK
    NoLostEdge
    SleepTimerArmed
    StaleSleepAtMostOnce
    LockTracksAcc
    AwakeWhileAccOn
    SubscribersAgree
CHECK_DEADLOCK FALSE
