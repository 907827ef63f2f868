SPECIFICATION FairSpec
CONSTANTS
    Capacity = 1
    MaxBlanks = 3
    MaxSuspends = 1
INVARIANTS
    LastStatusPosted
    FlagFollowsStage
    StageWillBeLeft
PROPERTIES
    ChainEnds
CHECK_DEADLOCK FALSE
