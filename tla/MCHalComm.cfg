SPECIFICATION FairSpec
CONSTANTS
    Callers = {c1, c2, c3}
    Channels = {ch1}
    All = All
    Messages <- MCMessages
    ArgvSize = 4
    FifoSize = 4
    Nobody = Nobody
    MaxWrites = 2
    MaxFailures = 1
INVARIANTS
    WholeRecords
    BroadcastsReachAll
    SleeperWillBeWoken
PROPERTIES
    MutexComesFree
CHECK_DEADLOCK FALSE
