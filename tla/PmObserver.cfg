SPECIFICATION ObserverFairSpec
CONSTANTS
    Users = {u1, u2}
    ForceAt = 2
    RebootAt = 3
    PowerOffAt = 4
    Protect = FALSE
    ws_lh = TRUE
    MaxEdges = 4
    MaxStarts = 2
INVARIANTS
    NightWatched
    LockLostOnlyInRace
    UserLockGivenBack
PROPERTIES
    StuckLocksEnd
CHECK_DEADLOCK FALSE
