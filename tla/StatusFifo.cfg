SPECIFICATION FairSpec
CONSTANTS
    Senders = {s1, s2}
    Readers = {r1, r2}
    Nobody = Nobody
    Capacity = 2
    MaxSends = 4
INVARIANTS
    TypeOK
    SleeperWillBeWoken
    InOrder
    LastPostedIsStatus
PROPERTIES
    ImplementsChannel
CHECK_DEADLOCK FALSE
