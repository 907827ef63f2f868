SPECIFICATION FairSpec
CONSTANTS
    Payloads <- MCPayloads
    Messages <- MCMessages
    BuffSize = 9
    FifoSize = 12
    MaxFaults = 2
    MaxSuspends = 2
INVARIANTS
    TypeOK
    NoRequestStranded
    WholeRecords
    DeliveredInOrder
    EmptyReadsAreRare
PROPERTIES
    EverythingRead
CHECK_DEADLOCK FALSE
