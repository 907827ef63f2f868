SPECIFICATION FairSpec
CONSTANTS
    w1 = w1
    w2 = w2
    Writers <- MCWriters
    Messages <- MCMessages
    FifoSize = 16
    CHECK_MCU_BUSY = TRUE
    MaxWrites = 4
    MaxBusy = 2
    MaxSuspends = 1
INVARIANTS
    WholeFrames
    NoDataStranded
PROPERTIES
    EverythingSent
CHECK_DEADLOCK FALSE
