SPECIFICATION FairSpec
CONSTANTS
    Callers = {c1, c2}
    Server = userver
    Commands <- MCCommands
    Script <- MCScript
    FifoSize = 7
    Capacity = 8
    LineSize = 2
    Nobody = nobody
    MaxCalls = 4
INVARIANTS
    CommandsReadInOrder
PROPERTIES
    CommandsAreRead
CHECK_DEADLOCK FALSE
