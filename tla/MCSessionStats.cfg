SPECIFICATION Spec
CONSTANTS
    Channels = {c1}
    Empty = Empty
    Torn = Torn
    MaxFlushes = 3
    MaxSessions = 1
    MaxCounted = 2
    MaxCrashes = 1
INVARIANT NothingInvented
PROPERTY FileCatchesUp
CHECK_DEADLOCK FALSE
