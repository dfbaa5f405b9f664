SPECIFICATION Spec
CONSTANTS
    MaxMessages = 4
    MaxControl = 1
INVARIANTS
    FreedAlone
    EndsClosed
PROPERTIES
    ShutdownEnds
    ThreadsEnd
CHECK_DEADLOCK FALSE
