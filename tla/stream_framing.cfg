SPECIFICATION Spec
CONSTANTS
    MaxPackets = 3
    MaxSize = 2
INVARIANT PacketsAsSent
PROPERTY AllRead
CHECK_DEADLOCK FALSE
