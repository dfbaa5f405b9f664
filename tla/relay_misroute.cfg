SPECIFICATION Spec
CONSTANTS
    PairCapacity = 1
    Loads <- MCLoads
    OtherStreams = 1
INVARIANTS
    VideoUnmixed
CHECK_DEADLOCK FALSE
