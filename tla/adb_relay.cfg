SPECIFICATION Spec
CONSTANTS
    PairCapacity = 1
    Loads <- MCLoads
    OtherStreams = 1
INVARIANTS
    AddressedRight
    AckedOnce
    WholeIfLocked
    RolesAgree
    RelayedInOrder
    ControlInOrder
PROPERTY
    VideoArrives
CHECK_DEADLOCK FALSE
