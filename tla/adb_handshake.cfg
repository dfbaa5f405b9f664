SPECIFICATION Spec
CONSTANTS
    MaxTries = 3
    MaxSent = 4
    MaxTickets = 1
    Sizes = {0, 1, 2, 3}
INVARIANTS
    HandledInOrder
    HeldAtReturn
PROPERTY ConnectEnds
