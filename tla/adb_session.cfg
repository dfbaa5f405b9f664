SPECIFICATION Spec
CONSTANTS
    MaxChannels = 3
    MaxOpens = 4
    MaxWrites = 2
INVARIANTS
    TypeOK
    RoutedRight
    AddressedRight
    AckedOnce
