SPECIFICATION Spec
CONSTANTS
    QueryKinds = {"device", "capture"}
    Captures = {"capture"}
    Capacity = 2
    MaxRequests = 5
    MaxEvents = 2
INVARIANTS
    TypeOK
    StaleOnlyByTimeout
    QueryIsBarrier
    NoUseAfterDestroy
PROPERTIES
    StopEnds
    QueryReturns
