SPECIFICATION Spec
CONSTANTS
    s1 = s1
    s2 = s2
    r1 = r1
    r2 = r2
    NoMsg = none
    m1 = m1
    m2 = m2
    Senders <- MCSenders
    Receivers <- MCReceivers
    Msgs <- MCMsgs
    Capacity = 2
    Modulus = 8
INVARIANTS
    TypeOK
    SemaphoreCountsMessages
PROPERTY FifoSpec
CHECK_DEADLOCK TRUE
