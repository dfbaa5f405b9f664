SPECIFICATION Spec
CONSTANTS
    MaxFrames = 3
    Sizes = {portrait, landscape}
    ScriptEnabled = TRUE
INVARIANTS
    TypeOK
    Ownership
    NotStranded
    LastFrameDelivered
PROPERTY MailboxSpec
