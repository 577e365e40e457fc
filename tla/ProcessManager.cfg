CONSTANTS
    Proc = {1, 2}
    MaxActive = 2
    MaxTerminal = 1
    MaxRevoke = 1
    MaxFault = 1
SPECIFICATION Spec
INVARIANTS
    Accounted
    AliveIsCounted
    RevokedIsGone
    ClosedIsEmpty
PROPERTIES
    NoFalseSuccess
    NoReceiptAfterRevocation
    EverythingEnds
    LifetimeEnforced
CHECK_DEADLOCK FALSE
