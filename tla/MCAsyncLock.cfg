CONSTANTS
    MaxAttempts = 2
    CancelPoints = {"reset", "stopping", "closing", "open", "await", "iolock", "relstop", "relwait"}

SPECIFICATION MCSpec

INVARIANTS
    WorkerOwnGrant
    ClosedIsClean
    NoLeakedConn
    NoForgottenGrant
    HeldIsRenewedUnlessCut

PROPERTIES
    LossIsGenuine
    KeepsPromiseUnlessCut
    CallReturns
    ReusedGrantIsFreed
