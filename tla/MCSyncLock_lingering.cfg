CONSTANTS
    MaxAttempts = 2
    JoinMayTimeOut = TRUE

SPECIFICATION Spec

INVARIANTS
    TypeOK
    IInv
    HeldIsRenewed
    WorkerOwnGrant
    NoLeakedConn

PROPERTIES
    ReleaseIsLast
    LossIsReported
    StaleWorkerKeepsConn
