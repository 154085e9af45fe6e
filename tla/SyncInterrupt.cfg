CONSTANTS
    MaxAttempts = 2
    JoinMayTimeOut = FALSE

SPECIFICATION SpecInterrupted

INVARIANTS
    InterruptedStopsOwnWorker
    NoForgottenGrantTillInterrupted
    LeaseBelongsToTokenTillInterrupted

PROPERTIES
    LaterCallsReturn
    LaterWorkersExit
    KeepsPromiseTillInterrupted
    ReusedGrantIsFreedTillInterrupted
