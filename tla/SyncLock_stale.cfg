CONSTANTS
    MaxAttempts = 2
    JoinMayTimeOut = TRUE

SPECIFICATION Spec

PROPERTIES
    StaleWorkerHarmless
