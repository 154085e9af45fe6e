CONSTANTS
    MaxAttempts = 1
    JoinMayTimeOut = FALSE

SPECIFICATION FairSpec

PROPERTIES
    DroppedGrantIsFreed
