CONSTANTS
    MaxAttempts = 2
    CancelPoints = {"reset"}

SPECIFICATION Spec

INVARIANTS
    HeldIsRenewed
