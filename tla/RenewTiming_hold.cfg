CONSTANTS
    Sec = 2
    Num = 1
    Den = 2
    Leases = {1, 2, 3, 4, 5, 8, 10, 15}
    MaxDelay = 2
    MaxLate = 1

SPECIFICATION Spec

INVARIANTS
    NeverLapses
    OverrunBounded
