CONSTANTS
    t1 = t1
    t2 = t2
    Tasks = {t1, t2}
    MaxCalls = 2
    Nobody = Nobody
    Tls = FALSE

SPECIFICATION FairSpec

INVARIANTS
    LossHasCause

PROPERTIES
    KeepsPromise
    CommandReturns
