CONSTANTS
    t1 = t1
    t2 = t2
    Tasks = {t1, t2}
    MaxCalls = 1
    Nobody = Nobody
    Tls = TRUE

SPECIFICATION Spec

INVARIANTS
    OwnAnswer
