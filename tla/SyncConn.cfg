CONSTANTS
    Threads = {t1, t2, t3}
    MaxCalls = 2
    Nobody = Nobody

SPECIFICATION Spec

INVARIANTS
    OneInFlight

PROPERTIES
    KeepsPromise
