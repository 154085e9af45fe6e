CONSTANTS
    MaxLine = 5
    MaxAuth = 3
    MaxWords = 4
    MaxSeconds = 105

SPECIFICATION Spec

INVARIANTS
    ReadAsAsked
    RefusesOnlyMisread
    DecodesWhatWasSent
    CutNeverOverstates
    NoConfusion
    LeaseInRange
