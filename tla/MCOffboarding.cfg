CONSTANTS
    w1 = w1
    w2 = w2
    Workers = {w1, w2}
    NMemberships = 2
    Principal <- MCDistinct
    NOffboardings = 2
    NObligations = 1
    BatchSize = 1
    MaxAdmitted = 1
SPECIFICATION MCSpec
CONSTRAINT MCScope
CHECK_DEADLOCK FALSE
INVARIANTS
    OneInProgress
    SettledAfterRelease
    NothingFrozenIsForgotten
PROPERTIES
    ReleaseIsIrreversible
    FreezeCompletes
    CancelFinishes
