\* Requests, failing jobs and other programs, in any order.
SPECIFICATION BacklightSpec
CONSTANTS
    MaxBrightness = 3
    MaxSets = 4
    MaxOthers = 3
    NoJob = NoJob
INVARIANT
    BelievesActual
PROPERTY
    KeepsPromise
CHECK_DEADLOCK FALSE
