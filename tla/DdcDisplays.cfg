SPECIFICATION FairSpec
CONSTANTS
    Buses <- TwoBuses
    MaxBrightness = 1
    MaxEvents = 3
INVARIANTS
    OfferedOrTried
    KWinReachesDisplays
PROPERTIES
    KeepsPromise
    GivenUpAfterFailures
    TryingEnds
CHECK_DEADLOCK FALSE
