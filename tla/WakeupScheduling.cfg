\* Three requests over four seconds.
SPECIFICATION SchedulerFairSpec
CONSTANTS
    MaxCookie = 3
    MaxTime = 3
    NoWakeup = NoWakeup
INVARIANTS
    ArmedForEarliest
PROPERTIES
    EachIsCalledBack
CHECK_DEADLOCK FALSE
