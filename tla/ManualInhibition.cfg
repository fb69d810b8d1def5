SPECIFICATION Spec
CONSTANTS
    MaxEvents = 4
    Backlog = 3
INVARIANTS
    ListIsShown
    HasInhibitShown
    SwitchIsTrue
CHECK_DEADLOCK FALSE
