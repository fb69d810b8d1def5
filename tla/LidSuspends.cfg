\* Two profiles that disagree about the lid; two requests at a time; five events.
SPECIFICATION ButtonsFairSpec
CONSTANTS
    LidActionOf <- SleepsOrNothing
    TriggersOf <- BesideMonitor
    MaxWaiting = 2
    MaxEvents = 5
INVARIANTS
    LidIsLookedAfter
    RefusedInProgress
PROPERTIES
    ClosedLidSleeps
CHECK_DEADLOCK FALSE
