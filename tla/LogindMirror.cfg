\* Two locks, an application, failing calls and restarts.
SPECIFICATION LogindFairSpec
CONSTANTS
    app1 = app1
    Services = {app1}
    NoService = NoService
    NoRequest = NoRequest
    Ids <- LockIds
    PolicyChoices <- ScreenOnly
    MaxCookie = 4
    LateCalls = FALSE
    Inhibitors <- TwoLocks
    NoInhibitor = NoInhibitor
    MaxChanges = 2
INVARIANTS
    MirrorInSync
PROPERTIES
    KeptLockIsEnforced
    DroppedLockIsReleased
