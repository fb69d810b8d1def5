\* Two applications with one id whose reason has a colon, both policies, two cookies.
SPECIFICATION FairSpec
CONSTANTS
    app1 = app1
    app2 = app2
    Services = {app1, app2}
    NoService = NoService
    NoRequest = NoRequest
    Ids <- ColonId
    PolicyChoices <- EitherPolicy
    MaxCookie = 2
    LateCalls = TRUE
INVARIANTS
    NotifiedPoliciesCurrent
    BlockedSurvivesRestart
PROPERTIES
    ImplementsPromise
    PendingEnds
    WatchedCrashReleases
