----------------------------- MODULE PolicyAgent -----------------------------
(***************************************************************************)
(* The inhibition bookkeeping of PowerDevil::PolicyAgent                   *)
(* (daemon/powerdevilpolicyagent.cpp): applications ask over D-Bus that    *)
(* the session not be interrupted or that the screen be left alone.  A     *)
(* request is first only scheduled; a 5 s single-shot timer enforces it    *)
(* unless it was released meanwhile.  The user may block an inhibition by  *)
(* its (who, why) pair; a blocked one stays requested but is not active.   *)
(* The agent releases what an application that left the bus still holds.   *)
(*                                                                         *)
(* Every handler runs to completion on the daemon's only thread, so each   *)
(* is one action; what interleaves is the order of the handlers: D-Bus     *)
(* calls, timers, bus notices, the screen locker and a daemon restart.     *)
(*                                                                         *)
(* Abstractions.  A D-Bus string is a sequence of colon-free segments,     *)
(* which is all that saving and loading the block list tells apart.  The   *)
(* cookie lists of m_typesToCookie are bags: their order is never read.    *)
(* m_lastCookie does not wrap.                                             *)
(***************************************************************************)
EXTENDS Naturals, Sequences

CONSTANTS Services,       \* unique bus names of applications
          NoService,      \* the empty service of a request made in-process
          NoRequest,      \* the value of a cookie that was not handed out
          Ids,            \* the (who, why) pairs applications use
          PolicyChoices,  \* the `types' arguments callers pass
          MaxCookie,      \* bound: cookies handed out between two restarts
          LateCalls       \* may an application leave with a call still queued?

Policies == {"InterruptSession", "ChangeScreenSettings"}

Cookies == 1 .. MaxCookie

ASSUME ConstantsAssumption ==
    /\ NoService \notin Services
    /\ MaxCookie \in Nat
    /\ LateCalls \in BOOLEAN
    /\ PolicyChoices \subseteq SUBSET Policies

Requests == [service : Services \cup {NoService}, id : Ids, policies : SUBSET Policies]

ASSUME NoRequestAssumption == NoRequest \notin Requests

\* who and why are strings, each of one or more colon-free segments.
ASSUME IdsAssumption ==
    Ids \subseteq [who : Seq(STRING) \ {<<>>}, why : Seq(STRING) \ {<<>>}]

\* "who:why" in the configuration file, and how it is taken apart again:
\* who is everything before the first colon.
Joined(id)   == id.who \o id.why
Parsed(text) == [who |-> <<Head(text)>>, why |-> Tail(text)]

VARIABLES
    \* the environment
    conn,                  \* a service is "alive", "leaving" (calls queued) or "gone"
    notices,               \* NameOwnerChanged signals under way to the daemon
    locked,                \* whether the screen is really locked
    saved,                 \* BlockedInhibitions in the configuration file
    \* the agent
    lastCookie,            \* m_lastCookie
    request,               \* what the timer and connection lambdas captured
    timers,                \* cookies whose 5 s timer has not fired yet
    pending,               \* m_pendingInhibitions
    requested,             \* m_requestedInhibitions
    active,                \* m_activeInhibitions
    cookieToInhibition,    \* keys of m_cookieToInhibition
    connections,           \* keys of m_inhibitionAllowedChangedConnections
    cookieToBusService,    \* keys of m_cookieToBusService
    watched,               \* services watched by m_busWatcher
    typesToCookie,         \* m_typesToCookie, as bags
    blocked,               \* m_configuredToBlockInhibitions
    screenLockerActive,    \* m_screenLockerActive
    notifiedPolicies       \* argument of the last unavailablePoliciesChanged

envVars   == <<conn, notices, locked, saved>>
closures  == <<lastCookie, request, timers>>
records   == <<requested, cookieToInhibition, connections>>
tracking  == <<cookieToBusService, watched>>
policyVars == <<typesToCookie, notifiedPolicies>>
settings  == <<blocked, screenLockerActive>>

vars == <<envVars, closures, pending, active, records, tracking, policyVars, settings>>

-----------------------------------------------------------------------------
(* Policies *)

\* ChangeScreenSettings implies InterruptSession.
Implied(policies) ==
    IF "ChangeScreenSettings" \in policies
    THEN policies \cup {"InterruptSession"} ELSE policies

NoCookies == [p \in Policies |-> [c \in Cookies |-> 0]]

IsEmpty(lists, p) == \A c \in Cookies : lists[p][c] = 0

\* Mutant: the locked screen makes no difference.
UnavailableThoughLocked(lists, lockerActive) ==
    {p \in Policies : ~IsEmpty(lists, p)}

UnavailableWith(lists, lockerActive) ==
    {p \in Policies : /\ ~IsEmpty(lists, p)
                      /\ p = "ChangeScreenSettings" => ~lockerActive}

unavailablePolicies == UnavailableWith(typesToCookie, screenLockerActive)

\* addInhibitionTypeHelper for every cookie of C: append, and emit
\* unavailablePoliciesChanged when a list was empty.
AddToTypes(C) ==
    LET Holds(c, p) == c \in C /\ p \in Implied(request[c].policies)
        lists == [p \in Policies |-> [c \in Cookies |->
                     typesToCookie[p][c] + (IF Holds(c, p) THEN 1 ELSE 0)]]
        notify == \E p \in Policies : IsEmpty(typesToCookie, p) /\ \E c \in Cookies : Holds(c, p)
    IN  /\ typesToCookie' = lists
        /\ notifiedPolicies' = IF notify THEN UnavailableWith(lists, screenLockerActive)
                               ELSE notifiedPolicies

\* Mutant: nobody is told that a list became empty.
RemoveSilently(C) ==
    /\ typesToCookie' = [p \in Policies |-> [c \in Cookies |->
                            IF c \in C THEN 0 ELSE typesToCookie[p][c]]]
    /\ UNCHANGED notifiedPolicies

\* The end of ReleaseInhibition for every cookie of C: remove one occurrence,
\* and emit unavailablePoliciesChanged when a list became empty.
RemoveFromTypes(C) ==
    LET lists == [p \in Policies |-> [c \in Cookies |->
                     IF c \in C /\ typesToCookie[p][c] > 0
                     THEN typesToCookie[p][c] - 1 ELSE typesToCookie[p][c]]]
        notify == \E p \in Policies : IsEmpty(lists, p) /\ ~IsEmpty(typesToCookie, p)
    IN  /\ typesToCookie' = lists
        /\ notifiedPolicies' = IF notify THEN UnavailableWith(lists, screenLockerActive)
                               ELSE notifiedPolicies

-----------------------------------------------------------------------------
(* Releasing.  Handlers that release several cookies in a loop release the *)
(* set of them: the steps of the loop commute.                             *)

\* The service of a cookie is forgotten, and no longer watched once no
\* cookie of it is left.
Untrack(C) ==
    LET left == cookieToBusService \ C
    IN  /\ cookieToBusService' = left
        /\ watched' = watched \ {s \in Services :
                          /\ \E c \in C \cap cookieToBusService : request[c].service = s
                          /\ \A c \in left : request[c].service # s}

\* What ReleaseInhibition does to cookies that are past the pending stage.
Revoke(C, retainCookie) ==
    LET kept(S) == IF retainCookie THEN S ELSE S \ C
    IN  /\ active' = active \ C
        /\ requested' = kept(requested)
        /\ cookieToInhibition' = kept(cookieToInhibition)
        /\ connections' = kept(connections)
        /\ RemoveFromTypes(C \cap active)

Release(C, retainCookie) ==
    /\ Untrack(C)
    /\ pending' = pending \ C
    /\ Revoke(C \ pending, retainCookie)

-----------------------------------------------------------------------------
(* Handlers *)

Init ==
    /\ conn = [s \in Services |-> "alive"]
    /\ notices = {}
    /\ locked = FALSE
    /\ saved \in SUBSET {Joined(id) : id \in Ids}
    /\ lastCookie = 0
    /\ request = [c \in Cookies |-> NoRequest]
    /\ timers = {} /\ pending = {} /\ requested = {} /\ active = {}
    /\ cookieToInhibition = {} /\ connections = {}
    /\ cookieToBusService = {} /\ watched = {}
    /\ typesToCookie = NoCookies
    /\ notifiedPolicies = {}
    /\ blocked = {Parsed(text) : text \in saved}
    /\ screenLockerActive = FALSE

\* Mutant: the timer is not started.
ScheduleWithoutTimer(r) ==
    /\ lastCookie < MaxCookie
    /\ lastCookie' = lastCookie + 1
    /\ request' = [request EXCEPT ![lastCookie + 1] = r]
    /\ UNCHANGED timers

\* Hand out the next cookie for request r and start its timer.
Schedule(r) ==
    /\ lastCookie < MaxCookie
    /\ lastCookie' = lastCookie + 1
    /\ request' = [request EXCEPT ![lastCookie + 1] = r]
    /\ timers' = timers \cup {lastCookie + 1}

\* Who may still be heard: a call queued before its caller left is delivered.
Callers == {NoService} \cup
           {s \in Services : conn[s] = "alive" \/ (LateCalls /\ conn[s] = "leaving")}

\* AddInhibition, and fd.o Inhibit through addInhibitionWithExplicitDBusService.
AddInhibition(s, id, policies) ==
    /\ s \in Callers
    /\ Schedule([service |-> s, id |-> id, policies |-> policies])
    /\ pending' = pending \cup {lastCookie + 1}
    /\ IF s = NoService
       THEN UNCHANGED tracking
       ELSE /\ cookieToBusService' = cookieToBusService \cup {lastCookie + 1}
            /\ watched' = watched \cup {s}
    /\ UNCHANGED <<envVars, active, records, policyVars, settings>>

\* The 5 s timer of cookie c fires.
Enforce(c) ==
    /\ c \in timers
    /\ timers' = timers \ {c}
    /\ \/ /\ c \notin pending      \* released meanwhile
          /\ UNCHANGED <<pending, active, records, policyVars>>
       \/ /\ c \in pending
          /\ pending' = pending \ {c}
          /\ requested' = requested \cup {c}
          /\ cookieToInhibition' = cookieToInhibition \cup {c}
          /\ connections' = connections \cup {c}
          /\ IF request[c].id \in blocked
             THEN UNCHANGED <<active, policyVars>>
             ELSE /\ active' = active \cup {c}
                  /\ AddToTypes({c})
    /\ UNCHANGED <<envVars, lastCookie, request, tracking, settings>>

\* ReleaseInhibition, and fd.o UnInhibit: any caller may pass any number.
ReleaseInhibition(c) ==
    /\ Release({c}, FALSE)
    /\ UNCHANGED <<envVars, closures, settings>>

\* fd.o ForceUnInhibitAll.
releaseAllInhibitions ==
    /\ Release(cookieToInhibition, FALSE)
    /\ UNCHANGED <<envVars, closures, settings>>

\* Mutant: nothing is written.
SaveNothing == UNCHANGED saved

Save == saved' = {Joined(id) : id \in blocked'}

\* SetInhibitionAllowed(who, why, false): the connection of every active
\* inhibition of this id suppresses it, keeping the cookie.
Block(id) ==
    /\ id \notin blocked
    /\ blocked' = blocked \cup {id}
    /\ Release({c \in connections : request[c].id = id /\ c \in active}, TRUE)
    /\ Save
    /\ UNCHANGED <<conn, notices, locked, closures, screenLockerActive>>

\* SetInhibitionAllowed(who, why, true): what is still requested is restored.
Allow(id) ==
    LET restored == {c \in connections : /\ request[c].id = id
                                         /\ c \notin active
                                         /\ c \in cookieToInhibition}
    IN  /\ id \in blocked
        /\ blocked' = blocked \ {id}
        /\ AddToTypes(restored)
        /\ active' = active \cup restored
        /\ Save
        /\ UNCHANGED <<conn, notices, locked, closures, pending, records, tracking,
                       screenLockerActive>>

\* Mutant: only what is still pending is released.
UnregisteredWhilePending(s) ==
    /\ s \in notices
    /\ notices' = notices \ {s}
    /\ conn' = [conn EXCEPT ![s] = "gone"]
    /\ Release({c \in cookieToBusService \cap pending : request[c].service = s}, FALSE)
    /\ UNCHANGED <<locked, saved, closures, settings>>

\* The watched service s left the bus.
onServiceUnregistered(s) ==
    /\ s \in notices
    /\ notices' = notices \ {s}
    /\ conn' = [conn EXCEPT ![s] = "gone"]
    /\ Release({c \in cookieToBusService : request[c].service = s}, FALSE)
    /\ UNCHANGED <<locked, saved, closures, settings>>

onScreenLockerActiveChanged ==
    LET now == UnavailableWith(typesToCookie, ~locked)
    IN  /\ locked' = ~locked
        /\ screenLockerActive' = ~locked
        /\ notifiedPolicies' = IF now # unavailablePolicies THEN now ELSE notifiedPolicies
        /\ UNCHANGED <<conn, notices, saved, closures, pending, active, records, tracking,
                       typesToCookie, blocked>>

-----------------------------------------------------------------------------
(* The environment *)

\* Application s exits or crashes; the bus tells the daemon if it watches s
\* by then.
Disconnect(s) ==
    /\ conn[s] = "alive"
    /\ conn' = [conn EXCEPT ![s] = "leaving"]
    /\ notices' = IF s \in watched THEN notices \cup {s} ELSE notices
    /\ UNCHANGED <<locked, saved, closures, pending, active, records, tracking,
                   policyVars, settings>>

\* The last queued call of an application nobody watched has been read.
Drained(s) ==
    /\ conn[s] = "leaving" /\ s \notin notices
    /\ conn' = [conn EXCEPT ![s] = "gone"]
    /\ UNCHANGED <<notices, locked, saved, closures, pending, active, records, tracking,
                   policyVars, settings>>

\* The daemon crashes or is restarted: the constructor and init().
Restart ==
    /\ conn' = [s \in Services |-> IF conn[s] = "alive" THEN "alive" ELSE "gone"]
    /\ notices' = {}
    /\ lastCookie' = 0
    /\ request' = [c \in Cookies |-> NoRequest]
    /\ timers' = {} /\ pending' = {} /\ requested' = {} /\ active' = {}
    /\ cookieToInhibition' = {} /\ connections' = {}
    /\ cookieToBusService' = {} /\ watched' = {}
    /\ typesToCookie' = NoCookies
    /\ notifiedPolicies' = {}
    /\ blocked' = {Parsed(text) : text \in saved}
    /\ screenLockerActive' = FALSE
    /\ UNCHANGED <<locked, saved>>

-----------------------------------------------------------------------------

ClientCall ==
    \/ \E s \in Services \cup {NoService}, id \in Ids, policies \in PolicyChoices :
          AddInhibition(s, id, policies)
    \/ \E c \in Cookies : ReleaseInhibition(c)
    \/ releaseAllInhibitions
    \/ \E id \in Ids : Block(id) \/ Allow(id)

Next ==
    \/ ClientCall
    \/ \E c \in Cookies : Enforce(c)
    \/ \E s \in Services : onServiceUnregistered(s) \/ Disconnect(s) \/ Drained(s)
    \/ onScreenLockerActiveChanged
    \/ Restart

Spec == Init /\ [][Next]_vars

\* The event loop serves timers and bus signals; nothing else must happen.
Fairness ==
    /\ \A c \in Cookies : WF_vars(Enforce(c))
    /\ \A s \in Services : WF_vars(onServiceUnregistered(s))

FairSpec == Spec /\ Fairness

-----------------------------------------------------------------------------
(* Properties *)

KnownIds == Ids \cup {Parsed(Joined(id)) : id \in Ids}

\* Every variable holds a value of its C++ type.
TypeOK ==
    /\ conn \in [Services -> {"alive", "leaving", "gone"}]
    /\ notices \subseteq Services
    /\ locked \in BOOLEAN
    /\ saved \subseteq {Joined(id) : id \in KnownIds}
    /\ lastCookie \in 0 .. MaxCookie
    /\ request \in [Cookies -> Requests \cup {NoRequest}]
    /\ timers \subseteq Cookies /\ pending \subseteq Cookies
    /\ requested \subseteq Cookies /\ active \subseteq Cookies
    /\ cookieToInhibition \subseteq Cookies /\ connections \subseteq Cookies
    /\ cookieToBusService \subseteq Cookies /\ watched \subseteq Services
    /\ typesToCookie \in [Policies -> [Cookies -> Nat]]
    /\ notifiedPolicies \subseteq Policies
    /\ blocked \subseteq KnownIds
    /\ screenLockerActive \in BOOLEAN

\* The actions that act on unavailablePoliciesChanged (screen dimming, turning
\* the screen off, fd.o HasInhibitChanged) never miss a change: what was last
\* announced is what unavailablePolicies() would answer now.
NotifiedPoliciesCurrent == notifiedPolicies = unavailablePolicies

\* listActiveInhibitions tells D-Bus clients that every requested inhibition
\* whose id is not blocked is active: exactly those are in m_activeInhibitions.
ListedAsActiveIsActive ==
    active = {c \in requested : request[c].id \notin blocked}

\* A policy is held by the active inhibitions that ask for it, each counted
\* once however often it was blocked and allowed again.
PoliciesHeldByActive ==
    \A p \in Policies, c \in Cookies :
        typesToCookie[p][c] =
            IF c \in active /\ p \in Implied(request[c].policies) THEN 1 ELSE 0

\* A cookie is scheduled or requested, never both, and everything kept about
\* it belongs to a cookie in one of the two stages.
StagesConsistent ==
    /\ pending \cap requested = {}
    /\ pending \subseteq timers
    /\ cookieToInhibition = requested /\ connections = requested
    /\ cookieToBusService \subseteq pending \cup requested

\* The bus is watched for exactly the applications whose cookies are tracked.
WatchedAreTracked == watched = {request[c].service : c \in cookieToBusService}

\* What the user blocked is still blocked after a restart (the configuration
\* file is written in "who:why" form and parsed back by init()).
BlockedSurvivesRestart == {Parsed(text) : text \in saved} = blocked

\* Once released, an inhibition is never enforced or restored later: neither
\* its timer nor allowing its id brings it back.
ReleasedStaysReleased ==
    [][\A c \in Cookies :
          c <= lastCookie /\ c \notin pending \cup requested /\ lastCookie' # 0
              => c \notin pending' \cup requested']_vars

\* A scheduled inhibition does not stay in limbo: its timer ends the stage.
PendingEnds == \A c \in Cookies : c \in pending ~> c \notin pending

\* An application that left the bus while watched loses the inhibitions that
\* are tracked for it (unless the user blocks them before the notice is read:
\* suppressing an inhibition makes the agent forget whose it is).
WatchedCrashReleases ==
    \A c \in Cookies, s \in Services :
        (s \in notices /\ c \in cookieToBusService /\ request[c].service = s)
            ~> (c \notin pending \cup requested \/ request[c].id \in blocked)
=============================================================================
