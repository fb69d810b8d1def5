-------------------------- MODULE PolicyAgentProofs --------------------------
(***************************************************************************)
(* Proofs about PolicyAgent for any applications, ids, policy choices and  *)
(* number of cookies: the safety invariants checked by TLC hold, released  *)
(* inhibitions stay released, and the agent implements InhibitionPromise.  *)
(***************************************************************************)
EXTENDS PolicyAgentRefinement, LogindInhibitions, FiniteSetTheorems, SequenceTheorems, TLAPS

\* What is kept of cookies that were handed out.
IssuedInv ==
    /\ timers \subseteq 1 .. lastCookie
    /\ requested \subseteq (1 .. lastCookie) \ timers
    /\ \A c \in 1 .. lastCookie : request[c] \in Requests
    /\ \A c \in cookieToBusService : request[c].service \in Services

\* The inductive invariant.
AgentInv ==
    /\ TypeOK
    /\ IssuedInv
    /\ StagesConsistent
    /\ ListedAsActiveIsActive
    /\ PoliciesHeldByActive
    /\ NotifiedPoliciesCurrent
    /\ WatchedAreTracked

-----------------------------------------------------------------------------
(* The helpers *)

LEMMA NextCookie ==
    ASSUME NEW n \in Nat
    PROVE  1 .. (n + 1) = (1 .. n) \cup {n + 1}
  OBVIOUS

\* Adding cookies that hold no policy yet: each gets the policies it implies,
\* and the announced policies stay current.
LEMMA AddToTypesCorrect ==
    ASSUME NEW C \in SUBSET Cookies, TypeOK, PoliciesHeldByActive, NotifiedPoliciesCurrent,
           C \cap active = {}, AddToTypes(C), active' = active \cup C,
           request' = request, screenLockerActive' = screenLockerActive
    PROVE  /\ typesToCookie' \in [Policies -> [Cookies -> Nat]]
           /\ notifiedPolicies' \subseteq Policies
           /\ PoliciesHeldByActive'
           /\ NotifiedPoliciesCurrent'
<1>1. \A p \in Policies, c \in Cookies :
          typesToCookie'[p][c] = typesToCookie[p][c]
              + (IF c \in C /\ p \in Implied(request[c].policies) THEN 1 ELSE 0)
  BY DEF AddToTypes
<1>2. typesToCookie' \in [Policies -> [Cookies -> Nat]]
  BY DEF AddToTypes, TypeOK
<1>3. PoliciesHeldByActive'
  BY <1>1 DEF PoliciesHeldByActive, TypeOK, Implied
<1>4. NotifiedPoliciesCurrent'
  <2> DEFINE grown(p) == \E c \in Cookies : c \in C /\ p \in Implied(request[c].policies)
  <2>1. CASE \E p \in Policies : IsEmpty(typesToCookie, p) /\ grown(p)
    BY <2>1 DEF AddToTypes, NotifiedPoliciesCurrent, unavailablePolicies
  <2>2. CASE ~ \E p \in Policies : IsEmpty(typesToCookie, p) /\ grown(p)
    <3>1. \A p \in Policies : IsEmpty(typesToCookie', p) <=> IsEmpty(typesToCookie, p)
      BY <1>1, <2>2 DEF IsEmpty, TypeOK
    <3>2. UnavailableWith(typesToCookie', screenLockerActive')
              = UnavailableWith(typesToCookie, screenLockerActive)
      BY <3>1 DEF UnavailableWith
    <3> QED
      BY <2>2, <3>2 DEF AddToTypes, NotifiedPoliciesCurrent, unavailablePolicies
  <2> QED
    BY <2>1, <2>2
<1>5. notifiedPolicies' \subseteq Policies
  BY DEF AddToTypes, TypeOK, UnavailableWith
<1> QED
  BY <1>2, <1>3, <1>4, <1>5

\* Removing active cookies: they hold no policy afterwards, and the announced
\* policies stay current.
LEMMA RemoveFromTypesCorrect ==
    ASSUME NEW C \in SUBSET Cookies, TypeOK, PoliciesHeldByActive, NotifiedPoliciesCurrent,
           RemoveFromTypes(C \cap active), active' = active \ C,
           request' = request, screenLockerActive' = screenLockerActive
    PROVE  /\ typesToCookie' \in [Policies -> [Cookies -> Nat]]
           /\ notifiedPolicies' \subseteq Policies
           /\ PoliciesHeldByActive'
           /\ NotifiedPoliciesCurrent'
<1>1. \A p \in Policies, c \in Cookies :
          typesToCookie'[p][c] = IF c \in C \cap active /\ typesToCookie[p][c] > 0
                                 THEN typesToCookie[p][c] - 1 ELSE typesToCookie[p][c]
  BY DEF RemoveFromTypes
<1>2. typesToCookie' \in [Policies -> [Cookies -> Nat]]
  BY DEF RemoveFromTypes, TypeOK
<1>3. PoliciesHeldByActive'
  BY <1>1 DEF PoliciesHeldByActive, TypeOK, Implied
<1>4. NotifiedPoliciesCurrent'
  <2>1. CASE \E p \in Policies : IsEmpty(typesToCookie', p) /\ ~IsEmpty(typesToCookie, p)
    BY <2>1 DEF RemoveFromTypes, NotifiedPoliciesCurrent, unavailablePolicies
  <2>2. CASE ~ \E p \in Policies : IsEmpty(typesToCookie', p) /\ ~IsEmpty(typesToCookie, p)
    <3>1. \A p \in Policies : IsEmpty(typesToCookie', p) <=> IsEmpty(typesToCookie, p)
      BY <1>1, <2>2 DEF IsEmpty, TypeOK
    <3>2. UnavailableWith(typesToCookie', screenLockerActive')
              = UnavailableWith(typesToCookie, screenLockerActive)
      BY <3>1 DEF UnavailableWith
    <3> QED
      BY <2>2, <3>2 DEF RemoveFromTypes, NotifiedPoliciesCurrent, unavailablePolicies
  <2> QED
    BY <2>1, <2>2
<1>5. notifiedPolicies' \subseteq Policies
  BY DEF RemoveFromTypes, TypeOK, UnavailableWith
<1> QED
  BY <1>2, <1>3, <1>4, <1>5

\* Releasing any set of cookies, for good or only suppressing them, keeps what
\* the agent knows about the others consistent.
LEMMA ReleaseCorrect ==
    ASSUME AgentInv, NEW C \in SUBSET Cookies, NEW retainCookie \in BOOLEAN,
           Release(C, retainCookie), UNCHANGED <<closures, screenLockerActive>>
    PROVE  /\ active' = active \ C
           /\ requested' = IF retainCookie THEN requested ELSE requested \ C
           /\ pending' = pending \ C
           /\ cookieToBusService' \subseteq Cookies
           /\ watched' \subseteq Services
           /\ typesToCookie' \in [Policies -> [Cookies -> Nat]]
           /\ notifiedPolicies' \subseteq Policies
           /\ IssuedInv' /\ StagesConsistent' /\ WatchedAreTracked'
           /\ PoliciesHeldByActive' /\ NotifiedPoliciesCurrent'
<1> DEFINE gone == C \ pending
<1>1. UNCHANGED <<lastCookie, request, timers, screenLockerActive>>
  BY DEF closures
<1>2. active \subseteq requested /\ requested \cap pending = {}
  BY DEF AgentInv, ListedAsActiveIsActive, StagesConsistent
<1>3. /\ active' = active \ gone
      /\ requested' = IF retainCookie THEN requested ELSE requested \ gone
      /\ pending' = pending \ C
      /\ cookieToInhibition' = IF retainCookie THEN cookieToInhibition ELSE cookieToInhibition \ gone
      /\ connections' = IF retainCookie THEN connections ELSE connections \ gone
      /\ cookieToBusService' = cookieToBusService \ C
  BY DEF Release, Revoke, Untrack
<1>4. active' = active \ C /\ requested' = IF retainCookie THEN requested ELSE requested \ C
  BY <1>2, <1>3
<1>5. /\ typesToCookie' \in [Policies -> [Cookies -> Nat]]
      /\ notifiedPolicies' \subseteq Policies
      /\ PoliciesHeldByActive' /\ NotifiedPoliciesCurrent'
  <2>1. RemoveFromTypes(gone \cap active)
    BY DEF Release, Revoke
  <2> QED
    BY <1>1, <1>3, <2>1, RemoveFromTypesCorrect DEF AgentInv
<1>6. IssuedInv' /\ StagesConsistent'
  BY <1>1, <1>2, <1>3 DEF AgentInv, IssuedInv, StagesConsistent
<1>7. cookieToBusService' \subseteq Cookies
  BY <1>3 DEF AgentInv, TypeOK
<1>8. watched' = {request'[c].service : c \in cookieToBusService'}
  <2>1. \A c \in cookieToBusService : request[c].service \in Services
    BY DEF AgentInv, IssuedInv
  <2>2. watched' = watched \ {s \in Services :
                      /\ \E c \in C \cap cookieToBusService : request[c].service = s
                      /\ \A c \in cookieToBusService \ C : request[c].service # s}
    BY DEF Release, Untrack
  <2> QED
    BY <1>1, <1>3, <2>1, <2>2 DEF AgentInv, WatchedAreTracked
<1>9. watched' \subseteq Services
  BY <1>1, <1>6, <1>8 DEF IssuedInv
<1> QED
  BY <1>3, <1>4, <1>5, <1>6, <1>7, <1>8, <1>9 DEF WatchedAreTracked

-----------------------------------------------------------------------------
(* Each handler keeps the invariant *)

LEMMA AddInhibitionKeepsInv ==
    ASSUME AgentInv, NEW s \in Services \cup {NoService}, NEW id \in Ids,
           NEW policies \in PolicyChoices, AddInhibition(s, id, policies)
    PROVE  AgentInv'
<1> DEFINE c0 == lastCookie + 1
           r  == [service |-> s, id |-> id, policies |-> policies]
<1>1. /\ lastCookie' = c0 /\ c0 \in Cookies
      /\ request' = [request EXCEPT ![c0] = r]
      /\ timers' = timers \cup {c0} /\ pending' = pending \cup {c0}
      /\ UNCHANGED <<conn, notices, locked, saved, requested, active, cookieToInhibition,
                     connections, typesToCookie, notifiedPolicies, blocked, screenLockerActive>>
  BY ConstantsAssumption
     DEF AddInhibition, Schedule, envVars, records, policyVars, settings, AgentInv, TypeOK, Cookies
<1>2. r \in Requests
  BY ConstantsAssumption DEF Requests
<1>3. request'[c0] = r /\ \A c \in Cookies \ {c0} : request'[c] = request[c]
  BY <1>1 DEF AgentInv, TypeOK
<1>4. c0 \notin timers \cup pending \cup requested \cup active \cup cookieToBusService
  BY DEF AgentInv, IssuedInv, StagesConsistent, TypeOK, ListedAsActiveIsActive
<1>5. \/ s = NoService /\ UNCHANGED <<cookieToBusService, watched>>
      \/ /\ s \in Services
         /\ cookieToBusService' = cookieToBusService \cup {c0}
         /\ watched' = watched \cup {s}
  BY DEF AddInhibition, tracking
<1>6. TypeOK'
  <2>1. lastCookie' \in 0 .. MaxCookie
    BY <1>1, ConstantsAssumption DEF Cookies
  <2>2. request' \in [Cookies -> Requests \cup {NoRequest}]
    BY <1>1, <1>2 DEF AgentInv, TypeOK
  <2>3. /\ timers' \subseteq Cookies /\ pending' \subseteq Cookies
        /\ cookieToBusService' \subseteq Cookies /\ watched' \subseteq Services
    BY <1>1, <1>5 DEF AgentInv, TypeOK
  <2> QED
    BY <1>1, <2>1, <2>2, <2>3 DEF AgentInv, TypeOK
<1>7. IssuedInv'
  <2>1. 1 .. lastCookie' = (1 .. lastCookie) \cup {c0}
    <3>1. lastCookie \in Nat
      BY DEF AgentInv, TypeOK
    <3> QED
      BY <1>1, <3>1, NextCookie
  <2> QED
    BY <1>1, <1>2, <1>3, <1>4, <1>5, <2>1 DEF AgentInv, IssuedInv, TypeOK
<1>8. StagesConsistent'
  BY <1>1, <1>4, <1>5 DEF AgentInv, StagesConsistent
<1>9. ListedAsActiveIsActive'
  BY <1>1, <1>3, <1>4 DEF AgentInv, ListedAsActiveIsActive, TypeOK
<1>10. PoliciesHeldByActive'
  BY <1>1, <1>3, <1>4 DEF AgentInv, PoliciesHeldByActive
<1>11. NotifiedPoliciesCurrent'
  BY <1>1 DEF AgentInv, NotifiedPoliciesCurrent, unavailablePolicies
<1>12. WatchedAreTracked'
  BY <1>1, <1>3, <1>4, <1>5 DEF AgentInv, WatchedAreTracked, TypeOK
<1> QED
  BY <1>6, <1>7, <1>8, <1>9, <1>10, <1>11, <1>12 DEF AgentInv

LEMMA EnforceKeepsInv ==
    ASSUME AgentInv, NEW c \in Cookies, Enforce(c)
    PROVE  AgentInv'
<1>1. /\ timers' = timers \ {c} /\ c \in timers
      /\ UNCHANGED <<conn, notices, locked, saved, lastCookie, request, cookieToBusService,
                     watched, blocked, screenLockerActive>>
  BY DEF Enforce, envVars, tracking, settings
<1>2. CASE c \notin pending
  <2>1. UNCHANGED <<pending, active, requested, cookieToInhibition, connections,
                    typesToCookie, notifiedPolicies>>
    BY <1>2 DEF Enforce, records, policyVars
  <2> QED
    BY <1>1, <1>2, <2>1 DEF AgentInv, TypeOK, IssuedInv, StagesConsistent, WatchedAreTracked,
          ListedAsActiveIsActive, PoliciesHeldByActive, NotifiedPoliciesCurrent, unavailablePolicies
<1>3. CASE c \in pending
  <2>1. /\ pending' = pending \ {c} /\ requested' = requested \cup {c}
        /\ cookieToInhibition' = cookieToInhibition \cup {c}
        /\ connections' = connections \cup {c}
    BY <1>3 DEF Enforce
  <2>2. IssuedInv' /\ StagesConsistent' /\ WatchedAreTracked'
    BY <1>1, <1>3, <2>1 DEF AgentInv, IssuedInv, StagesConsistent, WatchedAreTracked
  <2>3. c \notin active
    BY <1>3 DEF AgentInv, StagesConsistent, ListedAsActiveIsActive
  <2>4. CASE request[c].id \in blocked
    <3>1. UNCHANGED <<active, typesToCookie, notifiedPolicies>>
      BY <1>3, <2>4 DEF Enforce, policyVars
    <3> QED
      BY <1>1, <2>1, <2>2, <2>4, <3>1 DEF AgentInv, TypeOK, ListedAsActiveIsActive,
            PoliciesHeldByActive, NotifiedPoliciesCurrent, unavailablePolicies
  <2>5. CASE request[c].id \notin blocked
    <3>1. active' = active \cup {c} /\ AddToTypes({c})
      BY <1>3, <2>5 DEF Enforce
    <3>2. /\ typesToCookie' \in [Policies -> [Cookies -> Nat]]
          /\ notifiedPolicies' \subseteq Policies
          /\ PoliciesHeldByActive' /\ NotifiedPoliciesCurrent'
      BY <1>1, <2>3, <3>1, AddToTypesCorrect DEF AgentInv
    <3>3. ListedAsActiveIsActive'
      BY <1>1, <2>1, <2>5, <3>1 DEF AgentInv, ListedAsActiveIsActive
    <3>4. TypeOK'
      BY <1>1, <2>1, <3>1, <3>2 DEF AgentInv, TypeOK
    <3> QED
      BY <2>2, <3>2, <3>3, <3>4 DEF AgentInv
  <2> QED
    BY <2>4, <2>5
<1> QED
  BY <1>2, <1>3

\* A release that forgets the cookies (a client's, the watcher's or a forced
\* one), whatever happens to the connections of applications meanwhile.
LEMMA DiscardKeepsInv ==
    ASSUME AgentInv, NEW C \in SUBSET Cookies, Release(C, FALSE),
           UNCHANGED <<locked, saved, closures, settings>>,
           conn' \in [Services -> {"alive", "leaving", "gone"}], notices' \subseteq Services
    PROVE  AgentInv'
<1>1. UNCHANGED <<lastCookie, request, timers, blocked, screenLockerActive>>
  BY DEF closures, settings
<1>2. /\ active' = active \ C /\ requested' = requested \ C /\ pending' = pending \ C
      /\ cookieToBusService' \subseteq Cookies
      /\ watched' \subseteq Services
      /\ typesToCookie' \in [Policies -> [Cookies -> Nat]]
      /\ notifiedPolicies' \subseteq Policies
      /\ IssuedInv' /\ StagesConsistent' /\ WatchedAreTracked'
      /\ PoliciesHeldByActive' /\ NotifiedPoliciesCurrent'
  <2>1. UNCHANGED <<closures, screenLockerActive>>
    BY <1>1 DEF closures
  <2> QED
    BY <2>1, ReleaseCorrect
<1>3. ListedAsActiveIsActive'
  BY <1>1, <1>2 DEF AgentInv, ListedAsActiveIsActive
<1>4. TypeOK'
  BY <1>1, <1>2 DEF AgentInv, TypeOK, StagesConsistent
<1> QED
  BY <1>2, <1>3, <1>4 DEF AgentInv

LEMMA BlockKeepsInv ==
    ASSUME AgentInv, NEW id \in Ids, Block(id)
    PROVE  AgentInv'
<1> DEFINE C == {c \in connections : request[c].id = id /\ c \in active}
<1>1. /\ UNCHANGED <<lastCookie, request, timers, conn, notices, locked, screenLockerActive>>
      /\ blocked' = blocked \cup {id}
      /\ saved' = {Joined(i) : i \in blocked'}
  BY DEF Block, closures, Save
<1>2. C \in SUBSET Cookies
  BY DEF AgentInv, TypeOK
<1>3. UNCHANGED <<closures, screenLockerActive>>
  BY <1>1 DEF closures
<1>4. Release(C, TRUE)
  BY DEF Block
<1>5. /\ active' = active \ C /\ requested' = requested /\ pending' = pending \ C
      /\ cookieToBusService' \subseteq Cookies
      /\ watched' \subseteq Services
      /\ typesToCookie' \in [Policies -> [Cookies -> Nat]]
      /\ notifiedPolicies' \subseteq Policies
      /\ IssuedInv' /\ StagesConsistent' /\ WatchedAreTracked'
      /\ PoliciesHeldByActive' /\ NotifiedPoliciesCurrent'
  BY <1>2, <1>3, <1>4, ReleaseCorrect
<1>6. ListedAsActiveIsActive'
  BY <1>1, <1>5 DEF AgentInv, ListedAsActiveIsActive, StagesConsistent
<1>7. TypeOK'
  <2>1. blocked' \subseteq KnownIds
    BY <1>1 DEF AgentInv, TypeOK, KnownIds
  <2>2. saved' \subseteq {Joined(i) : i \in KnownIds}
    BY <1>1, <2>1
  <2> QED
    BY <1>1, <1>5, <2>1, <2>2 DEF AgentInv, TypeOK, StagesConsistent
<1> QED
  BY <1>5, <1>6, <1>7 DEF AgentInv

LEMMA AllowKeepsInv ==
    ASSUME AgentInv, NEW id \in Ids, Allow(id)
    PROVE  AgentInv'
<1> DEFINE C == {c \in connections : request[c].id = id /\ c \notin active
                                        /\ c \in cookieToInhibition}
<1>1. /\ UNCHANGED <<lastCookie, request, timers, conn, notices, locked, screenLockerActive,
                     pending, requested, cookieToInhibition, connections, cookieToBusService,
                     watched>>
      /\ blocked' = blocked \ {id}
      /\ saved' = {Joined(i) : i \in blocked'}
      /\ active' = active \cup C
      /\ AddToTypes(C)
  BY DEF Allow, closures, Save, records, tracking
<1>2. C \in SUBSET Cookies /\ C \cap active = {}
  BY DEF AgentInv, TypeOK
<1>3. /\ typesToCookie' \in [Policies -> [Cookies -> Nat]]
      /\ notifiedPolicies' \subseteq Policies
      /\ PoliciesHeldByActive' /\ NotifiedPoliciesCurrent'
  BY <1>1, <1>2, AddToTypesCorrect DEF AgentInv
<1>4. IssuedInv' /\ StagesConsistent' /\ WatchedAreTracked'
  BY <1>1 DEF AgentInv, IssuedInv, StagesConsistent, WatchedAreTracked
<1>5. ListedAsActiveIsActive'
  BY <1>1 DEF AgentInv, ListedAsActiveIsActive, StagesConsistent
<1>6. TypeOK'
  <2>1. blocked' \subseteq KnownIds
    BY <1>1 DEF AgentInv, TypeOK
  <2>2. saved' \subseteq {Joined(i) : i \in KnownIds}
    BY <1>1, <2>1
  <2> QED
    BY <1>1, <1>2, <1>3, <2>1, <2>2 DEF AgentInv, TypeOK
<1> QED
  BY <1>3, <1>4, <1>5, <1>6 DEF AgentInv

LEMMA LockerKeepsInv ==
    ASSUME AgentInv, onScreenLockerActiveChanged
    PROVE  AgentInv'
<1>1. /\ UNCHANGED <<lastCookie, request, timers, conn, notices, saved, pending, active,
                     requested, cookieToInhibition, connections, cookieToBusService,
                     watched, typesToCookie, blocked>>
      /\ locked' \in BOOLEAN /\ screenLockerActive' \in BOOLEAN
  BY DEF onScreenLockerActiveChanged, closures, records, tracking
<1>2. NotifiedPoliciesCurrent'
  BY <1>1 DEF onScreenLockerActiveChanged, AgentInv, NotifiedPoliciesCurrent, unavailablePolicies
<1>3. notifiedPolicies' \subseteq Policies
  BY <1>2 DEF NotifiedPoliciesCurrent, unavailablePolicies, UnavailableWith
<1> QED
  BY <1>1, <1>2, <1>3 DEF AgentInv, TypeOK, IssuedInv, StagesConsistent, WatchedAreTracked,
        ListedAsActiveIsActive, PoliciesHeldByActive

\* An agent that was just started satisfies the invariant.
LEMMA FreshAgent ==
    ASSUME conn \in [Services -> {"alive", "leaving", "gone"}], notices = {}, locked \in BOOLEAN,
           saved \subseteq {Joined(id) : id \in KnownIds}, lastCookie = 0,
           request = [c \in Cookies |-> NoRequest],
           timers = {}, pending = {}, requested = {}, active = {},
           cookieToInhibition = {}, connections = {}, cookieToBusService = {}, watched = {},
           typesToCookie = NoCookies, notifiedPolicies = {}, blocked \subseteq KnownIds,
           screenLockerActive = FALSE
    PROVE  AgentInv
<1>1. TypeOK
  <2>1. lastCookie \in 0 .. MaxCookie
    BY ConstantsAssumption
  <2>2. request \in [Cookies -> Requests \cup {NoRequest}]
    OBVIOUS
  <2>3. typesToCookie \in [Policies -> [Cookies -> Nat]]
    BY DEF NoCookies
  <2> QED
    BY <2>1, <2>2, <2>3 DEF TypeOK
<1>2. IssuedInv /\ StagesConsistent /\ WatchedAreTracked /\ ListedAsActiveIsActive
  BY DEF IssuedInv, StagesConsistent, WatchedAreTracked, ListedAsActiveIsActive
<1>3. PoliciesHeldByActive /\ NotifiedPoliciesCurrent
  BY DEF PoliciesHeldByActive, NotifiedPoliciesCurrent, unavailablePolicies, UnavailableWith,
         IsEmpty, NoCookies
<1> QED
  BY <1>1, <1>2, <1>3 DEF AgentInv

\* Parsing what was written loses nothing of the text.
LEMMA JoinedParsed ==
    ASSUME NEW text \in Seq(STRING), text # <<>>
    PROVE  Joined(Parsed(text)) = text
<1> DEFINE h == <<Head(text)>>
           rest == Tail(text)
<1>1. h \in Seq(STRING) /\ Len(h) = 1 /\ h[1] = text[1]
  BY HeadTailProperties
<1>2. /\ rest \in Seq(STRING) /\ Len(rest) = Len(text) - 1
      /\ \A i \in 1 .. Len(rest) : rest[i] = text[i + 1]
  BY HeadTailProperties
<1>3. /\ h \o rest \in Seq(STRING)
      /\ Len(h \o rest) = Len(h) + Len(rest)
      /\ \A i \in 1 .. Len(h) + Len(rest) :
            (h \o rest)[i] = IF i <= Len(h) THEN h[i] ELSE rest[i - Len(h)]
  BY <1>1, <1>2, ConcatProperties
<1>4. \A i \in 1 .. Len(text) : (h \o rest)[i] = text[i]
  BY <1>1, <1>2, <1>3
<1>5. h \o rest = text
  BY <1>1, <1>2, <1>3, <1>4, SeqEqual
<1> QED
  BY <1>5 DEF Joined, Parsed

\* A restart meets only block list entries and ids it has met before.
LEMMA ParsedIsKnown ==
    ASSUME NEW id \in KnownIds
    PROVE  Parsed(Joined(id)) \in KnownIds
<1>1. CASE id \in Ids
  BY <1>1 DEF KnownIds
<1>2. ASSUME NEW i \in Ids, id = Parsed(Joined(i))
      PROVE  Parsed(Joined(id)) \in KnownIds
  <2>1. Joined(i) \in Seq(STRING) /\ Joined(i) # <<>>
    BY IdsAssumption, ConcatProperties, ConcatEqualIffEmpty DEF Joined
  <2>2. Joined(id) = Joined(i)
    BY <1>2, <2>1, JoinedParsed
  <2> QED
    BY <2>2 DEF KnownIds
<1> QED
  BY <1>1, <1>2 DEF KnownIds

LEMMA RestartKeepsInv ==
    ASSUME AgentInv, Restart
    PROVE  AgentInv'
<1>1. blocked' = {Parsed(text) : text \in saved} /\ UNCHANGED <<locked, saved>>
  BY DEF Restart
<1>2. blocked' \subseteq KnownIds
  BY <1>1, ParsedIsKnown DEF AgentInv, TypeOK
<1>3. conn' \in [Services -> {"alive", "leaving", "gone"}]
  BY DEF Restart
<1>4. /\ notices' = {} /\ lastCookie' = 0 /\ request' = [c \in Cookies |-> NoRequest]
      /\ timers' = {} /\ pending' = {} /\ requested' = {} /\ active' = {}
      /\ cookieToInhibition' = {} /\ connections' = {} /\ cookieToBusService' = {}
      /\ watched' = {} /\ typesToCookie' = NoCookies /\ notifiedPolicies' = {}
      /\ screenLockerActive' = FALSE
  BY DEF Restart
<1>5. locked' \in BOOLEAN /\ saved' \subseteq {Joined(id) : id \in KnownIds}
  BY <1>1 DEF AgentInv, TypeOK
<1>6. TypeOK'
  <2>1. lastCookie' \in 0 .. MaxCookie
    BY <1>4, ConstantsAssumption
  <2>2. request' \in [Cookies -> Requests \cup {NoRequest}]
    BY <1>4
  <2>3. typesToCookie' \in [Policies -> [Cookies -> Nat]]
    BY <1>4 DEF NoCookies
  <2> QED
    BY <1>2, <1>3, <1>4, <1>5, <2>1, <2>2, <2>3 DEF TypeOK
<1>7. IssuedInv' /\ StagesConsistent' /\ WatchedAreTracked' /\ ListedAsActiveIsActive'
  BY <1>4 DEF IssuedInv, StagesConsistent, WatchedAreTracked, ListedAsActiveIsActive
<1>8. PoliciesHeldByActive' /\ NotifiedPoliciesCurrent'
  BY <1>4 DEF PoliciesHeldByActive, NotifiedPoliciesCurrent, unavailablePolicies,
         UnavailableWith, IsEmpty, NoCookies
<1> QED
  BY <1>6, <1>7, <1>8 DEF AgentInv

-----------------------------------------------------------------------------
(* The invariants *)

LEMMA InitAgentInv == Init => AgentInv
<1> SUFFICES ASSUME Init PROVE AgentInv
  OBVIOUS
<1>1. blocked \subseteq KnownIds /\ saved \subseteq {Joined(id) : id \in KnownIds}
  BY DEF Init, KnownIds
<1>2. conn \in [Services -> {"alive", "leaving", "gone"}]
  BY DEF Init
<1> QED
  BY <1>1, <1>2, FreshAgent DEF Init

LEMMA NextAgentInv == AgentInv /\ [Next]_vars => AgentInv'
<1> SUFFICES ASSUME AgentInv, [Next]_vars PROVE AgentInv'
  OBVIOUS
<1>1. ASSUME NEW s \in Services \cup {NoService}, NEW id \in Ids, NEW policies \in PolicyChoices,
             AddInhibition(s, id, policies)
      PROVE  AgentInv'
  BY <1>1, AddInhibitionKeepsInv
<1>2. ASSUME NEW c \in Cookies, ReleaseInhibition(c) PROVE AgentInv'
  <2>1. Release({c}, FALSE) /\ UNCHANGED <<conn, notices, locked, saved, closures, settings>>
    BY <1>2 DEF ReleaseInhibition, envVars
  <2>2. conn' \in [Services -> {"alive", "leaving", "gone"}] /\ notices' \subseteq Services
    BY <2>1 DEF AgentInv, TypeOK
  <2> QED
    BY <2>1, <2>2, DiscardKeepsInv
<1>3. CASE releaseAllInhibitions
  <2>1. /\ Release(cookieToInhibition, FALSE)
        /\ UNCHANGED <<conn, notices, locked, saved, closures, settings>>
    BY <1>3 DEF releaseAllInhibitions, envVars
  <2>2. /\ conn' \in [Services -> {"alive", "leaving", "gone"}] /\ notices' \subseteq Services
        /\ cookieToInhibition \in SUBSET Cookies
    BY <2>1 DEF AgentInv, TypeOK
  <2> QED
    BY <2>1, <2>2, DiscardKeepsInv
<1>4. ASSUME NEW id \in Ids, Block(id) PROVE AgentInv'
  BY <1>4, BlockKeepsInv
<1>5. ASSUME NEW id \in Ids, Allow(id) PROVE AgentInv'
  BY <1>5, AllowKeepsInv
<1>6. ASSUME NEW c \in Cookies, Enforce(c) PROVE AgentInv'
  BY <1>6, EnforceKeepsInv
<1>7. ASSUME NEW s \in Services, onServiceUnregistered(s) PROVE AgentInv'
  <2> DEFINE C == {c \in cookieToBusService : request[c].service = s}
  <2>1. /\ Release(C, FALSE) /\ UNCHANGED <<locked, saved, closures, settings>>
        /\ conn' = [conn EXCEPT ![s] = "gone"] /\ notices' = notices \ {s}
    BY <1>7 DEF onServiceUnregistered
  <2>2. /\ conn' \in [Services -> {"alive", "leaving", "gone"}] /\ notices' \subseteq Services
        /\ C \in SUBSET Cookies
    BY <2>1 DEF AgentInv, TypeOK
  <2> QED
    BY <2>1, <2>2, DiscardKeepsInv
<1>8. ASSUME NEW s \in Services, Disconnect(s) \/ Drained(s) PROVE AgentInv'
  <2>1. /\ UNCHANGED <<locked, saved, lastCookie, request, timers, pending, active, requested,
                       cookieToInhibition, connections, cookieToBusService, watched,
                       typesToCookie, notifiedPolicies, blocked, screenLockerActive>>
        /\ conn' \in [Services -> {"alive", "leaving", "gone"}] /\ notices' \subseteq Services
    BY <1>8 DEF Disconnect, Drained, closures, records, tracking, policyVars, settings,
                AgentInv, TypeOK
  <2> QED
    BY <2>1 DEF AgentInv, TypeOK, IssuedInv, StagesConsistent, WatchedAreTracked,
          ListedAsActiveIsActive, PoliciesHeldByActive, NotifiedPoliciesCurrent, unavailablePolicies
<1>9. CASE onScreenLockerActiveChanged
  BY <1>9, LockerKeepsInv
<1>10. CASE Restart
  BY <1>10, RestartKeepsInv
<1>11. CASE UNCHANGED vars
  BY <1>11 DEF vars, envVars, closures, records, tracking, policyVars, settings, AgentInv, TypeOK,
        IssuedInv, StagesConsistent, WatchedAreTracked, ListedAsActiveIsActive,
        PoliciesHeldByActive, NotifiedPoliciesCurrent, unavailablePolicies
<1> QED
  BY <1>1, <1>2, <1>3, <1>4, <1>5, <1>6, <1>7, <1>8, <1>9, <1>10, <1>11 DEF Next, ClientCall

\* The inductive invariant holds in every reachable state.
THEOREM AgentInvariant == Spec => []AgentInv
BY InitAgentInv, NextAgentInv, PTL DEF Spec

\* Every variable of the agent keeps its type.
THEOREM TypeCorrect == Spec => []TypeOK
<1>1. AgentInv => TypeOK
  BY DEF AgentInv
<1> QED
  BY <1>1, AgentInvariant, PTL

\* The actions' view of the unavailable policies is always current.
THEOREM NotificationsCorrect == Spec => []NotifiedPoliciesCurrent
<1>1. AgentInv => NotifiedPoliciesCurrent
  BY DEF AgentInv
<1> QED
  BY <1>1, AgentInvariant, PTL

\* What D-Bus clients are told is active is what the agent enforces.
THEOREM ListingCorrect == Spec => []ListedAsActiveIsActive
<1>1. AgentInv => ListedAsActiveIsActive
  BY DEF AgentInv
<1> QED
  BY <1>1, AgentInvariant, PTL

\* The policy lists hold each active inhibition once, and nothing else.
THEOREM PolicyListsCorrect == Spec => []PoliciesHeldByActive
<1>1. AgentInv => PoliciesHeldByActive
  BY DEF AgentInv
<1> QED
  BY <1>1, AgentInvariant, PTL

\* Scheduled and requested inhibitions do not mix, and all bookkeeping belongs
\* to one of them.
THEOREM StagesCorrect == Spec => []StagesConsistent
<1>1. AgentInv => StagesConsistent
  BY DEF AgentInv
<1> QED
  BY <1>1, AgentInvariant, PTL

\* The agent watches exactly the applications it tracks cookies of.
THEOREM WatchingCorrect == Spec => []WatchedAreTracked
<1>1. AgentInv => WatchedAreTracked
  BY DEF AgentInv
<1> QED
  BY <1>1, AgentInvariant, PTL

-----------------------------------------------------------------------------
(* Released inhibitions *)

\* A released inhibition is neither enforced by a late timer nor restored when
\* its id is allowed again.
THEOREM ReleasedForGood == Spec => ReleasedStaysReleased
<1> DEFINE Stays == \A c \in Cookies :
              c <= lastCookie /\ c \notin pending \cup requested /\ lastCookie' # 0
                  => c \notin pending' \cup requested'
<1>1. AgentInv /\ [Next]_vars => [Stays]_vars
  <2> SUFFICES ASSUME AgentInv, Next, NEW c \in Cookies, c <= lastCookie,
                      c \notin pending \cup requested, lastCookie' # 0
               PROVE  c \notin pending' \cup requested'
    BY DEF vars
  <2>1. ASSUME NEW s \in Services \cup {NoService}, NEW id \in Ids, NEW policies \in PolicyChoices,
               AddInhibition(s, id, policies)
        PROVE  c \notin pending' \cup requested'
    <3>1. pending' = pending \cup {lastCookie + 1} /\ requested' = requested
      BY <2>1 DEF AddInhibition, records
    <3>2. c # lastCookie + 1
      BY DEF AgentInv, TypeOK, Cookies
    <3> QED
      BY <3>1, <3>2
  <2>2. ASSUME NEW d \in Cookies, Enforce(d) PROVE c \notin pending' \cup requested'
    BY <2>2 DEF Enforce, records
  <2>3. ASSUME NEW C, NEW retainCookie \in BOOLEAN, Release(C, retainCookie)
        PROVE  c \notin pending' \cup requested'
    BY <2>3 DEF Release, Revoke
  <2>4. ASSUME NEW id \in Ids, Allow(id) PROVE c \notin pending' \cup requested'
    BY <2>4 DEF Allow, records
  <2>5. ASSUME NEW s \in Services, Disconnect(s) \/ Drained(s)
        PROVE  c \notin pending' \cup requested'
    BY <2>5 DEF Disconnect, Drained, records
  <2>6. CASE onScreenLockerActiveChanged
    BY <2>6 DEF onScreenLockerActiveChanged, records
  <2>7. CASE Restart
    BY <2>7 DEF Restart
  <2> QED
    BY <2>1, <2>2, <2>3, <2>4, <2>5, <2>6, <2>7
       DEF Next, ClientCall, ReleaseInhibition, releaseAllInhibitions, Block, onServiceUnregistered
<1> QED
  BY <1>1, AgentInvariant, PTL DEF Spec, ReleasedStaysReleased

-----------------------------------------------------------------------------
(* The block list *)

\* Cutting off the first segment undoes prepending one.
LEMMA CutAfterJoin ==
    ASSUME NEW w \in Seq(STRING), NEW y \in Seq(STRING), Len(w) = 1
    PROVE  <<Head(w \o y)>> = w /\ Tail(w \o y) = y
<1> DEFINE text == w \o y
<1>1. /\ text \in Seq(STRING) /\ Len(text) = Len(w) + Len(y)
      /\ \A i \in 1 .. Len(w) + Len(y) : text[i] = IF i <= Len(w) THEN w[i] ELSE y[i - Len(w)]
  BY ConcatProperties
<1>2. Len(y) \in Nat /\ text # <<>>
  BY <1>1, LenProperties
<1> HIDE DEF text
<1>3. /\ Head(text) = text[1]
      /\ Tail(text) \in Seq(STRING) /\ Len(Tail(text)) = Len(text) - 1
      /\ \A i \in 1 .. Len(Tail(text)) : Tail(text)[i] = text[i + 1]
  BY <1>1, <1>2, HeadTailProperties
<1>4. Tail(text) = y
  <2>1. \A i \in 1 .. Len(y) : Tail(text)[i] = y[i]
    BY <1>1, <1>2, <1>3
  <2>2. Len(Tail(text)) = Len(y)
    BY <1>1, <1>2, <1>3
  <2> QED
    BY <1>3, <2>1, <2>2, SeqEqual
<1>5. <<Head(text)>> = w
  <2>1. Head(text) = w[1] /\ w[1] \in STRING
    BY <1>1, <1>2, <1>3, ElementOfSeq
  <2>2. <<Head(text)>> \in Seq(STRING) /\ Len(<<Head(text)>>) = Len(w)
    BY <2>1
  <2>3. \A i \in 1 .. Len(w) : <<Head(text)>>[i] = w[i]
    BY <2>1
  <2> QED
    BY <2>2, <2>3, SeqEqual
<1> QED
  BY <1>4, <1>5 DEF text

\* A name without a colon is parsed back as it was written.
LEMMA ParsedJoined ==
    ASSUME NEW id \in Ids, Len(id.who) = 1
    PROVE  Parsed(Joined(id)) = id
<1>1. id.who \in Seq(STRING) /\ id.why \in Seq(STRING) /\ id = [who |-> id.who, why |-> id.why]
  BY IdsAssumption
<1> QED
  BY <1>1, CutAfterJoin DEF Parsed, Joined

\* As long as no application name contains a colon, what the user blocked is
\* what the next start of the daemon reads back.
THEOREM BlockListSurvives ==
    ASSUME \A id \in Ids : Len(id.who) = 1
    PROVE  Spec => []BlockedSurvivesRestart
<1>1. \A id \in Ids : Parsed(Joined(id)) = id
  BY ParsedJoined
<1>2. KnownIds = Ids
  BY <1>1 DEF KnownIds
<1>3. Init => BlockedSurvivesRestart
  BY DEF Init, BlockedSurvivesRestart
<1>4. TypeOK /\ BlockedSurvivesRestart /\ [Next]_vars => BlockedSurvivesRestart'
  <2> SUFFICES ASSUME TypeOK, BlockedSurvivesRestart, [Next]_vars
               PROVE  BlockedSurvivesRestart'
    OBVIOUS
  <2>1. CASE UNCHANGED <<saved, blocked>>
    BY <2>1 DEF BlockedSurvivesRestart
  <2>2. ASSUME NEW id \in Ids, Block(id) \/ Allow(id) PROVE BlockedSurvivesRestart'
    <3>1. saved' = {Joined(i) : i \in blocked'}
      BY <2>2 DEF Block, Allow, Save
    <3>2. blocked' \subseteq Ids
      BY <1>2, <2>2 DEF Block, Allow, TypeOK
    <3> QED
      BY <1>1, <3>1, <3>2 DEF BlockedSurvivesRestart
  <2>3. CASE Restart
    BY <2>3 DEF Restart, BlockedSurvivesRestart
  <2> QED
    BY <2>1, <2>2, <2>3 DEF Next, ClientCall, AddInhibition, ReleaseInhibition,
          releaseAllInhibitions, Enforce, onServiceUnregistered, Disconnect, Drained,
          onScreenLockerActiveChanged, vars, envVars, settings
<1> QED
  BY <1>3, <1>4, TypeCorrect, PTL DEF Spec

-----------------------------------------------------------------------------
(* Refinement *)

\* What was last announced is what the standing, unblocked requests forbid.
LEMMA AnnouncedIsForbidden ==
    AgentInv => notifiedPolicies
                  = Promise!ForbiddenBy(requested, request, blocked, screenLockerActive)
<1> SUFFICES ASSUME AgentInv
             PROVE  notifiedPolicies
                      = Promise!ForbiddenBy(requested, request, blocked, screenLockerActive)
  OBVIOUS
<1>1. \A p \in Policies : ~IsEmpty(typesToCookie, p)
          <=> \E c \in requested : request[c].id \notin blocked /\ p \in Implied(request[c].policies)
  <2> SUFFICES ASSUME NEW p \in Policies
               PROVE  ~IsEmpty(typesToCookie, p)
                        <=> \E c \in active : p \in Implied(request[c].policies)
    BY DEF AgentInv, ListedAsActiveIsActive
  <2>1. active \subseteq Cookies
    BY DEF AgentInv, TypeOK
  <2> QED
    BY <2>1 DEF AgentInv, PoliciesHeldByActive, IsEmpty
<1> QED
  BY <1>1 DEF AgentInv, NotifiedPoliciesCurrent, unavailablePolicies, UnavailableWith,
              Promise!ForbiddenBy

LEMMA InitPromise == Init => Promise!PromiseInit
BY DEF Init, Promise!PromiseInit

LEMMA NextPromise ==
    AgentInv /\ AgentInv' /\ [Next]_vars
        => [Promise!PromiseNext]_(Promise!promiseVars)
<1> DEFINE Moves == \/ Promise!Schedule \/ Promise!Stand \/ Promise!Withdraw
                    \/ Promise!ChangeSettings \/ Promise!StartOver
<1>0. AgentInv' => (notifiedPolicies
            = Promise!ForbiddenBy(requested, request, blocked, screenLockerActive))'
  BY AnnouncedIsForbidden, PTL
<1> SUFFICES ASSUME AgentInv, AgentInv', [Next]_vars
             PROVE  Moves
  BY <1>0 DEF Promise!PromiseNext, Promise!ForbiddenBy
<1>1. ASSUME NEW s \in Services \cup {NoService}, NEW id \in Ids, NEW policies \in PolicyChoices,
             AddInhibition(s, id, policies)
      PROVE  Promise!Schedule
  <2> DEFINE c0 == lastCookie + 1
             r  == [service |-> s, id |-> id, policies |-> policies]
  <2>1. /\ lastCookie' = c0 /\ request' = [request EXCEPT ![c0] = r]
        /\ pending' = pending \cup {c0}
        /\ UNCHANGED <<requested, blocked, screenLockerActive>>
    BY <1>1 DEF AddInhibition, Schedule, records, settings
  <2>2. c0 \in Cookies \ (1 .. lastCookie) /\ 1 .. lastCookie' = (1 .. lastCookie) \cup {c0}
    BY <1>1, <2>1, ConstantsAssumption DEF AgentInv, TypeOK, Cookies, AddInhibition, Schedule
  <2>3. r \in Requests
    BY ConstantsAssumption DEF Requests
  <2> QED
    BY <2>1, <2>2, <2>3 DEF Promise!Schedule
<1>2. ASSUME NEW c \in Cookies, Enforce(c) PROVE Promise!Stand \/ Promise!Withdraw
  BY <1>2 DEF Enforce, records, settings, Promise!Stand, Promise!Withdraw
<1>3. ASSUME NEW C, Release(C, FALSE), UNCHANGED <<closures, settings>> PROVE Promise!Withdraw
  BY <1>3 DEF Release, Revoke, closures, settings, Promise!Withdraw
<1>4. ASSUME NEW id \in Ids, Block(id) \/ Allow(id) PROVE Promise!ChangeSettings
  BY <1>4 DEF Block, Allow, Release, Revoke, closures, records, AgentInv, StagesConsistent,
              ListedAsActiveIsActive, Promise!ChangeSettings
<1>5. CASE onScreenLockerActiveChanged
  BY <1>5 DEF onScreenLockerActiveChanged, closures, records, Promise!ChangeSettings
<1>6. ASSUME NEW s \in Services, Disconnect(s) \/ Drained(s) PROVE Promise!ChangeSettings
  BY <1>6 DEF Disconnect, Drained, closures, records, Promise!ChangeSettings
<1>7. CASE Restart
  BY <1>7 DEF Restart, Promise!StartOver
<1>8. CASE UNCHANGED vars
  BY <1>8 DEF vars, closures, records, Promise!ChangeSettings
<1> QED
  BY <1>1, <1>2, <1>3, <1>4, <1>5, <1>6, <1>7, <1>8
     DEF Next, ClientCall, ReleaseInhibition, releaseAllInhibitions, onServiceUnregistered, envVars

\* The agent implements its abstract promise.
THEOREM PromiseKept == Spec => ImplementsPromise
BY InitPromise, NextPromise, AgentInvariant, PTL
   DEF Spec, ImplementsPromise, Promise!PromiseSpec

-----------------------------------------------------------------------------
(* The mirror of logind's inhibitors.                                      *)

Messages == {Signal, Error} \cup {Reply(list) : list \in SUBSET Inhibitors}

MirrorTypeOK ==
    /\ inhibitors \subseteq Inhibitors
    /\ calls \in Nat /\ fromLogind \in Seq(Messages) /\ failed \in BOOLEAN
    /\ logindInhibitions \in [Cookies -> Inhibitors \cup {NoInhibitor}]
    /\ lastCookie \in Nat

\* Cookies that were not handed out yet stand for nothing, others only for locks
\* that count.
MirrorIssued ==
    \A c \in Cookies : logindInhibitions[c] # NoInhibitor =>
                            c <= lastCookie /\ Relevant(logindInhibitions[c])

\* Whatever overlaps, the last message under way announces a change, has the
\* present inhibitors, or is an error; when all are read the mirror is right, or
\* a call is to be answered.
MirrorFollows ==
    /\ fromLogind # <<>> =>
           fromLogind[Len(fromLogind)] \in {Signal, Error, Reply(inhibitors)}
    /\ fromLogind = <<>> =>
           calls > 0 \/ failed \/ Mirrored = {i \in inhibitors : Relevant(i)}

MirrorInv == MirrorTypeOK /\ MirrorIssued /\ MirrorFollows

LEMMA MessagesDiffer ==
    /\ Signal \in Messages /\ Error \in Messages /\ Signal # Error
    /\ Signal.kind # "reply" /\ Error.kind # "reply"
    /\ \A list \in SUBSET Inhibitors :
          Reply(list) \in Messages /\ Reply(list).kind = "reply" /\ Reply(list).list = list
  BY DEF Messages, Signal, Error, Reply

\* SetToSeq lists the elements of a finite set, each once.
LEMMA Listed ==
    ASSUME NEW S, IsFiniteSet(S)
    PROVE  /\ SetToSeq(S) \in Seq(S) /\ Len(SetToSeq(S)) \in Nat
           /\ \A i \in 1 .. Len(SetToSeq(S)) : SetToSeq(S)[i] \in S
           /\ \A e \in S : \E i \in 1 .. Len(SetToSeq(S)) : SetToSeq(S)[i] = e
  <1> DEFINE n == Cardinality(S)
             q == SetToSeq(S)
             Once(f) == \A a, b \in DOMAIN f : f[a] = f[b] => a = b
  <1>1. n \in Nat /\ ExistsBijection(1 .. n, S)
    BY FS_CardinalityType
  <1>2. \E f \in [1 .. n -> S] : IsInjective(f)
    BY <1>1 DEF ExistsBijection, Bijection, Injection, IsInjective
  <1>3. q \in [1 .. n -> S] /\ IsInjective(q)
    BY <1>2 DEF SetToSeq
  <1>4. IsFiniteSet(1 .. n) /\ Cardinality(1 .. n) = n
    BY <1>1, FS_Interval
  <1> HIDE DEF n, q
  <1>5. q \in Injection(1 .. n, S)
    BY <1>3 DEF Injection, IsInjective
  <1>6. Cardinality(1 .. n) = Cardinality(S)
    BY <1>4 DEF n
  <1>7. q \in Surjection(1 .. n, S)
    BY <1>4, <1>5, <1>6, FS_Injection
  <1>8. \A e \in S : \E i \in 1 .. n : q[i] = e
    BY <1>7 DEF Surjection
  <1>9. q \in Seq(S) /\ Len(q) = n
    BY <1>1, <1>3
  <1> QED
    BY <1>1, <1>3, <1>8, <1>9 DEF q

LEMMA Sent ==
    ASSUME NEW S, NEW q \in Seq(S), NEW e \in S
    PROVE  /\ Append(q, e) \in Seq(S) /\ Append(q, e) # <<>>
           /\ Append(q, e)[Len(Append(q, e))] = e
  OBVIOUS

LEMMA Received ==
    ASSUME NEW S, NEW q \in Seq(S), q # <<>>
    PROVE  /\ Head(q) \in S /\ Tail(q) \in Seq(S)
           /\ Tail(q) = <<>> => Head(q) = q[Len(q)]
           /\ Tail(q) # <<>> => Tail(q)[Len(Tail(q))] = q[Len(q)]
  <1> DEFINE r == Tail(q)
             n == Len(q)
  <1>1. /\ Head(q) \in S /\ Head(q) = q[1] /\ r \in Seq(S) /\ n \in Nat \ {0}
        /\ Len(r) = n - 1 /\ \A i \in 1 .. n - 1 : r[i] = q[i + 1]
    OBVIOUS
  <1>2. r = <<>> <=> n = 1
    BY <1>1
  <1> HIDE DEF r, n
  <1>3. n # 1 => n - 1 \in 1 .. n - 1 /\ (n - 1) + 1 = n
    BY <1>1
  <1> QED
    BY <1>1, <1>2, <1>3 DEF r, n

\* The agent's own handlers, what clients release and the timers leave the mirror
\* alone.
LEMMA AgentKeepsMirror ==
    ASSUME MirrorInv, AgentStep \/ ReleaseStep \/ \E c \in Cookies : EnforceStep(c)
    PROVE  MirrorInv'
  <1>1. UNCHANGED <<inhibitors, changes, calls, fromLogind, failed, logindInhibitions>>
    BY DEF AgentStep, ReleaseStep, EnforceStep, logindVars
  <1>2. lastCookie' = lastCookie \/ (lastCookie < MaxCookie /\ lastCookie' = lastCookie + 1)
    BY DEF AgentStep, ReleaseStep, EnforceStep, AddInhibition, Schedule, ReleaseInhibition,
           releaseAllInhibitions, Block, Allow, onServiceUnregistered, Disconnect,
           onScreenLockerActiveChanged, Enforce, closures
  <1>3. lastCookie' \in Nat /\ (\A c \in Cookies : c <= lastCookie => c <= lastCookie')
    BY <1>2, ConstantsAssumption DEF MirrorInv, MirrorTypeOK, Cookies
  <1>4. MirrorTypeOK'
    BY <1>1, <1>3 DEF MirrorInv, MirrorTypeOK
  <1>5. MirrorIssued'
    BY <1>1, <1>3 DEF MirrorInv, MirrorIssued
  <1>6. MirrorFollows'
    BY <1>1 DEF MirrorInv, MirrorFollows, Mirrored
  <1> QED
    BY <1>4, <1>5, <1>6 DEF MirrorInv

\* logind announces what it changes, and answers with what it has.
LEMMA LogindKeepsMirror ==
    ASSUME MirrorInv, Answer \/ \E i \in Inhibitors : Take(i) \/ Drop(i)
    PROVE  MirrorInv'
  <1>1. PICK m \in {Signal, Error, Reply(inhibitors')} : fromLogind' = Append(fromLogind, m)
    BY DEF Take, Drop, Announce, Answer
  <1>2. /\ inhibitors' \subseteq Inhibitors /\ lastCookie' = lastCookie /\ failed' = failed
        /\ calls' \in Nat /\ logindInhibitions' = logindInhibitions
    BY DEF Take, Drop, Announce, Answer, MirrorInv, MirrorTypeOK, vars, closures
  <1>3. m \in Messages /\ fromLogind \in Seq(Messages)
    BY <1>2, MessagesDiffer DEF MirrorInv, MirrorTypeOK
  <1>4. /\ fromLogind' \in Seq(Messages) /\ fromLogind' # <<>>
        /\ fromLogind'[Len(fromLogind')] = m
    BY <1>1, <1>3, Sent
  <1>5. MirrorTypeOK'
    BY <1>2, <1>4 DEF MirrorInv, MirrorTypeOK
  <1>6. MirrorIssued'
    BY <1>2 DEF MirrorInv, MirrorIssued
  <1>7. MirrorFollows'
    BY <1>1, <1>4 DEF MirrorFollows
  <1> QED
    BY <1>5, <1>6, <1>7 DEF MirrorInv

\* After a reply the agent mirrors what the reply lists.
LEMMA ReplyIsMirrored ==
    ASSUME MirrorInv, onListInhibitors
    PROVE  /\ Mirrored' = {i \in Head(fromLogind).list : Relevant(i)}
           /\ lastCookie' \in Nat /\ MirrorIssued'
           /\ logindInhibitions' \in [Cookies -> Inhibitors \cup {NoInhibitor}]
  <1> DEFINE listed == Head(fromLogind).list
             adopted == SetToSeq(Unknown(listed))
             added == (lastCookie + 1) .. (lastCookie + Len(adopted))
             vanished == Vanished(listed)
             mirror == logindInhibitions
  <1>1. /\ fromLogind \in Seq(Messages) /\ fromLogind # <<>> /\ lastCookie \in Nat
        /\ mirror \in [Cookies -> Inhibitors \cup {NoInhibitor}]
        /\ Head(fromLogind).kind = "reply"
    BY DEF onListInhibitors, MirrorInv, MirrorTypeOK
  <1>2. listed \in SUBSET Inhibitors
    <2>1. Head(fromLogind) \in Messages
      BY <1>1, Received
    <2> QED
      BY <1>1, <2>1, MessagesDiffer DEF Messages
  <1>3. /\ lastCookie + Len(adopted) <= MaxCookie /\ lastCookie' = lastCookie + Len(adopted)
        /\ mirror' = [c \in Cookies |-> IF c \in added THEN adopted[c - lastCookie]
                                        ELSE IF c \in vanished THEN NoInhibitor ELSE mirror[c]]
    BY DEF onListInhibitors, AddAll
  <1> HIDE DEF listed
  <1>4. /\ Unknown(listed) \subseteq Inhibitors /\ IsFiniteSet(Unknown(listed))
        /\ \A i \in Unknown(listed) : i \in listed /\ Relevant(i)
    <2>1. Unknown(listed) \subseteq Inhibitors
      BY <1>2 DEF Unknown
    <2> QED
      BY <2>1, LogindAssumption, FS_Subset DEF Unknown
  <1>5. /\ Len(adopted) \in Nat /\ \A k \in 1 .. Len(adopted) : adopted[k] \in Unknown(listed)
        /\ \A e \in Unknown(listed) : \E k \in 1 .. Len(adopted) : adopted[k] = e
    BY <1>4, Listed
  <1>6. \A c \in Cookies : c \in vanished <=> mirror[c] \notin listed /\ mirror[c] # NoInhibitor
    BY DEF Vanished
  <1> HIDE DEF adopted, vanished
  <1>7. \A c \in added : /\ c - lastCookie \in 1 .. Len(adopted) /\ c \in Cookies
                         /\ ~(c <= lastCookie) /\ c <= lastCookie'
    BY <1>1, <1>3, <1>5, ConstantsAssumption DEF Cookies
  <1>8. \A k \in 1 .. Len(adopted) : lastCookie + k \in added /\ (lastCookie + k) - lastCookie = k
    BY <1>1, <1>5
  <1>9. lastCookie' \in Nat /\ (\A c \in Cookies : c <= lastCookie => c <= lastCookie')
    BY <1>1, <1>3, <1>5, ConstantsAssumption DEF Cookies
  <1> HIDE DEF added
  <1>10. ASSUME NEW c \in Cookies, c \in added
         PROVE  mirror'[c] \in Unknown(listed) /\ mirror'[c] = adopted[c - lastCookie]
    BY <1>3, <1>5, <1>7, <1>10
  <1>11. ASSUME NEW c \in Cookies, c \notin added, mirror'[c] # NoInhibitor
         PROVE  /\ mirror'[c] = mirror[c] /\ mirror'[c] \in listed
                /\ c <= lastCookie /\ Relevant(mirror[c])
    <2>1. mirror'[c] = mirror[c] /\ c \notin vanished
      BY <1>3, <1>11
    <2> QED
      BY <1>6, <1>11, <2>1 DEF MirrorInv, MirrorIssued
  <1>12. MirrorIssued'
    <2> SUFFICES ASSUME NEW c \in Cookies, mirror'[c] # NoInhibitor
                 PROVE  c <= lastCookie' /\ Relevant(mirror'[c])
      BY DEF MirrorIssued
    <2>1. CASE c \in added
      BY <1>4, <1>7, <1>10, <2>1
    <2>2. CASE c \notin added
      BY <1>9, <1>11, <2>2
    <2> QED
      BY <2>1, <2>2
  <1>13. mirror' \in [Cookies -> Inhibitors \cup {NoInhibitor}]
    <2>1. \A c \in Cookies : mirror'[c] \in Inhibitors \cup {NoInhibitor}
      BY <1>1, <1>2, <1>4, <1>10, <1>11
    <2> QED
      BY <1>3, <2>1
  <1>14. ASSUME NEW i \in Mirrored' PROVE i \in listed /\ Relevant(i)
    <2>1. PICK c \in Cookies : mirror'[c] = i /\ i # NoInhibitor
      BY <1>14 DEF Mirrored
    <2>2. CASE c \in added
      BY <1>4, <1>10, <2>1, <2>2
    <2>3. CASE c \notin added
      BY <1>11, <2>1, <2>3
    <2> QED
      BY <2>2, <2>3
  <1>15. ASSUME NEW i \in listed, Relevant(i) PROVE i \in Mirrored'
    <2>0. i # NoInhibitor
      BY <1>2, LogindAssumption
    <2>1. CASE i \in Mirrored
      <3>1. PICK c \in Cookies : mirror[c] = i
        BY <2>1 DEF Mirrored
      <3>2. c \notin added /\ c \notin vanished
        BY <1>6, <1>7, <2>0, <3>1 DEF MirrorInv, MirrorIssued
      <3>3. mirror'[c] = i
        BY <1>3, <3>1, <3>2
      <3> QED
        BY <2>0, <3>3 DEF Mirrored
    <2>2. CASE i \notin Mirrored
      <3>1. i \in Unknown(listed)
        BY <1>15, <2>2 DEF Unknown
      <3>2. PICK k \in 1 .. Len(adopted) : adopted[k] = i
        BY <1>5, <3>1
      <3>3. /\ lastCookie + k \in Cookies /\ lastCookie + k \in added
            /\ adopted[(lastCookie + k) - lastCookie] = i
        BY <1>7, <1>8, <3>2
      <3>4. mirror'[lastCookie + k] = i
        BY <1>10, <3>3
      <3> QED
        BY <2>0, <3>3, <3>4 DEF Mirrored
    <2> QED
      BY <2>1, <2>2
  <1> QED
    BY <1>9, <1>12, <1>13, <1>14, <1>15 DEF listed

\* A message is read: a signal is followed by a call, an error leaves the mirror
\* doubtful, and the last reply has today's inhibitors.
LEMMA MessageKeepsMirror ==
    ASSUME MirrorInv, HandleMessage
    PROVE  MirrorInv'
  <1>1. /\ fromLogind \in Seq(Messages) /\ fromLogind # <<>> /\ fromLogind' = Tail(fromLogind)
        /\ inhibitors' = inhibitors /\ calls \in Nat
    BY DEF HandleMessage, onManagerPropertyChanged, onListInhibitors, onListInhibitorsError,
           MirrorInv, MirrorTypeOK
  <1>2. /\ fromLogind' \in Seq(Messages)
        /\ fromLogind' = <<>> => Head(fromLogind) \in {Signal, Error, Reply(inhibitors)}
        /\ fromLogind' # <<>> =>
               fromLogind'[Len(fromLogind')] \in {Signal, Error, Reply(inhibitors')}
    <2>1. fromLogind[Len(fromLogind)] \in {Signal, Error, Reply(inhibitors)}
      BY <1>1 DEF MirrorInv, MirrorFollows
    <2> QED
      BY <1>1, <2>1, Received
  <1>3. CASE onManagerPropertyChanged
    <2>1. /\ calls' = calls + 1 /\ lastCookie' = lastCookie /\ failed' = failed
          /\ logindInhibitions' = logindInhibitions
      BY <1>3 DEF onManagerPropertyChanged, vars, closures
    <2> QED
      BY <1>1, <1>2, <2>1 DEF MirrorInv, MirrorTypeOK, MirrorIssued, MirrorFollows
  <1>4. CASE onListInhibitorsError
    <2>1. /\ calls' = calls /\ lastCookie' = lastCookie /\ failed'
          /\ failed' \in BOOLEAN /\ logindInhibitions' = logindInhibitions
      BY <1>4 DEF onListInhibitorsError, vars, closures
    <2> QED
      BY <1>1, <1>2, <2>1 DEF MirrorInv, MirrorTypeOK, MirrorIssued, MirrorFollows
  <1>5. CASE onListInhibitors
    <2>1. /\ Mirrored' = {i \in Head(fromLogind).list : Relevant(i)}
          /\ lastCookie' \in Nat /\ MirrorIssued'
          /\ logindInhibitions' \in [Cookies -> Inhibitors \cup {NoInhibitor}]
      BY <1>5, ReplyIsMirrored
    <2>2. calls' = calls /\ failed' \in BOOLEAN /\ Head(fromLogind).kind = "reply"
      BY <1>5 DEF onListInhibitors
    <2>3. MirrorTypeOK'
      BY <1>1, <1>2, <2>1, <2>2 DEF MirrorInv, MirrorTypeOK
    <2>4. fromLogind' = <<>> => Mirrored' = {i \in inhibitors' : Relevant(i)}
      <3>1. fromLogind' = <<>> => Head(fromLogind) = Reply(inhibitors)
        BY <1>2, <2>2, MessagesDiffer
      <3>2. Reply(inhibitors).list = inhibitors
        BY DEF Reply
      <3> QED
        BY <1>1, <2>1, <3>1, <3>2
    <2>5. MirrorFollows'
      BY <1>2, <2>4 DEF MirrorFollows
    <2> QED
      BY <2>1, <2>3, <2>5 DEF MirrorInv
  <1> QED
    BY <1>3, <1>4, <1>5 DEF HandleMessage

LEMMA NextMirror == MirrorInv /\ [LogindNext]_allVars => MirrorInv'
  <1> SUFFICES ASSUME MirrorInv, [LogindNext]_allVars PROVE MirrorInv'
    OBVIOUS
  <1>1. CASE RestartWithLogind
    <2>1. /\ lastCookie' = 0 /\ calls' = 1 /\ fromLogind' = <<>> /\ failed' = FALSE
          /\ inhibitors' = inhibitors
          /\ logindInhibitions' = [c \in Cookies |-> NoInhibitor]
      BY <1>1 DEF RestartWithLogind, Restart
    <2>2. fromLogind' \in Seq(Messages) /\ failed' \in BOOLEAN /\ calls' \in Nat
      <3>1. <<>> \in Seq(Messages) /\ 1 \in Nat
        OBVIOUS
      <3>2. failed' \in BOOLEAN
        BY <2>1, Zenon
      <3> QED
        BY <2>1, <3>1, <3>2, Zenon
    <2>3. MirrorTypeOK'
      BY <2>1, <2>2 DEF MirrorInv, MirrorTypeOK
    <2>4. calls' > 0
      BY <2>1
    <2> QED
      BY <2>1, <2>3, <2>4 DEF MirrorInv, MirrorIssued, MirrorFollows
  <1>2. CASE UNCHANGED allVars
    BY <1>2 DEF allVars, logindVars, vars, closures, MirrorInv, MirrorTypeOK, MirrorIssued,
                MirrorFollows, Mirrored
  <1> QED
    BY <1>1, <1>2, AgentKeepsMirror, LogindKeepsMirror, MessageKeepsMirror DEF LogindNext

\* However many calls of checkLogindInhibitions overlap, and whatever changes
\* before their answers are read: once nothing is under way, the agent mirrors
\* exactly the locks that count, for any locks and any number of calls.
THEOREM MirrorCorrect == LogindSpec => []MirrorInSync
  <1>1. LogindInit => MirrorInv
    <2> SUFFICES ASSUME LogindInit PROVE MirrorInv
      OBVIOUS
    <2>1. /\ lastCookie = 0 /\ inhibitors \in SUBSET Inhibitors /\ calls = 1
          /\ fromLogind = <<>> /\ failed = FALSE
          /\ logindInhibitions = [c \in Cookies |-> NoInhibitor]
      BY DEF LogindInit, Init
    <2>2. fromLogind \in Seq(Messages) /\ failed \in BOOLEAN /\ calls \in Nat /\ calls > 0
      <3>1. <<>> \in Seq(Messages) /\ 1 \in Nat /\ 1 > 0
        OBVIOUS
      <3>2. failed \in BOOLEAN
        BY <2>1, Zenon
      <3> QED
        BY <2>1, <3>1, <3>2, Zenon
    <2>3. MirrorTypeOK
      BY <2>1, <2>2 DEF MirrorTypeOK
    <2> QED
      BY <2>1, <2>2, <2>3 DEF MirrorInv, MirrorIssued, MirrorFollows
  <1>2. MirrorInv => MirrorInSync
    BY DEF MirrorInv, MirrorFollows, MirrorTypeOK, MirrorInSync
  <1> QED
    BY <1>1, <1>2, NextMirror, PTL DEF LogindSpec
=============================================================================
