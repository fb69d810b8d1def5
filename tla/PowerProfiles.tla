----------------------------- MODULE PowerProfiles -----------------------------
(***************************************************************************)
(* Power profiles: the daemon's PowerProfile action                        *)
(* (daemon/actions/bundled/powerprofile.cpp) between power-profiles-daemon *)
(* ("ppd", external), the programs that hold a profile through it and the  *)
(* battery applet                                                          *)
(* (applets/batterymonitor/plugin/powerprofilescontrol.cpp), which shows   *)
(* what the daemon announces.                                              *)
(*                                                                         *)
(* ppd knows the daemon only, so the daemon has to remember which program  *)
(* obtained which hold, watch these programs on the bus and release their  *)
(* holds when they leave.  Every call is asynchronous.  One connection     *)
(* delivers messages in the order they were sent: a sequence per           *)
(* direction.                                                              *)
(*                                                                         *)
(* Abstractions.  Holds are for "performance" only; the reasons why        *)
(* performance is degraded, the list of holds that is only displayed, the  *)
(* on-screen display and the configured profile are left out.              *)
(* serviceUnregistered goes on with an iterator it has erased: when that   *)
(* ends the process instead of the loop, the step is Restart. ppd itself   *)
(* does not restart.                                                       *)
(***************************************************************************)
EXTENDS Integers, FiniteSets, Sequences

CONSTANTS Clients,     \* unique bus names of the programs that hold profiles
          Profiles,    \* what ppd offers besides holds: "performance" and others
          MaxCookie,   \* bound: holds asked for
          MaxSets,     \* bound: manual changes of the profile
          MaxRestarts, \* bound: restarts of the daemon
          MaxEvents,   \* bound: all of these together
          Nobody       \* no program; no profile

ASSUME ProfilesAssumption ==
    /\ "performance" \in Profiles
    /\ Nobody \notin Clients \cup Profiles \cup {"applet"} /\ "applet" \notin Clients
    /\ MaxCookie \in Nat /\ MaxSets \in Nat /\ MaxRestarts \in Nat /\ MaxEvents \in Nat

VARIABLES
    \* ppd
    selected,  \* the profile that was set last
    held,      \* the cookies of the holds it honours
    owner,     \* history: the program each cookie was obtained for
    \* messages
    toPpd,     \* calls of the daemon
    toDaemon,  \* ppd's answers and signals
    calls,     \* calls of the applet
    toApplet,  \* the daemon's answers and signals, and notices of the bus
    \* PowerProfile
    known,     \* m_profileChoices is not empty
    current,   \* m_currentProfile
    holdMap,   \* m_holdMap: pairs of a program and a cookie
    watched,   \* what m_holdWatcher watches
    \* programs
    onBus,     \* those that are running
    notices,   \* departures m_holdWatcher has yet to be told
    lost,      \* history: listed holds whose program is not watched any more
    \* PowerProfilesControl
    installed, \* m_isPowerProfileDaemonInstalled
    active,    \* m_activeProfile
    \* bounds
    asked, sets, restarts

ppd == <<selected, held, owner>>
daemon == <<known, current, holdMap, watched>>
programs == <<onBus, notices, lost>>
applet == <<installed, active>>
channels == <<toPpd, toDaemon, calls, toApplet>>
bounds == <<asked, sets, restarts>>
MayAct == asked + sets + restarts < MaxEvents

vars == <<ppd, channels, daemon, programs, applet, bounds>>

Chosen(s, h) == IF h = {} THEN s ELSE "performance"
ActiveProfile == Chosen(selected, held)

-----------------------------------------------------------------------------
(* The messages.                                                           *)

Properties(profile) == [kind |-> "properties", profile |-> profile]

\* PropertiesChanged, where the profile did.
Changes(s, h) ==
    IF Chosen(s, h) = ActiveProfile THEN <<>> ELSE <<Properties(Chosen(s, h))>>

\* The members of the finite set S, in some order.
InAnyOrder(S) ==
    {o \in [1 .. Cardinality(S) -> S] : \A e \in S : \E i \in DOMAIN o : o[i] = e}

-----------------------------------------------------------------------------

Init ==
    /\ selected \in Profiles /\ held = {} /\ owner = [k \in 1 .. MaxCookie |-> Nobody]
    /\ toPpd = <<[op |-> "getAll", by |-> Nobody]>> /\ toDaemon = <<>>
    /\ calls = <<>> /\ toApplet = <<[kind |-> "registered"]>>
    /\ known = FALSE /\ current = Nobody /\ holdMap = {} /\ watched = {}
    /\ onBus = Clients /\ notices = {} /\ lost = {}
    /\ installed = FALSE /\ active = Nobody
    /\ asked = 0 /\ sets = 0 /\ restarts = 0

(* Programs.  The daemon forwards their calls at once.  A program releases  *)
(* what it obtained itself, once.                                          *)

holdProfile(c) ==
    /\ known
    /\ c \in onBus /\ asked < MaxCookie /\ MayAct
    /\ asked' = asked + 1
    /\ toPpd' = Append(toPpd, [op |-> "hold", by |-> c])
    /\ UNCHANGED <<ppd, toDaemon, calls, toApplet, daemon, programs, applet, sets, restarts>>

releaseProfile(c, k) ==
    /\ c \in onBus /\ owner[k] = c /\ <<c, k>> \in holdMap
    /\ ~ \E i \in 1 .. Len(toPpd) : toPpd[i].op = "release" /\ toPpd[i].cookie = k
    /\ toPpd' = Append(toPpd, [op |-> "release", by |-> c, cookie |-> k])
    /\ UNCHANGED <<ppd, toDaemon, calls, toApplet, daemon, programs, applet, bounds>>

Leave(c) ==
    /\ c \in onBus
    /\ onBus' = onBus \ {c}
    /\ notices' = IF c \in watched THEN notices \cup {c} ELSE notices
    /\ UNCHANGED <<ppd, channels, daemon, lost, applet, bounds>>

-----------------------------------------------------------------------------
(* ppd, one call at a time; signals about a change precede the answer.     *)

PpdAnswers(s, h, answers) ==
    /\ selected' = s /\ held' = h
    /\ toDaemon' = toDaemon \o Changes(s, h) \o answers
    /\ toPpd' = Tail(toPpd)
    /\ UNCHANGED <<calls, toApplet, daemon, programs, applet, bounds>>

PpdGetsAll ==
    /\ toPpd # <<>> /\ Head(toPpd).op = "getAll"
    /\ PpdAnswers(selected, held, <<Properties(ActiveProfile)>>)
    /\ UNCHANGED owner

PpdHolds ==
    /\ toPpd # <<>> /\ Head(toPpd).op = "hold"
    /\ \E k \in 1 .. MaxCookie :      \* the next cookie
          LET c == Head(toPpd).by IN
          /\ owner[k] = Nobody /\ \A i \in 1 .. k - 1 : owner[i] # Nobody
          /\ owner' = [owner EXCEPT ![k] = c]
          /\ PpdAnswers(selected, held \cup {k}, <<[kind |-> "held", by |-> c, cookie |-> k]>>)

\* Releasing what is not held is answered with an error.
PpdReleases ==
    /\ toPpd # <<>> /\ Head(toPpd).op = "release"
    /\ LET call == Head(toPpd) IN
       PpdAnswers(selected, held \ {call.cookie},
                  IF call.cookie \in held /\ call.by # Nobody
                  THEN <<[kind |-> "released", by |-> call.by, cookie |-> call.cookie]>>
                  ELSE <<>>)
    /\ UNCHANGED owner

ProfileReleasedFor(ks) == [i \in DOMAIN ks |-> [kind |-> "gone", cookie |-> ks[i]]]

\* A manual change cancels all holds.
PpdSets ==
    /\ toPpd # <<>> /\ Head(toPpd).op = "set"
    /\ \E ks \in InAnyOrder(held) :
          PpdAnswers(Head(toPpd).profile, {},
                     Append(ProfileReleasedFor(ks), [kind |-> "set", by |-> Head(toPpd).by,
                                                     profile |-> Head(toPpd).profile]))
    /\ UNCHANGED owner

\* Another program changes the profile.
OthersSet(p) ==
    /\ sets < MaxSets /\ MayAct
    /\ sets' = sets + 1
    /\ selected' = p /\ held' = {}
    /\ \E ks \in InAnyOrder(held) :
          toDaemon' = toDaemon \o Changes(p, {}) \o ProfileReleasedFor(ks)
    /\ UNCHANGED <<owner, toPpd, calls, toApplet, daemon, programs, applet, asked, restarts>>

-----------------------------------------------------------------------------
(* PowerProfile: ppd's answers and signals.                                *)

Receives(kind) == toDaemon # <<>> /\ Head(toDaemon).kind = kind /\ toDaemon' = Tail(toDaemon)

\* Mutant: the new profile is not announced.
readPropertiesQuietly(properties) ==
    /\ known' = TRUE
    /\ current' = properties.profile
    /\ UNCHANGED toApplet

\* Takes over what ppd says and announces what is new; the applet hears it
\* from onServiceRegistered on.
readProperties(properties) ==
    /\ known' = TRUE
    /\ current' = properties.profile
    /\ toApplet' = toApplet
           \o (IF current = properties.profile \/ ~installed THEN <<>>
               ELSE <<[kind |-> "currentProfileChanged", profile |-> properties.profile]>>)

propertiesChanged ==
    /\ Receives("properties")
    /\ readProperties(Head(toDaemon))
    /\ UNCHANGED <<ppd, toPpd, calls, holdMap, watched, programs, applet, bounds>>

HoldsOf(c, map) == {p[2] : p \in {q \in map : q[1] = c}}

\* removeWatchedService: a notice that is not in the event queue yet is not
\* delivered any more.
Unwatch(C) ==
    /\ watched' = watched \ C
    /\ \E late \in SUBSET (notices \cap C) : notices' = notices \ late

\* The answer to HoldProfile.  Watching begins with it, or begins again; of a
\* program that left before, nobody will tell.
HoldGranted ==
    /\ Receives("held")
    /\ LET c == Head(toDaemon).by
           k == Head(toDaemon).cookie
       IN  /\ watched' = watched \cup {c}
           /\ holdMap' = holdMap \cup {<<c, k>>}
           /\ lost' = IF c \in onBus THEN lost \ HoldsOf(c, holdMap)
                      ELSE IF c \in notices THEN lost ELSE lost \cup {k}
    /\ UNCHANGED <<ppd, toPpd, calls, toApplet, known, current, onBus, notices, applet, bounds>>

\* Mutant: the hold stays listed.
ReleaseUnlisted ==
    /\ Receives("released")
    /\ UNCHANGED <<ppd, toPpd, calls, toApplet, daemon, programs, applet, bounds>>

\* The answer to ReleaseProfile: the program is no longer watched if it has
\* further holds.
ReleaseGranted ==
    /\ Receives("released")
    /\ LET c == Head(toDaemon).by
           left == HoldsOf(c, holdMap')
       IN  /\ holdMap' = holdMap \ {<<c, Head(toDaemon).cookie>>}
           /\ Unwatch(IF left # {} THEN {c} ELSE {})
           /\ lost' = IF c \in notices' THEN lost ELSE lost \cup left
    /\ UNCHANGED <<ppd, toPpd, calls, toApplet, known, current, onBus, applet, bounds>>

\* ppd cancelled a hold: its program is watched as long as it has others.
ProfileReleased ==
    /\ Receives("gone")
    /\ LET gone == {p \in holdMap : p[2] = Head(toDaemon).cookie} IN
       /\ holdMap' = holdMap \ gone
       /\ Unwatch({p[1] : p \in {q \in gone : HoldsOf(q[1], holdMap \ gone) = {}}})
    /\ UNCHANGED <<ppd, toPpd, calls, toApplet, known, current, onBus, lost, applet, bounds>>

\* The answer to setting the profile is passed on to the applet.
SetAnswered ==
    /\ Receives("set")
    /\ toApplet' = IF Head(toDaemon).by = "applet"
                   THEN Append(toApplet, [kind |-> "done", profile |-> Head(toDaemon).profile])
                   ELSE toApplet
    /\ UNCHANGED <<ppd, toPpd, calls, daemon, programs, applet, bounds>>

\* Mutant: the loop ends with the first hold it erases.
ReleasesOfFirst(ks) ==
    IF ks = <<>> THEN <<>> ELSE <<[op |-> "release", by |-> Nobody, cookie |-> ks[1]]>>

ReleasesOf(ks) == [i \in DOMAIN ks |-> [op |-> "release", by |-> Nobody, cookie |-> ks[i]]]

\* A watched program has left.
serviceUnregistered(c) ==
    /\ c \in notices /\ notices' = notices \ {c}
    /\ \E ks \in InAnyOrder({k \in DOMAIN owner : <<c, k>> \in holdMap}) :
          toPpd' = toPpd \o ReleasesOf(ks)
    /\ holdMap' = {p \in holdMap : p[1] # c}
    /\ watched' = watched \ {c}
    /\ UNCHANGED <<ppd, toDaemon, calls, toApplet, known, current, onBus, lost, applet, bounds>>

\* The shortcut takes the next profile, and loading a profile the configured one.
setProfile(p) ==
    /\ sets < MaxSets /\ MayAct
    /\ sets' = sets + 1
    /\ toPpd' = Append(toPpd, [op |-> "set", by |-> Nobody, profile |-> p])
    /\ UNCHANGED <<ppd, toDaemon, calls, toApplet, daemon, programs, applet, asked, restarts>>

\* The applet's calls: what it fetches when the service appears, and its wish.
ServeApplet ==
    /\ calls # <<>> /\ calls' = Tail(calls)
    /\ \/ /\ Head(calls).op = "fetch"
          /\ toApplet' = Append(toApplet, [kind |-> "currentProfileChanged", profile |-> current])
          /\ UNCHANGED toPpd
       \/ /\ Head(calls).op = "set"
          /\ toPpd' = Append(toPpd, [op |-> "set", by |-> "applet", profile |-> Head(calls).profile])
          /\ UNCHANGED toApplet
    /\ UNCHANGED <<ppd, toDaemon, daemon, programs, applet, bounds>>

\* The daemon ends and starts again.  ppd drops the holds of its connection.
Restart ==
    /\ restarts < MaxRestarts /\ MayAct /\ restarts' = restarts + 1
    /\ held' = {}
    /\ toPpd' = <<[op |-> "getAll", by |-> Nobody]>> /\ toDaemon' = <<>> /\ calls' = <<>>
    /\ toApplet' = toApplet \o <<[kind |-> "unregistered"], [kind |-> "registered"]>>
    /\ known' = FALSE /\ current' = Nobody /\ holdMap' = {} /\ watched' = {}
    /\ notices' = {} /\ lost' = {}
    /\ UNCHANGED <<selected, owner, onBus, applet, asked, sets>>

-----------------------------------------------------------------------------
(* PowerProfilesControl.                                                   *)

AppletReceives(kind) ==
    toApplet # <<>> /\ Head(toApplet).kind = kind /\ toApplet' = Tail(toApplet)

onServiceRegistered ==
    /\ AppletReceives("registered")
    /\ calls' = Append(calls, [op |-> "fetch"])
    /\ installed' = TRUE
    /\ UNCHANGED <<ppd, toPpd, toDaemon, daemon, programs, active, bounds>>

onServiceUnregistered ==
    /\ AppletReceives("unregistered")
    /\ installed' = FALSE /\ active' = Nobody
    /\ UNCHANGED <<ppd, toPpd, toDaemon, calls, daemon, programs, bounds>>

updatePowerProfileCurrentProfile ==
    /\ AppletReceives("currentProfileChanged")
    /\ active' = Head(toApplet).profile
    /\ UNCHANGED <<ppd, toPpd, toDaemon, calls, daemon, programs, installed, bounds>>

\* The user chooses a profile in the applet ...
AppletSetsProfile(p) ==
    /\ sets < MaxSets /\ MayAct
    /\ installed
    /\ sets' = sets + 1
    /\ calls' = Append(calls, [op |-> "set", profile |-> p])
    /\ UNCHANGED <<ppd, toPpd, toDaemon, toApplet, daemon, programs, applet, asked, restarts>>

\* ... and the answer, which may find that others chose another one since.
AppletSetAnswered ==
    /\ AppletReceives("done")
    /\ active' = Head(toApplet).profile
    /\ UNCHANGED <<ppd, toPpd, toDaemon, calls, daemon, programs, installed, bounds>>

-----------------------------------------------------------------------------

FromPpd == propertiesChanged \/ HoldGranted \/ ReleaseGranted \/ ProfileReleased \/ SetAnswered
Ppd == PpdGetsAll \/ PpdHolds \/ PpdReleases \/ PpdSets
Applet == \/ onServiceRegistered \/ onServiceUnregistered
          \/ updatePowerProfileCurrentProfile \/ AppletSetAnswered
Users == \E p \in Profiles : OthersSet(p) \/ setProfile(p) \/ AppletSetsProfile(p)
Programs == \E c \in Clients : holdProfile(c) \/ Leave(c)
                               \/ \E k \in 1 .. MaxCookie : releaseProfile(c, k)

Next == \/ FromPpd \/ Ppd \/ ServeApplet \/ Applet \/ Users \/ Programs \/ Restart
        \/ \E c \in Clients : serviceUnregistered(c)

Spec == Init /\ [][Next]_vars

-----------------------------------------------------------------------------
(* Properties.                                                             *)

\* A hold ends with the program it was obtained for: once the program is
\* gone, its departure is still to be noticed, the hold is still to be listed,
\* or its release is on the way (m_holdWatcher, serviceUnregistered).  Two holds
\* are left behind (lost): one whose answer is read after its program left, and
\* one of a program that released another hold since, unless it obtained a
\* further one and is watched again.
HoldsEndWithProgram ==
    \A k \in held \ lost : owner[k] \notin onBus =>
        \/ owner[k] \in notices
        \/ \E i \in 1 .. Len(toDaemon) : toDaemon[i].kind = "held" /\ toDaemon[i].cookie = k
        \/ \E i \in 1 .. Len(toPpd) : toPpd[i].op = "release" /\ toPpd[i].cookie = k

\* Once ppd's messages are handled, the daemon lists exactly the holds ppd
\* honours, under the programs that obtained them.
HoldsAreListed ==
    toPpd = <<>> /\ toDaemon = <<>> => holdMap = {<<owner[k], k>> : k \in held}

\* When all messages are handled, the applet shows what ppd does: the answer
\* to an own wish does not cover a later change, nor does a restart of the
\* daemon leave anything of the old one.
AppletShowsActual ==
    toPpd = <<>> /\ toDaemon = <<>> /\ calls = <<>> /\ toApplet = <<>> =>
        /\ installed
        /\ current = ActiveProfile /\ active = current
=============================================================================
