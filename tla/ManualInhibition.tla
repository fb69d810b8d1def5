-------------------------- MODULE ManualInhibition --------------------------
(***************************************************************************)
(* "Manually Block Sleep and Screen Locking" in the battery applet:        *)
(* InhibitMonitor (inhibitmonitor_p.cpp), which is a client of             *)
(* org.freedesktop.PowerManagement.Inhibit (powerdevilfdoconnector.cpp)    *)
(* and of org.freedesktop.ScreenSaver, and InhibitionControl               *)
(* (inhibitioncontrol.cpp), which shows the switch and what other          *)
(* applications have asked of PolicyAgent.                                 *)
(*                                                                         *)
(* Calls are answered, and signals are read, later and in order; the user  *)
(* may use the switch meanwhile, and the daemon may end and start again.   *)
(*                                                                         *)
(* Abstractions.  Of PolicyAgent this keeps what its clients see           *)
(* (module PolicyAgent has the rest): an inhibition is scheduled, then     *)
(* requested, and it is active unless the user has blocked it.  There is   *)
(* one other application, with one reason; a cookie stands for an entry of *)
(* the list.  What one step of the daemon signals several times is read    *)
(* once.  The screen saver serves and answers in one step, and stays.      *)
(* The on-screen display, the error flag and the lid's hints are left out. *)
(***************************************************************************)
EXTENDS Naturals, Sequences

CONSTANTS MaxEvents,    \* bound: what the users, the application and the daemon's ends do
          Backlog       \* bound: what is under way as one of these happens

ASSUME ManualAssumption == MaxEvents \in Nat /\ Backlog \in Nat

NoCookie == 0

VARIABLES
    \* powerdevil
    running,                \* its names are on the bus
    exported,               \* PolicyAgent's object is too
    lastCookie, pending, requested, blocked,
    \* the screen saver
    lastLock, locks,
    \* what is under way
    calls,                  \* from plasmashell to powerdevil
    messages,               \* the answers, signals and changes of names
    lockCalls,              \* from plasmashell to the screen saver
    \* InhibitMonitor
    sleepInhibitionCookie, lockInhibitionCookie,
    \* InhibitionControl
    registered,             \* onServiceRegistered has run, and connected the signals
    requestedInhibitions, hasInhibition, isManuallyInhibited,
    \* history
    missed,                 \* the list was asked for before PolicyAgent was exported
    doubtful,               \* the switch was used with something under way, or what
                            \* it stands for was taken away
    events                  \* bound

agent == <<lastCookie, pending, requested, blocked>>
saver == <<lastLock, locks>>
monitor == <<sleepInhibitionCookie, lockInhibitionCookie>>
control == <<registered, requestedInhibitions, hasInhibition, isManuallyInhibited>>
vars == <<running, exported, agent, saver, calls, messages, lockCalls, monitor, control,
          missed, doubtful, events>>

Quiet == calls = <<>> /\ messages = <<>> /\ lockCalls = <<>>

Happens == /\ events < MaxEvents /\ events' = events + 1
           /\ Len(calls) + Len(messages) + Len(lockCalls) <= Backlog

\* The applet starts with the daemon there.
Init ==
    /\ running = TRUE /\ exported = TRUE
    /\ lastCookie = 0 /\ pending = {} /\ requested = {} /\ blocked = FALSE
    /\ lastLock = 0 /\ locks = {}
    /\ calls = <<>> /\ messages = <<[what |-> "Registered"]>> /\ lockCalls = <<>>
    /\ sleepInhibitionCookie = NoCookie /\ lockInhibitionCookie = NoCookie
    /\ registered = FALSE
    /\ requestedInhibitions = {} /\ hasInhibition = FALSE /\ isManuallyInhibited = FALSE
    /\ missed = FALSE /\ doubtful = FALSE /\ events = 0

-----------------------------------------------------------------------------
(* PolicyAgent, as seen by its clients.                                    *)

Inhibition(cookie, who) == [cookie |-> cookie, who |-> who]

Active == {inhibition \in requested : ~(blocked /\ inhibition.who = "application")}

\* listRequestedInhibitions, without what updatedInhibitions leaves out
Listed == {[cookie |-> inhibition.cookie, active |-> inhibition \in Active] :
              inhibition \in {i \in requested : i.who # "plasmashell"}}

Sent(told) == IF registered THEN told ELSE <<>>

\* Mutant: HasInhibitChanged is sent for the first inhibition only.
SignalsOfFirst ==
    (IF requested' # requested \/ Active' # Active THEN <<[what |-> "PropertiesChanged"]>> ELSE <<>>)
      \o (IF Active = {} /\ Active' # {} THEN <<[what |-> "HasInhibitChanged", value |-> TRUE]>> ELSE <<>>)

\* dbusPropertiesChanged, and unavailablePoliciesChanged as FdoConnector
\* passes it on
Signals ==
    (IF requested' # requested \/ Active' # Active THEN <<[what |-> "PropertiesChanged"]>> ELSE <<>>)
      \o (IF (Active = {}) # (Active' = {})
          THEN <<[what |-> "HasInhibitChanged", value |-> Active' # {}]>> ELSE <<>>)

\* addInhibitionWithExplicitDBusService
Schedule(who) ==
    /\ lastCookie' = lastCookie + 1
    /\ pending' = pending \union {Inhibition(lastCookie + 1, who)}
    /\ UNCHANGED <<requested, blocked>>

\* ReleaseInhibition, whoever asks for it
Release(cookies) ==
    /\ pending' = {i \in pending : i.cookie \notin cookies}
    /\ requested' = {i \in requested : i.cookie \notin cookies}
    /\ UNCHANGED <<lastCookie, blocked>>

Cookies(who) == {i.cookie : i \in {j \in pending \union requested : j.who = who}}

bystanders == <<running, exported, saver, calls, lockCalls, monitor, control, missed>>

\* The inhibition has been scheduled for five seconds.
Enforce(inhibition) ==
    /\ inhibition \in pending
    /\ pending' = pending \ {inhibition} /\ requested' = requested \union {inhibition}
    /\ UNCHANGED <<lastCookie, blocked>>
    /\ messages' = messages \o Sent(Signals)
    /\ UNCHANGED <<bystanders, doubtful, events>>

\* Another application inhibits, or ends it.
Application ==
    /\ Happens /\ running
    /\ Schedule("application") \/ (Cookies("application") # {} /\ Release(Cookies("application")))
    /\ messages' = messages \o Sent(Signals)
    /\ UNCHANGED <<bystanders, doubtful>>

ForceUnInhibitAll ==
    /\ Happens /\ running
    /\ Release(Cookies("application") \union Cookies("plasmashell"))
    /\ messages' = messages \o Sent(Signals)
    /\ doubtful' = (doubtful \/ ~Quiet \/ isManuallyInhibited)
    /\ UNCHANGED bystanders

Answer(call) ==
    CASE call.what = "Inhibit" -> <<[what |-> "Cookie", cookie |-> lastCookie']>>
      [] call.what = "UnInhibit" -> <<[what |-> "Released"]>>
      [] call.what = "HasInhibit" -> <<[what |-> "HasInhibit", value |-> Active # {}]>>
      [] call.what = "Get" -> IF exported THEN <<[what |-> "Inhibitions", list |-> Listed]>>
                              ELSE <<[what |-> "Error"]>>
      [] OTHER -> <<>>

\* A call of plasmashell's is served: by FdoConnector, or by PolicyAgent.
Serve ==
    /\ calls # <<>> /\ calls' = Tail(calls)
    /\ LET call == calls[1] IN
       /\ \/ call.what = "Inhibit" /\ Schedule("plasmashell")
          \/ call.what = "UnInhibit" /\ Release({call.cookie})
          \/ /\ call.what = "SetInhibitionAllowed" /\ blocked' = ~call.allowed
             /\ UNCHANGED <<lastCookie, pending, requested>>
          \/ call.what \in {"Get", "HasInhibit"} /\ UNCHANGED agent
       /\ messages' = messages \o Sent(Signals) \o Answer(call)
       /\ missed' = IF call.what = "Get" THEN ~exported ELSE missed
    /\ UNCHANGED <<running, exported, saver, lockCalls, monitor, control, doubtful, events>>

\* The daemon ends: its clients get errors for what they are waiting for.
DaemonEnds ==
    /\ Happens /\ running /\ running' = FALSE /\ exported' = FALSE
    /\ lastCookie' = 0 /\ pending' = {} /\ requested' = {} /\ UNCHANGED blocked
    /\ messages' = messages \o <<[what |-> "Unregistered"]>>
                     \o [call \in 1 .. Len(calls) |-> [what |-> "Error"]]
    /\ calls' = <<>>
    /\ doubtful' = (doubtful \/ ~Quiet \/ sleepInhibitionCookie # NoCookie
                             \/ lockInhibitionCookie # NoCookie)
    /\ UNCHANGED <<saver, lockCalls, monitor, control, missed>>

\* onControllersReady and PowerDevilApp::onCoreReady, with the name on the
\* bus some time before PolicyAgent's object
DaemonStarts ==
    /\ ~running /\ running' = TRUE
    /\ messages' = Append(messages, [what |-> "Registered"])
    /\ UNCHANGED <<exported, agent, saver, calls, lockCalls, monitor, control, missed, doubtful, events>>

Export ==
    /\ running /\ ~exported /\ exported' = TRUE
    /\ UNCHANGED <<running, agent, saver, calls, messages, lockCalls, monitor, control, missed,
                   doubtful, events>>

-----------------------------------------------------------------------------
(* plasmashell.                                                            *)

\* The calls to powerdevil: nobody answers when it is not there.
Call(asked) ==
    IF running THEN calls' = calls \o asked /\ UNCHANGED messages
    ELSE /\ messages' = messages \o [call \in 1 .. Len(asked) |-> [what |-> "Error"]]
         /\ UNCHANGED calls

\* What isManuallyInhibitedChanged does to the switch.
Switched(value) == isManuallyInhibited' = IF registered THEN value ELSE isManuallyInhibited

beginSuppressingSleep ==
    IF sleepInhibitionCookie # NoCookie THEN Switched(TRUE) /\ UNCHANGED <<calls, messages>>
    ELSE Call(<<[what |-> "Inhibit"]>>) /\ UNCHANGED isManuallyInhibited

stopSuppressingSleep ==
    IF sleepInhibitionCookie = NoCookie THEN Switched(FALSE) /\ UNCHANGED <<calls, messages>>
    ELSE /\ Call(<<[what |-> "UnInhibit", cookie |-> sleepInhibitionCookie]>>)
         /\ UNCHANGED isManuallyInhibited

beginSuppressingScreenPowerManagement ==
    lockCalls' = IF lockInhibitionCookie # NoCookie THEN lockCalls
                 ELSE Append(lockCalls, [what |-> "Inhibit"])

\* Mutant: the screen's power management stays suppressed.
stopSuppressingScreenNever == UNCHANGED lockCalls

stopSuppressingScreenPowerManagement ==
    lockCalls' = IF lockInhibitionCookie = NoCookie THEN lockCalls
                 ELSE Append(lockCalls, [what |-> "UnInhibit", cookie |-> lockInhibitionCookie])

\* inhibit or uninhibit: the switch, or the middle button
Toggle ==
    /\ Happens
    /\ IF isManuallyInhibited
       THEN stopSuppressingSleep /\ stopSuppressingScreenPowerManagement
       ELSE beginSuppressingSleep /\ beginSuppressingScreenPowerManagement
    /\ doubtful' = (doubtful \/ ~Quiet \/ ~registered)
    /\ UNCHANGED <<running, exported, agent, saver, monitor, registered, requestedInhibitions,
                   hasInhibition, missed>>

setInhibitionAllowed(allowed) ==
    /\ Happens /\ requestedInhibitions # {}
    /\ Call(<<[what |-> "SetInhibitionAllowed", allowed |-> allowed]>>)
    /\ UNCHANGED <<running, exported, agent, saver, lockCalls, monitor, control, missed, doubtful>>

\* The screen saver serves a call, and plasmashell reads the answer.
ScreenSaver ==
    /\ lockCalls # <<>> /\ lockCalls' = Tail(lockCalls)
    /\ \/ /\ lockCalls[1].what = "Inhibit"
          /\ lastLock' = lastLock + 1 /\ locks' = locks \union {lastLock + 1}
          /\ lockInhibitionCookie' = lastLock + 1
       \/ /\ lockCalls[1].what = "UnInhibit"
          /\ locks' = locks \ {lockCalls[1].cookie} /\ lockInhibitionCookie' = NoCookie
          /\ UNCHANGED lastLock
    /\ UNCHANGED <<running, exported, agent, calls, messages, sleepInhibitionCookie, control, missed,
                   doubtful, events>>

read == messages # <<>> /\ messages' = Tail(messages)
others == <<running, exported, agent, saver, lockCalls, lockInhibitionCookie, missed, doubtful, events>>

\* Mutant: checkInhibitions is left to the first change.
AskedUnlisted == <<[what |-> "HasInhibit"]>>

\* What onServiceRegistered asks: checkInhibitions, and HasInhibit.
Asked == <<[what |-> "Get"], [what |-> "HasInhibit"]>>

onServiceRegistered ==
    /\ messages # <<>> /\ messages[1].what = "Registered"
    /\ registered' = TRUE
    /\ isManuallyInhibited' = (sleepInhibitionCookie # NoCookie \/ lockInhibitionCookie # NoCookie)
    /\ IF running THEN calls' = calls \o Asked /\ messages' = Tail(messages)
       ELSE /\ messages' = Tail(messages) \o [call \in 1 .. Len(Asked) |-> [what |-> "Error"]]
            /\ UNCHANGED calls
    /\ UNCHANGED <<others, sleepInhibitionCookie, requestedInhibitions, hasInhibition>>

onServiceUnregistered ==
    /\ read /\ messages[1].what = "Unregistered"
    /\ registered' = FALSE /\ requestedInhibitions' = {}
    /\ hasInhibition' = FALSE /\ isManuallyInhibited' = FALSE
    /\ UNCHANGED <<others, calls, sleepInhibitionCookie>>

\* onPolicyAgentPropertiesChanged: the list is asked for again.
onPolicyAgentPropertiesChanged ==
    /\ messages # <<>> /\ messages[1].what = "PropertiesChanged"
    /\ IF running THEN calls' = Append(calls, [what |-> "Get"]) /\ messages' = Tail(messages)
       ELSE messages' = Append(Tail(messages), [what |-> "Error"]) /\ UNCHANGED calls
    /\ UNCHANGED <<others, sleepInhibitionCookie, control>>

onHasInhibitionChanged ==
    /\ read /\ messages[1].what \in {"HasInhibitChanged", "HasInhibit"}
    /\ hasInhibition' = messages[1].value
    /\ UNCHANGED <<others, calls, sleepInhibitionCookie, registered, requestedInhibitions,
                   isManuallyInhibited>>

\* checkInhibitions, the answer
updatedInhibitions ==
    /\ read /\ messages[1].what = "Inhibitions"
    /\ requestedInhibitions' = messages[1].list
    /\ UNCHANGED <<others, calls, sleepInhibitionCookie, registered, hasInhibition, isManuallyInhibited>>

\* The answers of beginSuppressingSleep and stopSuppressingSleep, and errors.
SleepAnswered ==
    /\ read
    /\ \/ /\ messages[1].what = "Cookie"
          /\ sleepInhibitionCookie' = messages[1].cookie /\ Switched(TRUE)
       \/ /\ messages[1].what = "Released"
          /\ sleepInhibitionCookie' = NoCookie /\ Switched(FALSE)
       \/ messages[1].what = "Error" /\ UNCHANGED <<sleepInhibitionCookie, isManuallyInhibited>>
    /\ UNCHANGED <<others, calls, registered, requestedInhibitions, hasInhibition>>

-----------------------------------------------------------------------------
Daemon == Serve \/ (\E inhibition \in pending : Enforce(inhibition)) \/ DaemonStarts \/ Export

Plasmashell == \/ onServiceRegistered \/ onServiceUnregistered \/ onPolicyAgentPropertiesChanged
               \/ onHasInhibitionChanged \/ updatedInhibitions \/ SleepAnswered

World == \/ Application \/ ForceUnInhibitAll \/ DaemonEnds \/ Toggle \/ ScreenSaver
         \/ \E allowed \in BOOLEAN : setInhibitionAllowed(allowed)

Next == Daemon \/ Plasmashell \/ World

Spec == Init /\ [][Next]_vars

-----------------------------------------------------------------------------
\* When everything has been read the applet lists what applications have asked
\* of the agent, however changes, answers and restarts cross; unless it asked
\* before the agent was there (powerdevilapp.cpp exports it after the name).
ListIsShown ==
    Quiet /\ registered /\ ~missed => requestedInhibitions = Listed

\* When everything has been read the applet knows whether sleep is inhibited.
HasInhibitShown ==
    Quiet /\ registered => hasInhibition = (Active # {})

\* A switch that is used with nothing under way says what the agent and the
\* screen saver hold for it.
SwitchIsTrue ==
    Quiet /\ registered /\ ~doubtful =>
        /\ isManuallyInhibited <=> Cookies("plasmashell") # {}
        /\ isManuallyInhibited <=> locks # {}
=============================================================================
