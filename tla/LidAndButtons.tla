----------------------------- MODULE LidAndButtons -----------------------------
(***************************************************************************)
(* The lid, the buttons and suspending: HandleButtonEvents                 *)
(* (handlebuttonevents.cpp) with LidController, SuspendSession             *)
(* (suspendsession.cpp) and SuspendController, and logind around them.     *)
(*                                                                         *)
(* Closing the lid carries out the lid action unless an external monitor   *)
(* is connected.  Because the daemon has to look again when the monitor    *)
(* goes, when the computer wakes and when it was woken by a timer, there   *)
(* are two timers and two idle timeouts.  Before it asks logind to         *)
(* suspend, SuspendSession runs a privileged helper in an event loop of    *)
(* its own: other handlers run meanwhile, and may start another request    *)
(* that has to finish first.                                               *)
(*                                                                         *)
(* UPower's lid and KScreen's configuration change outside; the daemon     *)
(* handles their signals later, or after the computer slept.  logind       *)
(* announces with PrepareForSleep when it starts and when it ends; the     *)
(* daemon takes no delay lock, so it may read both after the resume.       *)
(*                                                                         *)
(* Abstractions.  Timers have no durations.  Sleep stands for all ways of  *)
(* sleeping; actions that do not put the computer to sleep are Other.  The *)
(* keyboard backlight is in KeyboardBacklight, the idle timeout of         *)
(* SuspendSession in IdleActions.  The bus delivers a call the daemon sent *)
(* before logind notices that the computer woke.                           *)
(***************************************************************************)
EXTENDS Integers, Sequences

CONSTANTS LidActionOf,    \* profile -> "Sleep", "Other" or "None"
          TriggersOf,     \* profile -> does the lid act beside an external monitor?
          MaxWaiting,     \* bound: requests that wait for the helper, nested
          MaxEvents       \* bound: what the user and other programs do

Profiles == {"AC", "Battery"}

ASSUME LidAssumption ==
    /\ LidActionOf \in [Profiles -> {"Sleep", "Other", "None"}]
    /\ TriggersOf \in [Profiles -> BOOLEAN]
    /\ MaxWaiting \in Nat \ {0} /\ MaxEvents \in Nat

VARIABLES
    \* outside of the daemon
    lid,            \* UPower: is the lid closed?
    monitor,        \* an external monitor: "absent" or "present"
    shutdown,       \* org.kde.Shutdown is on the bus
    power,          \* logind: "awake", "preparing", "asleep", "resuming"
    woken,          \* what woke the computer last: "user" or "timer"
    prepare,        \* PrepareForSleep signals the daemon has not read
    calls,          \* the daemon's calls of Suspend that logind has not read
    \* LidController, SuspendController, SuspendSession
    isLidClosed,
    counted,        \* the wakeup counts were read before the computer slept
    isAboutToSuspend,
    waiting,        \* requests in triggerImpl that wait for the helper
    \* HandleButtonEvents
    externalMonitorPresent, \* "unknown" until KScreen has answered
    lidAction,
    triggerWithMonitor,
    buttonsLoaded,  \* it is one of Core's active actions
    hotunplugTimer,
    wakeupTimer,
    idle,           \* its idle timeouts: "none", "registered", after 1 s "short",
                    \* after 30 s "long"
    resuming,       \* KIdleTime's resumingFromIdle is queued
    \* history
    excused,        \* a closed lid need not put the computer to sleep now
    events          \* bound

world == <<lid, monitor, shutdown>>
logind == <<power, woken, prepare, calls>>
suspend == <<counted, isAboutToSuspend, waiting>>
known == <<externalMonitorPresent, lidAction, triggerWithMonitor, buttonsLoaded>>
timers == <<hotunplugTimer, wakeupTimer, idle, resuming>>
buttonsVars == <<world, logind, isLidClosed, suspend, known, timers, excused, events>>

\* HandleButtonEvents::loadAction, which takes over what is configured but is
\* loaded only if the lid and both buttons (`configured') have an action.  Then it
\* calls checkOutputs, which finds nothing new: whenever KScreen's configuration
\* changes, configurationChanged has called it at once.
loadAction(p, configured) == LidActionOf[p] # "None" /\ configured

\* LidController asks UPower when it is constructed.
LidInit == lid \in BOOLEAN /\ isLidClosed = lid

\* SuspendController connects to logind, SuspendSession to SuspendController.
SuspendInit ==
    /\ power = "awake" /\ woken = "user" /\ prepare = <<>> /\ calls = 0 /\ counted = FALSE
    /\ isAboutToSuspend = FALSE /\ waiting = <<>>

ButtonsInit ==
    /\ LidInit /\ SuspendInit
    /\ monitor \in {"absent", "present"} /\ shutdown = FALSE
    /\ externalMonitorPresent = "unknown"
    /\ \E p \in Profiles, configured \in BOOLEAN :
        /\ lidAction = LidActionOf[p] /\ triggerWithMonitor = TriggersOf[p]
        /\ buttonsLoaded = loadAction(p, configured)
    /\ hotunplugTimer = FALSE /\ wakeupTimer = FALSE /\ idle = "none" /\ resuming = FALSE
    /\ excused = FALSE /\ events = 0

\* The daemon runs.
Running == power # "asleep"

Happens == events < MaxEvents /\ events' = events + 1

-----------------------------------------------------------------------------
(* Operations.                                                             *)

Triggers(withMonitor, present) == withMonitor \/ present # "present"
triggersLidAction == Triggers(triggerWithMonitor, externalMonitorPresent)

\* SuspendSession::triggerImpl as far as the helper, for a request by `action`.
triggerImpl(action) ==
    IF action # "Sleep" \/ shutdown \/ isAboutToSuspend \/ Len(waiting) = MaxWaiting
    THEN UNCHANGED waiting
    ELSE waiting' = Append(waiting, action)

processAction(action) == triggerImpl(action)

\* SuspendController::snapshotWakeupCounts: counts read after the computer
\* slept are no use.
snapshotWakeupCounts == power = "preparing"

lastWakeupType == IF counted THEN woken ELSE "unknown"

\* A request is dropped during a shutdown, which may be called off.
Dropped(action) == action = "Sleep" /\ shutdown

\* HandleButtonEvents::onLidClosedChanged(true)
onLidClosed(action, triggers) ==
    IF externalMonitorPresent # "unknown" /\ triggers THEN processAction(action) ELSE UNCHANGED waiting

\* Mutant: the lid is looked at when a monitor is plugged in, not when it goes.
checkOutputsPlugged(present) ==
    /\ externalMonitorPresent' = present
    /\ hotunplugTimer' = (hotunplugTimer \/ externalMonitorPresent = "unknown"
                            \/ (present = "present" /\ ~triggerWithMonitor))

checkOutputs(present) ==
    /\ externalMonitorPresent' = present
    /\ hotunplugTimer' = (hotunplugTimer \/ externalMonitorPresent = "unknown"
                            \/ triggersLidAction # Triggers(triggerWithMonitor, present))

-----------------------------------------------------------------------------
(* The world and logind.                                                   *)

MoveLid ==
    /\ Happens /\ lid' = ~lid
    /\ UNCHANGED <<monitor, shutdown, logind, isLidClosed, suspend, known,
                   timers, excused>>

PlugMonitor ==
    /\ Happens /\ monitor' \in {"absent", "present"} \ {monitor}
    /\ UNCHANGED <<lid, shutdown, logind, isLidClosed, suspend, known, timers,
                   excused>>

\* The user logs out and may call it off.
Shutdown ==
    /\ Running /\ Happens /\ shutdown' = ~shutdown
    /\ UNCHANGED <<lid, monitor, logind, isLidClosed, suspend, known, timers,
                   excused>>

\* logind starts at the first request, the daemon's or another's, and refuses others.
Suspends ==
    /\ Running
    /\ \/ calls > 0 /\ calls' = calls - 1 /\ UNCHANGED events
       \/ Happens /\ UNCHANGED calls
    /\ IF power = "awake" THEN power' = "preparing" /\ prepare' = Append(prepare, TRUE)
       ELSE UNCHANGED <<power, prepare>>
    /\ UNCHANGED <<world, woken, isLidClosed, suspend, known, timers, excused>>

FallAsleep ==
    /\ power = "preparing" /\ power' = "asleep"
    /\ UNCHANGED <<world, woken, prepare, calls, isLidClosed, suspend, known,
                   timers, excused, events>>

Wake(by) ==
    /\ power = "asleep" /\ power' = "resuming" /\ woken' = by
    /\ Happens
    /\ UNCHANGED <<world, prepare, calls, isLidClosed, suspend, known, timers,
                   excused>>

Resumes ==
    /\ power = "resuming" /\ calls = 0
    /\ power' = "awake" /\ prepare' = Append(prepare, FALSE)
    /\ UNCHANGED <<world, woken, calls, isLidClosed, suspend, known, timers,
                   excused, events>>

-----------------------------------------------------------------------------
(* The daemon's handlers.                                                  *)

\* LidController::onPropertiesChanged, with what the change triggers.
onLidClosedChanged ==
    /\ Running /\ isLidClosed # lid /\ isLidClosed' = lid
    /\ IF lid THEN /\ onLidClosed(lidAction, triggersLidAction)
                   /\ excused' = Dropped(lidAction)
       ELSE UNCHANGED <<waiting, excused>>
    /\ UNCHANGED <<world, logind, counted, isAboutToSuspend, known, timers,
                   events>>

\* KScreen answers at last, or its configuration changes.
configurationChanged ==
    /\ Running /\ externalMonitorPresent # monitor
    /\ checkOutputs(monitor)
    /\ excused' = (excused /\ ~hotunplugTimer')
    /\ UNCHANGED <<world, logind, isLidClosed, suspend, lidAction,
                   triggerWithMonitor, buttonsLoaded, wakeupTimer, idle, resuming, events>>

reactToDisplayHotunplug ==
    /\ Running /\ hotunplugTimer /\ hotunplugTimer' = FALSE
    /\ IF triggersLidAction /\ isLidClosed
       THEN processAction(lidAction) /\ excused' = (excused \/ Dropped(lidAction))
       ELSE UNCHANGED <<waiting, excused>>
    /\ UNCHANGED <<world, logind, isLidClosed, counted, isAboutToSuspend,
                   known, wakeupTimer, idle, resuming, events>>

checkWakeup ==
    /\ Running /\ wakeupTimer /\ wakeupTimer' = FALSE
    /\ IF triggersLidAction /\ isLidClosed /\ lidAction = "Sleep"
       THEN processAction(lidAction) /\ excused' = (excused \/ Dropped(lidAction))
       ELSE UNCHANGED <<waiting, excused>>
    /\ UNCHANGED <<world, logind, isLidClosed, counted, isAboutToSuspend,
                   known, hotunplugTimer, idle, resuming, events>>

\* A button, a shortcut, a timeout or a client asks for a suspend.
Request ==
    /\ Running /\ Happens
    /\ processAction("Sleep")
    /\ UNCHANGED <<world, logind, isLidClosed, counted, isAboutToSuspend,
                   known, timers, excused>>

\* Mutant: a helper that fails aborts the suspend.
HelperAborts ==
    /\ Running /\ waiting # <<>>
    /\ waiting' = SubSeq(waiting, 1, Len(waiting) - 1)
    /\ calls' \in {calls, calls + 1}
    /\ UNCHANGED <<world, power, woken, prepare, isLidClosed, counted, isAboutToSuspend,
                   known, timers, excused, events>>

\* The helper of the innermost request is done: logind is asked.
HelperDone ==
    /\ Running /\ waiting # <<>>
    /\ waiting' = SubSeq(waiting, 1, Len(waiting) - 1)
    /\ calls' = calls + 1
    /\ UNCHANGED <<world, power, woken, prepare, isLidClosed, counted,
                   isAboutToSuspend, known, timers, excused, events>>

aboutToSuspend ==
    /\ Running /\ prepare # <<>> /\ Head(prepare) /\ prepare' = Tail(prepare)
    /\ isAboutToSuspend' = TRUE
    /\ counted' = snapshotWakeupCounts
    /\ UNCHANGED <<world, power, woken, calls, isLidClosed, waiting, known,
                   timers, excused, events>>

\* Mutant: the flag of a suspend survives it.
resumeFromSuspendFlagged ==
    /\ Running /\ prepare # <<>> /\ ~Head(prepare) /\ prepare' = Tail(prepare)
    /\ excused' = FALSE
    /\ resuming' = (resuming \/ idle \in {"short", "long"})
    /\ IF lastWakeupType = "timer"
       THEN idle' = "registered" /\ UNCHANGED wakeupTimer
       ELSE wakeupTimer' = TRUE /\ UNCHANGED idle
    /\ UNCHANGED <<world, power, woken, calls, isLidClosed, suspend, known,
                   hotunplugTimer, events>>

\* SuspendSession simulates activity: whoever was idle is told that it ended.
resumeFromSuspend ==
    /\ Running /\ prepare # <<>> /\ ~Head(prepare) /\ prepare' = Tail(prepare)
    /\ isAboutToSuspend' = FALSE /\ excused' = FALSE
    /\ resuming' = (resuming \/ idle \in {"short", "long"})
    /\ IF lastWakeupType = "timer"
       THEN idle' = "registered" /\ UNCHANGED wakeupTimer
       ELSE wakeupTimer' = TRUE /\ UNCHANGED idle
    /\ UNCHANGED <<world, power, woken, calls, isLidClosed, counted, waiting,
                   known, hotunplugTimer, events>>

\* Nobody is there, first for 1 s, then for 30 s.
onIdleTimeout ==
    /\ Running
    /\ \/ idle = "registered" /\ idle' = "short" /\ UNCHANGED <<waiting, excused>>
       \/ /\ idle = "short" /\ idle' = "long"
          /\ processAction("Sleep") /\ excused' = (excused \/ Dropped("Sleep"))
    /\ UNCHANGED <<world, logind, isLidClosed, counted, isAboutToSuspend,
                   known, hotunplugTimer, wakeupTimer, resuming, events>>

\* The user, or a simulated activity, ends the idleness.
onWakeupFromIdle ==
    /\ Running
    /\ \/ resuming /\ UNCHANGED events
       \/ idle \in {"short", "long"} /\ Happens
    /\ resuming' = FALSE /\ idle' = "none"
    /\ excused' = (excused \/ idle # "none")
    /\ UNCHANGED <<world, logind, isLidClosed, suspend, known, hotunplugTimer,
                   wakeupTimer>>

\* Another profile or configuration: onProfileUnload, if it was loaded, and
\* loadAction.  Only `force' signals the lid once more, m_currentProfile being set.
loadProfile(p, configured, force) ==
    /\ Running /\ Happens
    /\ lidAction' = LidActionOf[p] /\ triggerWithMonitor' = TriggersOf[p]
    /\ buttonsLoaded' = loadAction(p, configured)
    /\ idle' = IF buttonsLoaded THEN "none" ELSE idle
    /\ IF force /\ isLidClosed
       THEN /\ onLidClosed(LidActionOf[p], Triggers(TriggersOf[p], externalMonitorPresent))
            /\ excused' = Dropped(LidActionOf[p])
       ELSE excused' = (excused \/ isLidClosed) /\ UNCHANGED waiting
    /\ UNCHANGED <<world, logind, isLidClosed, counted, isAboutToSuspend,
                   externalMonitorPresent, hotunplugTimer, wakeupTimer,
                   resuming>>

-----------------------------------------------------------------------------

Daemon ==
    \/ onLidClosedChanged \/ configurationChanged \/ reactToDisplayHotunplug \/ checkWakeup
    \/ HelperDone \/ aboutToSuspend \/ resumeFromSuspend \/ onIdleTimeout

ButtonsNext ==
    \/ MoveLid \/ PlugMonitor \/ Shutdown \/ Suspends \/ FallAsleep \/ Resumes
    \/ \E by \in {"user", "timer"} : Wake(by)
    \/ Daemon \/ Request \/ onWakeupFromIdle
    \/ \E p \in Profiles, configured, force \in BOOLEAN : loadProfile(p, configured, force)

ButtonsSpec == ButtonsInit /\ [][ButtonsNext]_buttonsVars

\* Signals are delivered, timers run off, the helper and logind answer.
Fairness ==
    /\ WF_buttonsVars(onLidClosedChanged) /\ WF_buttonsVars(configurationChanged)
    /\ WF_buttonsVars(reactToDisplayHotunplug) /\ WF_buttonsVars(checkWakeup)
    /\ WF_buttonsVars(HelperDone) /\ WF_buttonsVars(aboutToSuspend)
    /\ WF_buttonsVars(resumeFromSuspend) /\ WF_buttonsVars(onIdleTimeout)
    /\ WF_buttonsVars(calls > 0 /\ Suspends /\ calls' < calls) /\ WF_buttonsVars(FallAsleep)
    /\ WF_buttonsVars(Resumes)

ButtonsFairSpec == ButtonsSpec /\ Fairness

-----------------------------------------------------------------------------
(* Properties.                                                             *)

\* The lid asks for a suspend that nothing stands against.
LidDemandsSleep ==
    isLidClosed /\ externalMonitorPresent # "unknown" /\ triggersLidAction /\ lidAction = "Sleep"
        /\ ~shutdown /\ ~excused

\* A lid that asks for a suspend is looked after: a request is on its way, the
\* computer is between two states, or a timer or an idle timeout will look at
\* the lid again.  Monitors, profiles, shutdowns, requests that are refused
\* and wakeups of all kinds come in between (Bug 379265, Bug 486328).
LidIsLookedAfter ==
    LidDemandsSleep =>
        \/ hotunplugTimer \/ wakeupTimer \/ idle \in {"registered", "short"}
        \/ waiting # <<>> \/ calls > 0
        \/ power # "awake" \/ prepare # <<>>

\* Requests are refused as `in progress' only while logind suspends or resumes,
\* or has just done so: the two signals are read in pairs and in order.
RefusedInProgress == isAboutToSuspend => power # "awake" \/ prepare # <<>>

\* Whoever leaves a lid closed that asks for a suspend finds the computer
\* asleep, however often it was woken.
ClosedLidSleeps == <>[]LidDemandsSleep => []<>(power = "asleep")
=============================================================================
