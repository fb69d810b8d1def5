------------------------------ MODULE IdleActions ------------------------------
(***************************************************************************)
(* Profiles and idle timeouts (daemon/powerdevilcore.cpp) with the actions *)
(* that idleness triggers: dimming (dimdisplay.cpp), turning the screens   *)
(* off (dpms.cpp) and suspending (suspendsession.cpp), and the keyboard    *)
(* backlight they share.                                                   *)
(*                                                                         *)
(* An action registers its timeouts with Core, which registers them with   *)
(* KIdleTime.  Who may change them: loading and unloading a profile, the   *)
(* policy agent (inhibitions, the screen locker, the active session), the  *)
(* screen locker and suspending for the screen-off action, and the set of  *)
(* supported actions.  The handlers run on one thread; signals within the  *)
(* daemon are direct calls, so a handler includes those of its signals.    *)
(*                                                                         *)
(* Everything the daemon changes is one record, d: a handler that calls    *)
(* others is the composition of their operators.                           *)
(*                                                                         *)
(* Abstractions.  Timeouts have no durations: while the user is idle they  *)
(* are reached in any order, once each.  The zero timer that restores the  *)
(* brightness runs before a timeout of seconds is reached.  RunScript is   *)
(* left out; the lid is signalled again in LidAndButtons; what a suspend   *)
(* does elsewhere is there, too.                                           *)
(***************************************************************************)
EXTENDS Integers, FiniteSets

CONSTANTS IdleActionsOf,  \* profile -> the actions it loads
          KeyboardOf,     \* profile -> its keyboard brightness; Unset for none
          KeyboardMax,    \* brightest level of the keyboard
          MaxEvents,      \* bound: what happens besides idleness and activity
          Unset

Dim == "DimDisplay"
Dpms == "DPMSControl"
Suspend == "SuspendSession"
Actions == {Dim, Dpms, Suspend}
Profiles == {"AC", "Battery"}

ASSUME IdleAssumption ==
    /\ IdleActionsOf \in [Profiles -> SUBSET Actions]
    /\ KeyboardOf \in [Profiles -> (0 .. KeyboardMax) \cup {Unset}]
    /\ KeyboardMax \in Nat \ {0} /\ Unset \notin 0 .. KeyboardMax
    /\ MaxEvents \in Nat

VARIABLES
    \* outside of the daemon
    plugged,        \* the AC adapter
    activeSession,  \* logind's active session of the seat: ours, another, none
    seatChanged,    \* a PropertiesChanged of the seat is under way
    quiet,          \* does the current activity prevent dimming?
    asleep,
    \* PolicyAgent
    sdAvailable,    \* m_sdAvailable: logind is running
    wasLast,        \* m_wasLastActiveSession
    locked,         \* m_screenLockerActive
    holders,        \* who prevents changes of the screen
    scheduled,      \* m_screenActivityInhibit has a cookie that is not enforced yet
    \* Core and the actions
    d,
    \* history
    wanted,         \* the keyboard brightness without idleness
    spoiled,        \* a keyboard brightness could not be restored
    silent,         \* the last wakeup was not the user's
    events          \* bound

world == <<plugged, activeSession, seatChanged, quiet, asleep>>
agent == <<sdAvailable, wasLast, locked, holders, scheduled>>
history == <<wanted, spoiled, silent>>
vars == <<world, agent, d, history, events>>

-----------------------------------------------------------------------------
(* KIdleTime and the bookkeeping of timeouts.                              *)

Nothing == [a \in Actions |-> 0]

registerActionTimeout(s, a) == [s EXCEPT !.registered[a] = @ + 1, !.fired = @ \ {a}]
unregisterActionTimeouts(s, a) == [s EXCEPT !.registered[a] = 0]

\* A lost action is destroyed, and Core forgets its timeouts.  They stay with
\* KIdleTime, but when one is reached Core finds no action that it belongs to.
destroyAction(s, a) == [s EXCEPT !.registered[a] = 0, !.own[a] = 0]

registerIdleTimeout(s, a) == [registerActionTimeout(s, a) EXCEPT !.own[a] = @ + 1]
unregisterIdleTimeouts(s, a) == [unregisterActionTimeouts(s, a) EXCEPT !.own[a] = 0]

\* All idle times start again; resumingFromIdle follows if it was asked for.
simulateUserActivity(s) ==
    [s EXCEPT !.fired = {}, !.resuming = @ \/ s.catching, !.catching = FALSE]

\* The handler of InhibitionsChanged: each active action's timeouts once more.
refreshTimers(s) ==
    [s EXCEPT !.registered = [a \in Actions |-> IF a \in s.active THEN s.own[a] ELSE @[a]],
              !.fired = @ \ s.active]

-----------------------------------------------------------------------------
(* Policies.                                                               *)

\* unavailablePolicies, for the screen; what the actions keep as m_inhibitScreen.
Inhibited(hs, l) == hs # {} /\ ~l
inhibitScreen == Inhibited(holders, locked)

\* requirePolicyCheck(ChangeScreenSettings), which ignores the locker.
MayChangeScreen(hs) == (~sdAvailable \/ activeSession = "ours" \/ wasLast) /\ hs = {}

\* What follows a change of the inhibitions and of the locker.
PoliciesChange(s, hs, l) ==
    IF Inhibited(hs, l) = inhibitScreen THEN s ELSE simulateUserActivity(s)

-----------------------------------------------------------------------------
(* DimDisplay.                                                             *)

\* Mutant: the restore is not queued.
DimWakesOnly(s) == [s EXCEPT !.dimmed = FALSE]

DimWakes(s) == IF s.dimmed THEN [s EXCEPT !.dimmed = FALSE, !.restore = TRUE] ELSE s

DimTimesOut(s) ==
    IF s.dimmed \/ inhibitScreen THEN s
    ELSE [s EXCEPT !.ratio = TRUE, !.dimKeyboard = s.keyboard, !.keyboard = 0, !.dimmed = TRUE]

RestoreKeyboard(s) ==
    IF s.dimKeyboard > 0 THEN [s EXCEPT !.keyboard = s.dimKeyboard] ELSE s

DimLoads(s, profile) ==
    IF Dim \in IdleActionsOf[profile]
    THEN registerIdleTimeout(
           IF s.dimmed /\ KeyboardOf[profile] # Unset
           THEN [s EXCEPT !.dimKeyboard = KeyboardOf[profile]] ELSE s, Dim)
    ELSE IF s.dimmed
         THEN LET r == IF KeyboardOf[profile] = Unset THEN RestoreKeyboard(s) ELSE s
              IN [r EXCEPT !.ratio = FALSE, !.dimmed = FALSE]
         ELSE s

-----------------------------------------------------------------------------
(* DPMS.                                                                   *)

registerStandardIdleTimeout(s) ==
    LET u == [unregisterIdleTimeouts(s, Dpms) EXCEPT !.activatingLock = FALSE]
    IN IF s.dpmsLoaded THEN registerIdleTimeout(u, Dpms) ELSE u

\* Mutant: the brightness is remembered for a second wakeup.
DpmsWakesAgain(s, hs) ==
    LET u == IF s.activatingLock THEN registerStandardIdleTimeout(s) ELSE s
    IN IF u.dpmsKeyboard > 0 /\ MayChangeScreen(hs)
       THEN [u EXCEPT !.keyboard = u.dpmsKeyboard] ELSE u

\* The keyboard is restored only if no policy is in the way, and then forgotten.
DpmsWakes(s, hs) ==
    LET u == IF s.activatingLock THEN registerStandardIdleTimeout(s) ELSE s
        v == IF u.dpmsKeyboard > 0 /\ MayChangeScreen(hs)
             THEN [u EXCEPT !.keyboard = u.dpmsKeyboard] ELSE u
    IN [v EXCEPT !.dpmsKeyboard = 0]

DpmsTimesOut(s) ==
    IF inhibitScreen THEN s
    ELSE LET u == IF s.keyboard > 0 THEN [s EXCEPT !.dpmsKeyboard = s.keyboard] ELSE s
             v == IF MayChangeScreen(holders) THEN [u EXCEPT !.keyboard = 0] ELSE u
         IN [v EXCEPT !.off = TRUE]

\* Mutant: the timeout of the unlocked screen is kept besides the new one.
DpmsOnLockerKeeping(s, l) ==
    LET u == [s EXCEPT !.activatingLock = l /\ ~s.suspending]
    IN IF s.dpmsLoaded /\ (u.activatingLock \/ ~l) THEN registerIdleTimeout(u, Dpms) ELSE u

DpmsOnLocker(s, l) ==
    LET u == [unregisterIdleTimeouts(s, Dpms) EXCEPT !.activatingLock = l /\ ~s.suspending]
    IN IF s.dpmsLoaded /\ (u.activatingLock \/ ~l) THEN registerIdleTimeout(u, Dpms) ELSE u

DpmsLoads(s, profile) ==
    IF Dpms \in IdleActionsOf[profile]
    THEN registerStandardIdleTimeout([s EXCEPT !.dpmsLoaded = TRUE])
    ELSE [s EXCEPT !.dpmsLoaded = FALSE]

-----------------------------------------------------------------------------
(* Profiles.                                                               *)

onResumingFromIdle(s, hs) ==
    LET u == simulateUserActivity(s)
        v == IF Dim \in u.pending THEN DimWakes(u) ELSE u
        w == IF Dpms \in v.pending THEN DpmsWakes(v, hs) ELSE v
    IN [w EXCEPT !.pending = {}]

unloadAllActiveActions(s) ==
    [s EXCEPT !.registered = [a \in Actions |-> IF a \in s.active THEN 0 ELSE @[a]],
              !.own = [a \in Actions |-> IF a \in s.active THEN 0 ELSE @[a]],
              !.dpmsLoaded = @ /\ Dpms \notin s.active,
              !.active = {}]

\* KeyboardBrightnessControl: a more conservative profile does not brighten.
KeyboardOnLoad(keyboard, previous, new) ==
    IF KeyboardOf[new] = Unset
       \/ (previous = "AC" /\ new = "Battery" /\ KeyboardOf[new] > keyboard)
    THEN keyboard ELSE KeyboardOf[new]

loadAllInactiveActions(s, previous, new) ==
    LET todo == s.pool \ s.active
        s1 == IF Dim \in todo THEN DimLoads(s, new) ELSE s
        s2 == IF Dpms \in todo THEN DpmsLoads(s1, new) ELSE s1
        s3 == IF Suspend \in todo \cap IdleActionsOf[new]
              THEN registerIdleTimeout(s2, Suspend) ELSE s2
    IN [s3 EXCEPT !.active = @ \cup (todo \cap IdleActionsOf[new])]

\* The change of the profile, with the keyboard action among those loaded.
SwitchProfile(s, wake, hs, new) ==
    LET u == unloadAllActiveActions(s)
        v == IF wake THEN onResumingFromIdle(u, hs) ELSE u
        w == loadAllInactiveActions(v, s.profile, new)
    IN [w EXCEPT !.keyboard = KeyboardOnLoad(@, s.profile, new),
                 !.profile = new, !.profileActive = TRUE]

ProfileFor(p) == IF p THEN "AC" ELSE "Battery"

\* loadProfile: the activity's inhibition is released and asked for again.
LoadProfile(s, wake, force, new, q) ==
    LET hs == holders \ {"activity"}
        r == IF "activity" \in holders THEN refreshTimers(PoliciesChange(s, hs, locked)) ELSE s
    IN /\ d' = IF s.profile # new \/ force THEN SwitchProfile(r, wake, hs, new)
               ELSE IF wake THEN onResumingFromIdle(r, hs) ELSE r
       /\ holders' = hs /\ scheduled' = q

\* What the user would have without idleness.  A brightness that may not be
\* restored, or is forgotten, spoils that, and so does the brightness of a
\* profile that is loaded (`force': once more) while one is remembered.
Track(before, after, force) ==
    LET loads == before.profile # after.profile \/ force IN
    /\ wanted' = IF loads THEN KeyboardOnLoad(wanted, before.profile, after.profile) ELSE wanted
    /\ spoiled' = (spoiled
                   \/ (before.dpmsKeyboard > 0 /\ after.dpmsKeyboard = 0
                       /\ after.keyboard # before.dpmsKeyboard)
                   \/ (loads /\ KeyboardOf[after.profile] # Unset
                       /\ (before.dimmed \/ before.dpmsKeyboard > 0)))

Happens == events < MaxEvents /\ events' = events + 1

-----------------------------------------------------------------------------

Init ==
    /\ plugged = TRUE /\ activeSession = "ours" /\ seatChanged = FALSE
    /\ quiet = FALSE /\ asleep = FALSE
    /\ sdAvailable = TRUE /\ wasLast = TRUE /\ locked = FALSE /\ holders = {} /\ scheduled = FALSE
    /\ \E pool \in {Actions, Actions \ {Dpms}} :
       d = loadAllInactiveActions(
             [registered |-> Nothing, own |-> Nothing, fired |-> {}, pending |-> {},
              catching |-> FALSE, resuming |-> FALSE,
              pool |-> pool, active |-> {}, profile |-> "AC", profileActive |-> TRUE,
              dimmed |-> FALSE, dimKeyboard |-> 0, restore |-> FALSE, ratio |-> FALSE,
              dpmsLoaded |-> FALSE, activatingLock |-> FALSE, suspending |-> FALSE,
              dpmsKeyboard |-> 0, off |-> FALSE,
              keyboard |-> IF KeyboardOf["AC"] = Unset THEN KeyboardMax ELSE KeyboardOf["AC"]],
             "AC", "AC")
    /\ wanted = d.keyboard /\ spoiled = FALSE /\ silent = FALSE
    /\ events = 0

(* Idleness and activity.                                                  *)

TimesOut(s, a) == CASE a = Dim -> DimTimesOut(s) [] a = Dpms -> DpmsTimesOut(s) [] OTHER -> s

onKIdleTimeoutReached(a) ==
    /\ ~asleep /\ ~d.restore /\ ~d.resuming
    /\ d.registered[a] > 0 /\ a \notin d.fired
    /\ d' = [TimesOut(d, a) EXCEPT !.fired = @ \cup {a}, !.pending = @ \cup {a}, !.catching = TRUE]
    /\ UNCHANGED <<world, agent, history, events>>

\* The user does something; the compositor turns the screens on.
UserActivity ==
    /\ ~asleep /\ (d.fired # {} \/ d.off)
    /\ d' = [simulateUserActivity(d) EXCEPT !.off = FALSE]
    /\ UNCHANGED <<world, agent, history, events>>

ResumingFromIdle ==
    /\ ~asleep /\ d.resuming
    /\ LET u == onResumingFromIdle([d EXCEPT !.resuming = FALSE], holders) IN
       d' = u /\ Track(d, u, FALSE)
    /\ UNCHANGED <<world, agent, silent, events>>

\* The zero timer of DimDisplay::onWakeupFromIdle.
RestoreBrightness ==
    /\ ~asleep /\ d.restore
    /\ d' = [RestoreKeyboard(d) EXCEPT !.ratio = FALSE, !.restore = FALSE]
    /\ UNCHANGED <<world, agent, history, events>>

\* The D-Bus call of a program that wants the user's attention.
wakeup ==
    /\ ~asleep /\ ~d.restore /\ Happens
    /\ LET u == onResumingFromIdle(d, holders) IN
       /\ d' = IF Dpms \in d.pool /\ MayChangeScreen(holders) THEN [u EXCEPT !.off = FALSE] ELSE u
       /\ Track(d, u, FALSE)
    /\ UNCHANGED <<world, agent, silent>>

-----------------------------------------------------------------------------
(* What else happens, while the zero timer is not due.                     *)

onAcAdapterStateChanged ==
    /\ ~d.restore /\ ~asleep /\ Happens
    /\ plugged' = ~plugged
    /\ LoadProfile(d, TRUE, FALSE, ProfileFor(~plugged), quiet)
    /\ Track(d, d', FALSE)
    /\ UNCHANGED <<activeSession, seatChanged, quiet, asleep, sdAvailable, wasLast, locked, silent>>

\* The configuration may have changed.
refreshStatus ==
    /\ ~d.restore /\ ~asleep /\ Happens
    /\ LoadProfile(d, FALSE, TRUE, ProfileFor(plugged), quiet)
    /\ Track(d, d', TRUE)
    /\ UNCHANGED <<world, sdAvailable, wasLast, locked, silent>>

currentActivityChanged ==
    /\ ~d.restore /\ ~asleep /\ Happens
    /\ quiet' = ~quiet
    /\ LoadProfile(d, FALSE, FALSE, ProfileFor(plugged), ~quiet)
    /\ Track(d, d', FALSE)
    /\ UNCHANGED <<plugged, activeSession, seatChanged, asleep, sdAvailable, wasLast, locked, silent>>

\* Inhibitions come into force and end.
HoldersChange(hs) ==
    /\ holders' = hs
    /\ d' = refreshTimers(PoliciesChange(d, hs, locked))

InhibitionsChanged ==
    /\ ~d.restore /\ ~asleep
    /\ \/ Happens /\ HoldersChange(holders \cup {"app"}) /\ UNCHANGED scheduled
       \/ HoldersChange(holders \ {"app"}) /\ "app" \in holders /\ UNCHANGED <<scheduled, events>>
       \/ /\ scheduled /\ scheduled' = FALSE
          /\ HoldersChange(holders \cup {"activity"})
          /\ UNCHANGED events
    /\ UNCHANGED <<world, sdAvailable, wasLast, locked, history>>

onScreenLockerActiveChanged ==
    /\ ~d.restore /\ ~asleep /\ Happens
    /\ locked' = ~locked
    /\ d' = PoliciesChange(DpmsOnLocker(d, ~locked), holders, ~locked)
    /\ UNCHANGED <<world, sdAvailable, wasLast, holders, scheduled, history>>

\* logind switches sessions ...
SwitchSession(to) ==
    /\ Happens /\ to # activeSession
    /\ activeSession' = to /\ seatChanged' = sdAvailable
    /\ UNCHANGED <<plugged, quiet, asleep, agent, d, history>>

\* The handler of sessionActiveChanged: another session is active now.
SessionInactive ==
    /\ d' = [d EXCEPT !.registered = Nothing, !.profileActive = FALSE]
    /\ UNCHANGED <<holders, scheduled, wanted, spoiled>>

\* The agent has read which session is active; it ignores a seat without one.
ActiveSessionIs(session) ==
    \/ /\ session = "none" \/ wasLast = (session = "ours")
       /\ UNCHANGED <<wasLast, holders, scheduled, d, wanted, spoiled>>
    \/ /\ session = "ours" /\ ~wasLast
       /\ wasLast' = TRUE
       /\ LoadProfile(d, FALSE, TRUE, ProfileFor(plugged), quiet)
       /\ Track(d, d', TRUE)
    \/ /\ session = "other" /\ wasLast
       /\ wasLast' = FALSE
       /\ SessionInactive

\* ... and the agent reads which one is active now.
onActiveSessionChanged ==
    /\ ~d.restore /\ ~asleep
    /\ seatChanged /\ seatChanged' = FALSE
    /\ ActiveSessionIs(activeSession)
    /\ UNCHANGED <<plugged, activeSession, quiet, asleep, sdAvailable, locked, silent, events>>

\* logind ends, and what it announced is lost; it comes back.
onSessionHandlerUnregistered ==
    /\ ~asleep /\ sdAvailable /\ Happens
    /\ sdAvailable' = FALSE /\ seatChanged' = FALSE
    /\ UNCHANGED <<plugged, activeSession, quiet, asleep, wasLast, locked, holders,
                   scheduled, d, history>>

onSessionHandlerRegistered ==
    /\ ~d.restore /\ ~asleep
    /\ ~sdAvailable /\ sdAvailable' = TRUE
    /\ ActiveSessionIs(activeSession)
    /\ UNCHANGED <<world, locked, silent, events>>

\* Screens that can be turned off come and go.
refreshActions ==
    /\ ~d.restore /\ ~asleep /\ Happens
    /\ \/ /\ Dpms \in d.pool
          /\ d' = [destroyAction(d, Dpms) EXCEPT
                     !.pool = @ \ {Dpms}, !.active = @ \ {Dpms}, !.pending = @ \ {Dpms},
                     !.dpmsLoaded = FALSE, !.activatingLock = FALSE, !.dpmsKeyboard = 0]
       \/ /\ Dpms \notin d.pool
          /\ LET u == [d EXCEPT !.pool = @ \cup {Dpms}] IN
             d' = IF d.profileActive THEN loadAllInactiveActions(u, d.profile, d.profile) ELSE u
    /\ Track(d, d', FALSE)
    /\ UNCHANGED <<world, agent, silent>>

onAboutToSuspend ==
    /\ ~d.restore /\ ~asleep /\ Happens
    /\ asleep' = TRUE
    /\ d' = IF Dpms \in d.pool
            THEN [unregisterIdleTimeouts(d, Dpms) EXCEPT !.suspending = TRUE, !.off = TRUE]
            ELSE d
    /\ UNCHANGED <<plugged, activeSession, seatChanged, quiet, agent, history>>

\* The screens are turned on only if the user woke the computer.
onResumeFromSuspend(byUser) ==
    /\ asleep /\ asleep' = FALSE
    /\ silent' = ~byUser
    /\ LET u == simulateUserActivity([d EXCEPT !.suspending = FALSE]) IN
       d' = IF byUser /\ Dpms \in d.pool
            THEN [registerStandardIdleTimeout(u) EXCEPT !.off = FALSE] ELSE u
    /\ UNCHANGED <<plugged, activeSession, seatChanged, quiet, agent, wanted, spoiled, events>>

-----------------------------------------------------------------------------

Next ==
    \/ \E a \in Actions : onKIdleTimeoutReached(a)
    \/ UserActivity \/ ResumingFromIdle \/ RestoreBrightness \/ wakeup
    \/ onAcAdapterStateChanged \/ refreshStatus \/ currentActivityChanged
    \/ InhibitionsChanged \/ onScreenLockerActiveChanged
    \/ \E to \in {"ours", "other", "none"} : SwitchSession(to)
    \/ onActiveSessionChanged \/ onSessionHandlerUnregistered \/ onSessionHandlerRegistered
    \/ refreshActions \/ onAboutToSuspend
    \/ \E byUser \in BOOLEAN : onResumeFromSuspend(byUser)

Spec == Init /\ [][Next]_vars

-----------------------------------------------------------------------------
(* Properties.                                                             *)

\* A dimmed screen will be restored: the action knows that it dimmed it and
\* the next activity is passed on to it, or the restore is queued.  Core
\* keeps these apart (m_pendingResumeFromIdleActions, catchNextResumeEvent),
\* and profiles, sessions and suspends come in between.
DimmingWillEnd ==
    d.ratio => \/ d.restore
               \/ d.dimmed /\ Dim \in d.pending /\ (d.catching \/ d.resuming)

\* The keyboard the two actions turn off is on again after activity, unless
\* a policy forbade it just then, the profile's own brightness came in
\* between or the action was destroyed.
KeyboardComesBack ==
    (d.pending = {} /\ ~d.restore /\ ~d.resuming /\ ~spoiled) => d.keyboard = wanted

\* No timeout is registered twice, and in the active session an action that
\* is loaded has its timeout, the one KIdleTime knows being the one the
\* action knows; the screen-off action has none from a suspend or a lock
\* during it until the user wakes the computer.
TimeoutsInPlace ==
    /\ \A a \in Actions : d.registered[a] <= 1 /\ d.own[a] <= 1
    /\ wasLast => \A a \in d.active :
                    /\ d.registered[a] = d.own[a]
                    /\ d.own[a] = 0 => a = Dpms /\ (asleep \/ silent)
=============================================================================
