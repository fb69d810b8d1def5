---------------------------- MODULE CriticalBattery ----------------------------
(***************************************************************************)
(* The battery warnings of PowerDevil::Core (daemon/powerdevilcore.cpp)    *)
(* and the AC adapter state they depend on                                 *)
(* (daemon/controllers/batterycontroller.cpp).  When the summed charge     *)
(* falls to the critical level a persistent notification announces the     *)
(* configured action and a 60 s single-shot timer performs it; plugging    *)
(* in, charging, an extra battery, a new configuration or the user may     *)
(* stop it.                                                                *)
(*                                                                         *)
(* All handlers run on one thread, each to its end.  What interleaves is   *)
(* UPower's signals (delivered late, and overtaken by the blocking read    *)
(* that follows a resume), the timer, the user's answers to notifications  *)
(* and the settings file, which changes before the daemon is told to read  *)
(* it.                                                                     *)
(*                                                                         *)
(* Abstractions.  Loading a profile, the notifications that close by       *)
(* themselves and the texts are left out.  Of the notifications that are   *)
(* still on the screen though no pointer refers to them, only their kinds  *)
(* are kept.                                                               *)
(***************************************************************************)
EXTENDS Naturals, Integers, Sequences, FiniteSets, Functions

CONSTANTS Batteries,      \* power supply batteries
          Peripherals,    \* batteries of mice, keyboards, headsets...
          Percents,       \* charge percentages batteries report
          Settings,       \* contents the configuration file may have
          MaxSignals,     \* bound: UPower signals under way
          Invalidates     \* may a signal invalidate OnBattery, without its value?

\* BatteryLowLevel, BatteryCriticalLevel, and whether BatteryCriticalAction
\* is one of shutdown, hibernate and sleep; the settings page keeps the
\* critical level at most the low one.
ASSUME SettingsAssumption ==
    /\ IsFiniteSet(Batteries) /\ Batteries \cap Peripherals = {}
    /\ Percents \subseteq 0 .. 100
    /\ Settings \subseteq {s \in [low : 0 .. 100, critical : 0 .. 100, acts : BOOLEAN] :
                              s.critical <= s.low}
    /\ MaxSignals \in Nat
    /\ Invalidates \in BOOLEAN

\* The "previous percentage" that is higher than every current one.
Startup == 1000

Kinds == {"countdown", "plain"}

VARIABLES
    \* the environment
    upowerOnBattery,     \* OnBattery of UPower
    acSignals,           \* PropertiesChanged signals under way, with its values
    configured,          \* what the configuration file holds
    \* BatteryController
    acAdapterState,      \* m_acAdapterState
    onBattery,           \* m_onBattery
    \* Core
    settings,            \* m_globalSettings as last loaded
    percents,            \* m_batteriesPercent
    peripherals,         \* keys of m_peripheralBatteriesPercent
    notificationsReady,  \* m_notificationsReady
    warnings             \* the notifications and the timer, see below

acVars == <<upowerOnBattery, acSignals, acAdapterState, onBattery>>
batteryVars == <<percents, peripherals>>
configVars == <<configured, settings>>
vars == <<acVars, configVars, batteryVars, notificationsReady, warnings>>

\* low: m_lowBatteryNotification is open; critical: the kind of the one
\* m_criticalBatteryNotification points to; orphans: the kinds of critical
\* notifications that are open but no longer pointed to; timer:
\* m_criticalBatteryTimer is active; answer: what became of the last warning.
Warnings == [low : BOOLEAN, critical : Kinds \cup {"none"}, orphans : SUBSET Kinds,
             timer : BOOLEAN, answer : {"none", "dismissed", "cancelled", "acted"}]

AcState(battery) == IF battery THEN "Unplugged" ELSE "Plugged"

-----------------------------------------------------------------------------
(* The functions the handlers share, on a value w of `warnings' *)

currentChargePercent == SumFunction(percents)

\* Mutant: the notification is closed, the timer goes on.
closeCriticalOnly(w) == [w EXCEPT !.critical = "none"]

cancelCriticalBatteryNotification(w) == [w EXCEPT !.timer = FALSE, !.critical = "none"]

closeLow(w) == [w EXCEPT !.low = FALSE]

ClearFor(w, percent, s) ==
    LET low == IF percent > s.low THEN closeLow(w) ELSE w
    IN  IF percent > s.critical THEN cancelCriticalBatteryNotification(low) ELSE low

updateBatteryNotifications(w, percent) == ClearFor(w, percent, settings)

handleLowBattery(w, percent) ==
    IF w.low THEN w ELSE updateBatteryNotifications([w EXCEPT !.low = TRUE], percent)

\* The new notification replaces the pointer to the previous one; only the
\* actions that end the session's work start the timer.
handleCriticalBattery(w, percent) ==
    LET opened == [w EXCEPT !.low = FALSE,
                            !.critical = IF settings.acts THEN "countdown" ELSE "plain",
                            !.orphans = @ \cup ({w.critical} \ {"none"}),
                            !.answer = "none"]
        updated == updateBatteryNotifications(opened, percent)
    IN  IF settings.acts THEN [updated EXCEPT !.timer = TRUE] ELSE updated

FallsTo(level, current, previous) == current <= level /\ previous > level

\* Whether emitBatteryChargePercentNotification returns true.
Warns(current, previous, notifyWhenAcPluggedIn) ==
    /\ acAdapterState = "Plugged" => notifyWhenAcPluggedIn
    /\ \/ FallsTo(settings.critical, current, previous)
       \/ FallsTo(settings.low, current, previous)

\* emitBatteryChargePercentNotification for the power supply batteries.
emitBatteryChargePercent(w, current, previous, notifyWhenAcPluggedIn) ==
    LET updated == updateBatteryNotifications(w, current)
    IN  CASE ~Warns(current, previous, notifyWhenAcPluggedIn) -> updated
          [] OTHER -> IF FallsTo(settings.critical, current, previous)
                      THEN handleCriticalBattery(updated, current)
                      ELSE handleLowBattery(updated, current)

AcAdapterStateChanged(w, state) ==
    IF state = "Plugged" THEN cancelCriticalBatteryNotification(closeLow(w)) ELSE w

-----------------------------------------------------------------------------
(* Handlers *)

Init ==
    /\ upowerOnBattery \in BOOLEAN /\ acSignals = <<>>
    /\ onBattery = upowerOnBattery /\ acAdapterState = AcState(upowerOnBattery)
    /\ configured \in Settings /\ settings = configured
    /\ \E known \in SUBSET Batteries : percents \in [known -> Percents]
    /\ peripherals \in SUBSET Peripherals
    /\ notificationsReady = FALSE
    /\ warnings = [low |-> FALSE, critical |-> "none", orphans |-> {},
                   timer |-> FALSE, answer |-> "none"]

onDeviceAdded(d) ==
    /\ d \notin DOMAIN percents \cup peripherals
    /\ IF d \in Batteries
       THEN /\ \E p \in Percents :
                  percents' = [b \in DOMAIN percents \cup {d} |->
                                  IF b = d THEN p ELSE percents[b]]
            /\ UNCHANGED peripherals
       ELSE /\ peripherals' = peripherals \cup {d}
            /\ UNCHANGED percents
    /\ warnings' = ClearFor(warnings, SumFunction(percents'), settings)
    /\ UNCHANGED <<acVars, configVars, notificationsReady>>

onDeviceRemoved(d) ==
    /\ d \in DOMAIN percents \cup peripherals
    /\ percents' = Restrict(percents, DOMAIN percents \ {d})
    /\ peripherals' = peripherals \ {d}
    /\ UNCHANGED <<acVars, configVars, notificationsReady, warnings>>

\* Solid reports a new percentage of a power supply battery.
onBatteryChargePercentChanged(b, percent) ==
    LET previous == currentChargePercent
        current  == previous - (percents[b] - percent)
    IN  /\ b \in DOMAIN percents /\ percent # percents[b]
        /\ percents' = [percents EXCEPT ![b] = percent]
        /\ warnings' = IF current < previous
                       THEN emitBatteryChargePercent(warnings, current, previous, TRUE)
                       ELSE updateBatteryNotifications(warnings, current)
        /\ UNCHANGED <<acVars, configVars, peripherals, notificationsReady>>

\* The notification service is up, or 30 s have passed.  A low peripheral
\* battery asks for a refresh too.
onServiceRegistered ==
    LET warns  == Warns(currentChargePercent, Startup, FALSE)
        warned == emitBatteryChargePercent(warnings, currentChargePercent, Startup, FALSE)
    IN  /\ ~notificationsReady
        /\ notificationsReady' = TRUE
        /\ \E needsRefresh \in BOOLEAN :
              /\ warns => needsRefresh
              /\ needsRefresh => warns \/ peripherals # {}
              /\ IF needsRefresh
                 THEN /\ settings' = configured
                      /\ warnings' = ClearFor(warned, currentChargePercent, configured)
                 ELSE /\ UNCHANGED settings
                      /\ warnings' = warned
        /\ UNCHANGED <<acVars, configured, batteryVars>>

\* The screen is unlocked: warn again.
onScreenLockerActiveChanged ==
    /\ warnings' = emitBatteryChargePercent(warnings, currentChargePercent, Startup, FALSE)
    /\ UNCHANGED <<acVars, configVars, batteryVars, notificationsReady>>

\* The system resumed: warn again, then BatteryController::updateAcAdapterState
\* reads UPower's present state, which leaves m_onBattery alone.
onResumeFromSuspend ==
    LET warned == emitBatteryChargePercent(warnings, currentChargePercent, Startup, FALSE)
        state  == AcState(upowerOnBattery)
    IN  /\ acAdapterState' = state
        /\ warnings' = IF state = acAdapterState THEN warned
                       ELSE AcAdapterStateChanged(warned, state)
        /\ UNCHANGED <<upowerOnBattery, acSignals, onBattery, configVars, batteryVars,
                       notificationsReady>>

ReadBack == IF Invalidates THEN {upowerOnBattery} ELSE {}

\* Mutant: a change the adapter state shows already is not news.
onPropertiesUnlikeState ==
    /\ acSignals # <<>>
    /\ acSignals' = Tail(acSignals)
    /\ IF AcState(Head(acSignals)) = acAdapterState
       THEN UNCHANGED <<onBattery, acAdapterState, warnings>>
       ELSE /\ onBattery' = Head(acSignals)
            /\ acAdapterState' = AcState(Head(acSignals))
            /\ warnings' = AcAdapterStateChanged(warnings, AcState(Head(acSignals)))
    /\ UNCHANGED <<upowerOnBattery, configVars, batteryVars, notificationsReady>>

\* BatteryController::onPropertiesChanged with a value in changedProps, or the
\* property invalidated and read back.
onPropertiesChanged ==
    /\ acSignals # <<>>
    /\ acSignals' = Tail(acSignals)
    /\ \E value \in {Head(acSignals)} \cup ReadBack :
          IF value = onBattery
          THEN UNCHANGED <<onBattery, acAdapterState, warnings>>
          ELSE /\ onBattery' = value
               /\ acAdapterState' = AcState(value)
               /\ warnings' = AcAdapterStateChanged(warnings, AcState(value))
    /\ UNCHANGED <<upowerOnBattery, configVars, batteryVars, notificationsReady>>

\* Mutant: the timer performs the action on AC instead of on battery.
expireOnAc ==
    LET closed == cancelCriticalBatteryNotification(warnings)
    IN  /\ warnings.timer
        /\ warnings' = IF acAdapterState = "Plugged"
                          /\ currentChargePercent <= settings.critical
                       THEN [closed EXCEPT !.answer = "acted"] ELSE closed
        /\ UNCHANGED <<acVars, configVars, batteryVars, notificationsReady>>

onCriticalBatteryTimerExpired ==
    LET closed == cancelCriticalBatteryNotification(warnings)
    IN  /\ warnings.timer
        /\ warnings' = IF acAdapterState = "Unplugged"
                          /\ currentChargePercent <= settings.critical
                       THEN [closed EXCEPT !.answer = "acted"] ELSE closed
        /\ UNCHANGED <<acVars, configVars, batteryVars, notificationsReady>>

\* refreshStatus over D-Bus, after the settings page saved.
reparseConfiguration ==
    /\ settings' = configured
    /\ warnings' = ClearFor(warnings, currentChargePercent, configured)
    /\ UNCHANGED <<acVars, configured, batteryVars, notificationsReady>>

-----------------------------------------------------------------------------
(* The user, at a critical notification of kind k; the last one of its kind *)
(* that is closed leaves the screen.                                        *)

\* A notification of kind k leaves the screen, w being the rest of the change.
Close(w, k) ==
    \/ w.critical = k /\ warnings' = [w EXCEPT !.critical = "none"]
    \/ k \in w.orphans /\ warnings' = [w EXCEPT !.orphans = @ \ {k}]

\* "Shut Down Now", "Hibernate Now", "Sleep Now": the timer keeps running.
triggerCriticalBatteryAction ==
    /\ Close([warnings EXCEPT !.answer = "acted"], "countdown")
    /\ UNCHANGED <<acVars, configVars, batteryVars, notificationsReady>>

\* "Cancel", on the current notification or on an orphan of kind k.
CancelButton(k) ==
    LET cancelled == [cancelCriticalBatteryNotification(warnings) EXCEPT !.answer = "cancelled"]
    IN  /\ \/ warnings.critical = k /\ warnings' = cancelled
           \/ k \in warnings.orphans /\ warnings' = [cancelled EXCEPT !.orphans = @ \ {k}]
        /\ UNCHANGED <<acVars, configVars, batteryVars, notificationsReady>>

\* The notification is closed without an answer: the timer keeps running.
DismissCritical(k) ==
    /\ Close([warnings EXCEPT !.answer = IF @ = "none" THEN "dismissed" ELSE @], k)
    /\ UNCHANGED <<acVars, configVars, batteryVars, notificationsReady>>

DismissLow ==
    /\ warnings.low
    /\ warnings' = closeLow(warnings)
    /\ UNCHANGED <<acVars, configVars, batteryVars, notificationsReady>>

SaveSettings(s) ==
    /\ configured' = s
    /\ UNCHANGED <<acVars, settings, batteryVars, notificationsReady, warnings>>

\* The power cord: UPower changes OnBattery and says so.
PowerCord ==
    /\ Len(acSignals) < MaxSignals
    /\ upowerOnBattery' = ~upowerOnBattery
    /\ acSignals' = Append(acSignals, ~upowerOnBattery)
    /\ UNCHANGED <<acAdapterState, onBattery, configVars, batteryVars, notificationsReady,
                   warnings>>

-----------------------------------------------------------------------------

User ==
    \/ triggerCriticalBatteryAction
    \/ \E k \in Kinds : CancelButton(k) \/ DismissCritical(k)
    \/ DismissLow
    \/ \E s \in Settings : SaveSettings(s)
    \/ PowerCord

Next ==
    \/ \E d \in Batteries \cup Peripherals : onDeviceAdded(d) \/ onDeviceRemoved(d)
    \/ \E b \in Batteries, p \in Percents : onBatteryChargePercentChanged(b, p)
    \/ onServiceRegistered
    \/ onScreenLockerActiveChanged
    \/ onResumeFromSuspend
    \/ onPropertiesChanged
    \/ onCriticalBatteryTimerExpired
    \/ reparseConfiguration
    \/ User

Spec == Init /\ [][Next]_vars

\* The timer fires, and signals are read.
FairSpec == Spec /\ WF_vars(onCriticalBatteryTimerExpired) /\ WF_vars(onPropertiesChanged)

-----------------------------------------------------------------------------
(* Properties *)

TypeOK ==
    /\ upowerOnBattery \in BOOLEAN /\ acSignals \in Seq(BOOLEAN)
    /\ acAdapterState \in {"Plugged", "Unplugged"} /\ onBattery \in BOOLEAN
    /\ configured \in Settings /\ settings \in Settings
    /\ DOMAIN percents \subseteq Batteries /\ Range(percents) \subseteq Percents
    /\ peripherals \subseteq Peripherals
    /\ notificationsReady \in BOOLEAN
    /\ warnings \in Warnings

OnBatteryAndCritical ==
    acAdapterState = "Unplugged" /\ currentChargePercent <= settings.critical

\* The current notification says "in 60 seconds" only while the timer runs,
\* and the timer runs silently only after the user closed the notification.
CountdownIsAnnounced ==
    /\ warnings.critical = "countdown" => warnings.timer
    /\ warnings.timer => warnings.critical # "none" \/ warnings.answer # "none"

\* Once every signal of UPower was read, both copies of the AC state in
\* BatteryController agree with UPower, though a resume updates only one.
\* (With Invalidates it fails: a resume reads one change, the signals of that
\* change and of the next one are then both read back as the latter.)
AcStateSettles ==
    acSignals = <<>> => onBattery = upowerOnBattery /\ acAdapterState = AcState(upowerOnBattery)

\* A countdown ends in the critical action unless the user cancelled it, the
\* charger was connected or the charge is no longer critical.
CountdownConcludes ==
    warnings.timer ~> (warnings.answer \in {"acted", "cancelled"} \/ ~OnBatteryAndCritical)
=============================================================================
