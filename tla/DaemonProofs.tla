----------------------------- MODULE DaemonProofs -----------------------------
(***************************************************************************)
(* Proofs about parts of the daemon that stand for themselves: battery     *)
(* warnings with the critical action (CriticalBattery), for any batteries, *)
(* settings and number of signals under way; the scheduled wakeups         *)
(* (WakeupScheduler), for any number of requests and any span of time;     *)
(* the lid and suspending (LidAndButtons), for any actions of the          *)
(* profiles, any nesting of requests and any number of events; the         *)
(* brightness of the built-in screen (BacklightBrightness) and that it     *)
(* implements BrightnessPromise, for any number of levels, requests and    *)
(* changes by other programs; and the limits of charging                   *)
(* (ChargeThresholds), for any number of batteries and whatever each of    *)
(* them supports.                                                          *)
(*                                                                         *)
(* The AC adapter state is kept twice: m_acAdapterState, which a resume    *)
(* refreshes from UPower, and m_onBattery, which only signals change and   *)
(* which decides whether a signal is news.  The inductive invariant        *)
(* describes the signals between the two: they alternate, the first one    *)
(* differs from m_onBattery and the last one is UPower's state.            *)
(*                                                                         *)
(* The countdown depends on comparing the summed charge with the levels,   *)
(* so the proof needs that the sum is a number: SumIsInteger, by induction *)
(* on the number of batteries (LeastNumber).                               *)
(*                                                                         *)
(* For the wakeups the inductive invariant adds to the properties that     *)
(* cookies in use were handed out, and that a readable timerfd is a        *)
(* watched one.                                                            *)
(*                                                                         *)
(* For the built-in screen it says what an event under way will make of    *)
(* the brightness: once a job has written, a brightness that is not the    *)
(* executed one will be reported, or there was doubt.                      *)
(*                                                                         *)
(* PageInv follows a save through its jobs: what the page asked for is     *)
(* what the kernel has once the helper has done it, and is not yet what    *)
(* the page takes for saved.  DaemonInv follows the readings: the last     *)
(* answer under way is what the kernel has, unless it was written since    *)
(* the daemon asked last, and then it will be asked again.                 *)
(***************************************************************************)
EXTENDS CriticalBattery, WakeupScheduler, LidAndButtons, BacklightBrightness, ChargeThresholds,
        FiniteSetTheorems, WellFoundedInduction, TLAPS

Alternates(signals) ==
    \A i \in 1 .. Len(signals) - 1 : signals[i + 1] # signals[i]

AcInv ==
    /\ upowerOnBattery \in BOOLEAN /\ onBattery \in BOOLEAN
    /\ acSignals \in Seq(BOOLEAN)
    /\ Alternates(acSignals)
    /\ acSignals # <<>> => /\ acSignals[1] # onBattery
                           /\ acSignals[Len(acSignals)] = upowerOnBattery
    /\ AcStateSettles

\* The step of UPower: the new signal differs from the one before it.
LEMMA PowerCordKeepsAcInv ==
    ASSUME AcInv, PowerCord
    PROVE  AcInv'
  <1>1. /\ upowerOnBattery' = ~upowerOnBattery
        /\ acSignals' = Append(acSignals, ~upowerOnBattery)
        /\ UNCHANGED <<acAdapterState, onBattery>>
    BY DEF PowerCord
  <1>2. acSignals' \in Seq(BOOLEAN) /\ acSignals' # <<>>
    BY <1>1 DEF AcInv
  <1>3. acSignals'[Len(acSignals')] = upowerOnBattery'
    BY <1>1 DEF AcInv
  <1>4. acSignals'[1] # onBattery'
    <2>1. CASE acSignals = <<>>
      BY <1>1, <2>1 DEF AcInv, AcStateSettles
    <2>2. CASE acSignals # <<>>
      BY <1>1, <2>2 DEF AcInv
    <2> QED
      BY <2>1, <2>2
  <1>5. Alternates(acSignals')
    <2> SUFFICES ASSUME NEW i \in 1 .. Len(acSignals') - 1
                 PROVE  acSignals'[i + 1] # acSignals'[i]
      BY DEF Alternates
    <2>1. CASE i < Len(acSignals)
      BY <1>1, <2>1 DEF AcInv, Alternates
    <2>2. CASE i = Len(acSignals)
      BY <1>1, <2>2 DEF AcInv
    <2> QED
      BY <1>1, <2>1, <2>2 DEF AcInv
  <1> QED
    BY <1>1, <1>2, <1>3, <1>4, <1>5 DEF AcInv, AcStateSettles

\* Reading a signal: it is always news, as the signals alternate.
LEMMA SignalKeepsAcInv ==
    ASSUME AcInv, ~Invalidates, onPropertiesChanged
    PROVE  AcInv'
  <1>1. acSignals # <<>> /\ acSignals' = Tail(acSignals) /\ upowerOnBattery' = upowerOnBattery
    BY DEF onPropertiesChanged
  <1>2. Head(acSignals) = acSignals[1] /\ acSignals[1] # onBattery /\ acSignals[1] \in BOOLEAN
    BY <1>1 DEF AcInv
  <1>3. onBattery' = acSignals[1] /\ acAdapterState' = AcState(acSignals[1])
    BY <1>2 DEF onPropertiesChanged, ReadBack
  <1>4. acSignals' \in Seq(BOOLEAN) /\ Len(acSignals') = Len(acSignals) - 1
        /\ \A i \in 1 .. Len(acSignals') : acSignals'[i] = acSignals[i + 1]
    BY <1>1 DEF AcInv
  <1>5. Alternates(acSignals')
    BY <1>4 DEF AcInv, Alternates
  <1>6. acSignals' # <<>> => /\ acSignals'[1] # onBattery'
                             /\ acSignals'[Len(acSignals')] = upowerOnBattery'
    BY <1>1, <1>3, <1>4 DEF AcInv, Alternates
  <1>7. acSignals' = <<>> => acSignals[1] = upowerOnBattery
    <2> SUFFICES ASSUME acSignals' = <<>> PROVE acSignals[1] = upowerOnBattery
      OBVIOUS
    <2>1. Len(acSignals') = 0 /\ Len(acSignals) \in Nat
      BY DEF AcInv
    <2>2. Len(acSignals) = 1
      BY <1>4, <2>1
    <2> QED
      BY <1>1, <2>2 DEF AcInv
  <1>8. AcStateSettles'
    BY <1>1, <1>3, <1>7 DEF AcStateSettles, AcState
  <1> QED
    BY <1>1, <1>2, <1>3, <1>4, <1>5, <1>6, <1>8 DEF AcInv

\* A resume reads what UPower says now, whatever is under way.
LEMMA ResumeKeepsAcInv ==
    ASSUME AcInv, onResumeFromSuspend
    PROVE  AcInv'
  BY DEF AcInv, AcStateSettles, AcState, Alternates, onResumeFromSuspend

\* Every other handler leaves the AC state alone.
LEMMA OtherStepsKeepAcVars ==
    ASSUME [Next]_vars, ~PowerCord, ~onPropertiesChanged, ~onResumeFromSuspend
    PROVE  UNCHANGED acVars
  <1>1. CASE User
    BY <1>1 DEF User, triggerCriticalBatteryAction, CancelButton, DismissCritical,
               DismissLow, SaveSettings
  <1>2. CASE ~User
    BY <1>2 DEF Next, onDeviceAdded, onDeviceRemoved, onBatteryChargePercentChanged,
               onServiceRegistered, onScreenLockerActiveChanged,
               onCriticalBatteryTimerExpired, reparseConfiguration, vars
  <1> QED
    BY <1>1, <1>2

\* If UPower's signals carry the value (it never invalidates OnBattery), then
\* the daemon's AC state, on which the critical action depends, is UPower's
\* once all signals were read, however resumes and changes were interleaved.
THEOREM AcStateCorrect ==
    ASSUME ~Invalidates
    PROVE  Spec => []AcStateSettles
  <1>1. Init => AcInv
    BY DEF Init, AcInv, AcStateSettles, Alternates
  <1>2. AcInv /\ [Next]_vars => AcInv'
    <2> SUFFICES ASSUME AcInv, [Next]_vars PROVE AcInv'
      OBVIOUS
    <2>1. CASE PowerCord
      BY <2>1, PowerCordKeepsAcInv
    <2>2. CASE onPropertiesChanged
      BY <2>2, SignalKeepsAcInv
    <2>3. CASE onResumeFromSuspend
      BY <2>3, ResumeKeepsAcInv
    <2>4. CASE UNCHANGED acVars
      BY <2>4 DEF AcInv, AcStateSettles, AcState, Alternates, acVars
    <2> QED
      BY <2>1, <2>2, <2>3, <2>4, OtherStepsKeepAcVars
  <1>3. AcInv => AcStateSettles
    BY DEF AcInv
  <1> QED
    BY <1>1, <1>2, <1>3, PTL DEF Spec
-----------------------------------------------------------------------------
(* Sums.                                                                   *)

\* Every set of natural numbers has a least one.
LEMMA LeastNumber ==
    ASSUME NEW B \in SUBSET Nat, B # {}
    PROVE  \E n \in B : \A m \in B : n <= m
  <1>1. PICK n \in B : \A m \in B : ~(<<m, n>> \in OpToRel(<, Nat))
    BY WFMin, NatLessThanWellFounded
  <1>2. \A m \in B : ~(m < n)
    BY <1>1 DEF OpToRel
  <1> QED
    BY <1>2

\* What SumFunction computes with.
IsSumOf(g, f, T) ==
    g = [s \in T |-> IF s = {} THEN 0
                     ELSE LET x == CHOOSE x \in s : TRUE IN f[x] + g[s \ {x}]]

LEMMA SumIs ==
    ASSUME NEW f
    PROVE  SumFunction(f) = (CHOOSE g : IsSumOf(g, f, SUBSET DOMAIN f))[DOMAIN f]
  BY DEF SumFunction, SumFunctionOnSet, FoldFunctionOnSet, MapThenFoldSet, IsSumOf

LEMMA SumExists ==
    ASSUME NEW S, IsFiniteSet(S), NEW f \in [S -> Int]
    PROVE  \E g : IsSumOf(g, f, SUBSET S)
  <1> DEFINE Upto(n) == {s \in SUBSET S : Cardinality(s) <= n}
             Pick(s) == CHOOSE x \in s : TRUE
             Bad == {n \in Nat : ~ \E g : IsSumOf(g, f, Upto(n))}
  <1>1. \A s \in SUBSET S : /\ Cardinality(s) \in Nat
                            /\ s = {} <=> Cardinality(s) = 0
                            /\ s # {} => /\ Pick(s) \in s /\ s \ {Pick(s)} \in SUBSET S
                                         /\ Cardinality(s \ {Pick(s)}) = Cardinality(s) - 1
    BY FS_Subset, FS_CardinalityType, FS_EmptySet, FS_RemoveElement
  <1> HIDE DEF Pick
  <1>2. Bad = {}
    <2> SUFFICES ASSUME Bad # {} PROVE FALSE
      OBVIOUS
    <2>1. PICK n \in Bad : \A m \in Bad : n <= m
      BY LeastNumber
    <2>2. CASE n = 0
      <3> DEFINE T == Upto(0)
                 g == [s \in T |-> 0]
      <3>0. ASSUME NEW s \in T PROVE s = {}
        <4>1. s \in SUBSET S /\ Cardinality(s) <= 0
          OBVIOUS
        <4>2. Cardinality(s) \in Nat /\ (Cardinality(s) = 0 => s = {})
          BY <1>1
        <4>3. Cardinality(s) = 0
          BY <4>1, <4>2
        <4> QED
          BY <4>2, <4>3
      <3> HIDE DEF T
      <3>1. IsSumOf(g, f, T)
        BY <3>0 DEF IsSumOf
      <3> QED
        BY <2>1, <2>2, <3>1 DEF T
    <2>3. CASE n # 0
      <3>1. PICK g : IsSumOf(g, f, Upto(n - 1))
        <4>1. n - 1 \in Nat /\ ~(n <= n - 1)
          BY <2>3
        <4> QED
          BY <2>1, <4>1
      <3> DEFINE T == Upto(n)
                 U == Upto(n - 1)
                 h == [s \in T |-> IF s = {} THEN 0 ELSE f[Pick(s)] + g[s \ {Pick(s)}]]
      <3>2. /\ g = [s \in U |-> IF s = {} THEN 0 ELSE f[Pick(s)] + g[s \ {Pick(s)}]]
            /\ n \in Nat
        BY <3>1 DEF IsSumOf, Pick
      <3>3. ASSUME NEW s \in U PROVE s \in T
        <4>1. s \in SUBSET S /\ Cardinality(s) <= n - 1 /\ Cardinality(s) \in Nat
          BY <1>1
        <4>2. Cardinality(s) <= n
          BY <3>2, <4>1
        <4> QED
          BY <4>1, <4>2
      <3>4. \A s \in T : s # {} => s \ {Pick(s)} \in U
        BY <1>1, <3>2
      <3>5. n \in Bad => ~IsSumOf(h, f, T)
        OBVIOUS
      <3> HIDE DEF T, U
      <3>6. \A s \in U : h[s] = g[s]
        BY <3>2, <3>3
      <3>7. h = [s \in T |-> IF s = {} THEN 0 ELSE f[Pick(s)] + h[s \ {Pick(s)}]]
        BY <3>4, <3>6
      <3>8. IsSumOf(h, f, T)
        BY <3>7 DEF IsSumOf, Pick
      <3> QED
        BY <2>1, <3>5, <3>8
    <2> QED
      BY <2>2, <2>3
  <1>3. Cardinality(S) \in Nat /\ Upto(Cardinality(S)) = SUBSET S
    BY FS_Subset, FS_CardinalityType
  <1> QED
    BY <1>2, <1>3

\* The sum of integers is an integer.
LEMMA SumIsInteger ==
    ASSUME NEW S, IsFiniteSet(S), NEW f \in [S -> Int]
    PROVE  SumFunction(f) \in Int
  <1> DEFINE g == CHOOSE g : IsSumOf(g, f, SUBSET S)
             Pick(s) == CHOOSE x \in s : TRUE
             Bad == {n \in Nat : \E s \in SUBSET S : Cardinality(s) = n /\ g[s] \notin Int}
  <1>1. IsSumOf(g, f, SUBSET S)
    BY SumExists
  <1> HIDE DEF g
  <1>2. \A s \in SUBSET S : g[s] = IF s = {} THEN 0 ELSE f[Pick(s)] + g[s \ {Pick(s)}]
    BY <1>1 DEF IsSumOf
  <1>3. \A s \in SUBSET S : /\ Cardinality(s) \in Nat
                            /\ s # {} => /\ Pick(s) \in s /\ s \ {Pick(s)} \in SUBSET S
                                         /\ Cardinality(s \ {Pick(s)}) = Cardinality(s) - 1
    BY FS_Subset, FS_CardinalityType, FS_RemoveElement
  <1> HIDE DEF Pick
  <1>4. Bad = {}
    <2> SUFFICES ASSUME Bad # {} PROVE FALSE
      OBVIOUS
    <2>1. PICK n \in Bad : \A m \in Bad : n <= m
      BY LeastNumber
    <2>2. PICK s \in SUBSET S : Cardinality(s) = n /\ g[s] \notin Int
      BY <2>1
    <2>3. s # {}
      <3>1. s = {} => g[s] = 0
        BY <1>2
      <3> QED
        BY <2>2, <3>1
    <2> DEFINE t == s \ {Pick(s)}
    <2>4. /\ t \in SUBSET S /\ Cardinality(t) = n - 1 /\ n \in Nat /\ Cardinality(t) \in Nat
          /\ Pick(s) \in S
      BY <1>3, <2>2, <2>3
    <2>5. g[s] = f[Pick(s)] + g[t] /\ f[Pick(s)] \in Int
      BY <1>2, <2>3, <2>4
    <2> HIDE DEF t
    <2>6. g[t] \in Int
      <3>1. n - 1 \in Nat /\ ~(n <= n - 1)
        BY <2>4
      <3>2. n - 1 \notin Bad
        BY <2>1, <3>1
      <3> QED
        BY <2>4, <3>1, <3>2
    <2> QED
      BY <2>2, <2>5, <2>6
  <1>5. g[S] \in Int
    BY <1>3, <1>4
  <1> QED
    BY <1>5, SumIs DEF g

-----------------------------------------------------------------------------
(* The countdown.                                                          *)

Announced(w) == /\ w.critical = "countdown" => w.timer
                /\ w.timer => w.critical # "none" \/ w.answer # "none"

TypeInv == TypeOK /\ percents \in [DOMAIN percents -> Percents]

WarningsInv == TypeInv /\ CountdownIsAnnounced

LEMMA LevelsAreNumbers ==
    ASSUME NEW s \in Settings
    PROVE  s.low \in Int /\ s.critical \in Int /\ s.acts \in BOOLEAN
  BY SettingsAssumption

LEMMA ChargeIsNumber ==
    ASSUME NEW B \in SUBSET Batteries, NEW f \in [B -> Percents]
    PROVE  SumFunction(f) \in Int
  <1>1. IsFiniteSet(B)
    BY SettingsAssumption, FS_Subset
  <1>2. f \in [B -> Int]
    <2>1. Percents \subseteq Int
      BY SettingsAssumption
    <2> QED
      BY <2>1
  <1> QED
    BY <1>1, <1>2, SumIsInteger

\* What closes notifications leaves the others announced.
LEMMA ClosingKeeps ==
    ASSUME NEW w \in Warnings
    PROVE  /\ closeLow(w) \in Warnings /\ cancelCriticalBatteryNotification(w) \in Warnings
           /\ Announced(w) => Announced(closeLow(w))
           /\ Announced(cancelCriticalBatteryNotification(w))
  BY DEF Warnings, Kinds, closeLow, cancelCriticalBatteryNotification, Announced

LEMMA ClearKeeps ==
    ASSUME NEW w \in Warnings, NEW percent, NEW s
    PROVE  /\ ClearFor(w, percent, s) \in Warnings
           /\ Announced(w) => Announced(ClearFor(w, percent, s))
  BY ClosingKeeps DEF ClearFor

\* A charge at the critical level leaves the new notification and its timer.
LEMMA CriticalKeeps ==
    ASSUME NEW w \in Warnings, settings \in Settings, NEW percent \in Int,
           percent <= settings.critical
    PROVE  /\ handleCriticalBattery(w, percent) \in Warnings
           /\ Announced(handleCriticalBattery(w, percent))
  <1> DEFINE kind == IF settings.acts THEN "countdown" ELSE "plain"
             opened == [w EXCEPT !.low = FALSE, !.critical = kind,
                                 !.orphans = @ \cup ({w.critical} \ {"none"}),
                                 !.answer = "none"]
             updated == updateBatteryNotifications(opened, percent)
             result == IF settings.acts THEN [updated EXCEPT !.timer = TRUE] ELSE updated
  <1>1. settings.acts \in BOOLEAN /\ ~(percent > settings.critical)
    BY LevelsAreNumbers
  <1>2. kind \in Kinds /\ (settings.acts \/ kind = "plain")
    BY DEF Kinds
  <1> HIDE DEF kind
  <1>3. /\ opened \in Warnings /\ opened.critical = kind /\ closeLow(opened) \in Warnings
        /\ closeLow(opened).critical = kind
    BY <1>2 DEF Warnings, Kinds, closeLow
  <1>4. updated = opened \/ updated = closeLow(opened)
    BY <1>1 DEF updateBatteryNotifications, ClearFor
  <1>5. updated \in Warnings /\ updated.critical = kind
    BY <1>3, <1>4
  <1> HIDE DEF updated, opened
  <1>6. result \in Warnings /\ Announced(result)
    BY <1>1, <1>2, <1>5 DEF Warnings, Kinds, Announced
  <1>7. result = handleCriticalBattery(w, percent)
    BY DEF handleCriticalBattery, updated, opened, kind
  <1> QED
    BY <1>6, <1>7

LEMMA LowKeeps ==
    ASSUME NEW w \in Warnings, NEW percent
    PROVE  /\ handleLowBattery(w, percent) \in Warnings
           /\ Announced(w) => Announced(handleLowBattery(w, percent))
  <1> DEFINE opened == [w EXCEPT !.low = TRUE]
  <1>1. opened \in Warnings /\ (Announced(w) => Announced(opened))
    BY DEF Warnings, Announced
  <1> HIDE DEF opened
  <1>2. /\ updateBatteryNotifications(opened, percent) \in Warnings
        /\ Announced(w) => Announced(updateBatteryNotifications(opened, percent))
    BY <1>1, ClearKeeps DEF updateBatteryNotifications
  <1> QED
    BY <1>2 DEF handleLowBattery, opened

LEMMA EmitKeeps ==
    ASSUME NEW w \in Warnings, settings \in Settings, NEW current \in Int, NEW previous,
           NEW plugged
    PROVE  /\ emitBatteryChargePercent(w, current, previous, plugged) \in Warnings
           /\ Announced(w) => Announced(emitBatteryChargePercent(w, current, previous, plugged))
  <1> DEFINE updated == updateBatteryNotifications(w, current)
  <1>1. updated \in Warnings /\ (Announced(w) => Announced(updated))
    BY ClearKeeps DEF updateBatteryNotifications
  <1> HIDE DEF updated
  <1>2. CASE ~Warns(current, previous, plugged)
    BY <1>1, <1>2 DEF emitBatteryChargePercent, updated
  <1>3. CASE Warns(current, previous, plugged)
    <2>1. CASE FallsTo(settings.critical, current, previous)
      <3>1. current <= settings.critical
        BY <2>1 DEF FallsTo
      <3> QED
        BY <1>1, <1>3, <2>1, <3>1, CriticalKeeps DEF emitBatteryChargePercent, updated
    <2>2. CASE ~FallsTo(settings.critical, current, previous)
      BY <1>1, <1>3, <2>2, LowKeeps DEF emitBatteryChargePercent, updated
    <2> QED
      BY <2>1, <2>2
  <1> QED
    BY <1>2, <1>3

LEMMA AcChangeKeeps ==
    ASSUME NEW w \in Warnings, NEW state
    PROVE  /\ AcAdapterStateChanged(w, state) \in Warnings
           /\ Announced(w) => Announced(AcAdapterStateChanged(w, state))
  BY ClosingKeeps DEF AcAdapterStateChanged

\* The charges that are known, after a step.
LEMMA ChargesAreTyped ==
    ASSUME NEW f, DOMAIN f \subseteq Batteries, f \in [DOMAIN f -> Percents]
    PROVE  Range(f) \subseteq Percents
  BY DEF Range

\* The present charge is a number, as is the previous one of a battery.
LEMMA ChargeNow ==
    ASSUME TypeInv
    PROVE  /\ currentChargePercent \in Int
           /\ \A b \in DOMAIN percents : percents[b] \in Int
  <1>1. DOMAIN percents \in SUBSET Batteries /\ percents \in [DOMAIN percents -> Percents]
    BY DEF TypeInv, TypeOK
  <1>2. Percents \subseteq Int
    BY SettingsAssumption
  <1> QED
    BY <1>1, <1>2, ChargeIsNumber DEF currentChargePercent

\* What a step may do to the notifications and the timer.
LEMMA WarningsChange ==
    ASSUME TypeInv, CountdownIsAnnounced,
           UNCHANGED <<acVars, configured, peripherals>>, settings' \in Settings,
           notificationsReady' \in BOOLEAN, DOMAIN percents' \subseteq Batteries,
           percents' \in [DOMAIN percents' -> Percents],
           warnings' \in Warnings, Announced(warnings')
    PROVE  WarningsInv'
  <1>1. Range(percents') \subseteq Percents
    BY ChargesAreTyped
  <1> QED
    BY <1>1 DEF WarningsInv, TypeInv, TypeOK, CountdownIsAnnounced, Announced, acVars

LEMMA DevicesKeepWarnings ==
    ASSUME WarningsInv, NEW d \in Batteries \cup Peripherals,
           onDeviceAdded(d) \/ onDeviceRemoved(d)
    PROVE  WarningsInv'
  <1>0. /\ TypeInv /\ warnings \in Warnings /\ Announced(warnings)
        /\ percents \in [DOMAIN percents -> Percents] /\ DOMAIN percents \subseteq Batteries
    BY DEF WarningsInv, TypeInv, TypeOK, CountdownIsAnnounced, Announced
  <1>1. /\ percents' \in [DOMAIN percents' -> Percents] /\ DOMAIN percents' \subseteq Batteries
        /\ peripherals' \subseteq Peripherals
    <2>1. CASE onDeviceAdded(d) /\ d \in Batteries
      <3>1. PICK p \in Percents :
                percents' = [b \in DOMAIN percents \cup {d} |-> IF b = d THEN p ELSE percents[b]]
        BY <2>1 DEF onDeviceAdded
      <3>2. peripherals' = peripherals
        BY <2>1 DEF onDeviceAdded
      <3> QED
        BY <1>0, <2>1, <3>1, <3>2 DEF TypeInv, TypeOK
    <2>2. CASE onDeviceAdded(d) /\ d \notin Batteries
      BY <1>0, <2>2 DEF onDeviceAdded, TypeInv, TypeOK
    <2>3. CASE onDeviceRemoved(d)
      BY <1>0, <2>3 DEF onDeviceRemoved, Restrict, TypeInv, TypeOK
    <2> QED
      BY <2>1, <2>2, <2>3
  <1>2. Range(percents') \subseteq Percents
    BY <1>1, ChargesAreTyped
  <1>3. warnings' \in Warnings /\ Announced(warnings')
    <2>1. CASE onDeviceAdded(d)
      BY <1>0, <2>1, ClearKeeps DEF onDeviceAdded
    <2>2. CASE onDeviceRemoved(d)
      BY <1>0, <2>2 DEF onDeviceRemoved
    <2> QED
      BY <2>1, <2>2
  <1>4. UNCHANGED <<acVars, configVars, notificationsReady>>
    BY DEF onDeviceAdded, onDeviceRemoved
  <1> QED
    BY <1>0, <1>1, <1>2, <1>3, <1>4
    DEF WarningsInv, TypeInv, TypeOK, CountdownIsAnnounced, Announced, acVars, configVars

\* The handlers that warn.
LEMMA ChargeKeepsWarnings ==
    ASSUME WarningsInv, NEW b \in Batteries, NEW percent \in Percents,
           onBatteryChargePercentChanged(b, percent)
    PROVE  WarningsInv'
  <1> DEFINE previous == currentChargePercent
             current == previous - (percents[b] - percent)
  <1>0. /\ TypeInv /\ CountdownIsAnnounced /\ warnings \in Warnings /\ Announced(warnings)
        /\ settings \in Settings /\ notificationsReady \in BOOLEAN
        /\ percents \in [DOMAIN percents -> Percents] /\ DOMAIN percents \subseteq Batteries
    BY DEF WarningsInv, TypeInv, TypeOK, CountdownIsAnnounced, Announced
  <1>1. /\ b \in DOMAIN percents /\ percents' = [percents EXCEPT ![b] = percent]
        /\ UNCHANGED <<acVars, configVars, peripherals, notificationsReady>>
    BY DEF onBatteryChargePercentChanged
  <1>2. current \in Int
    <2>1. previous \in Int /\ percents[b] \in Int /\ percent \in Int
      BY <1>0, <1>1, ChargeNow, SettingsAssumption
    <2> HIDE DEF previous
    <2> QED
      BY <2>1
  <1>3. \/ warnings' = emitBatteryChargePercent(warnings, current, previous, TRUE)
        \/ warnings' = updateBatteryNotifications(warnings, current)
    BY DEF onBatteryChargePercentChanged
  <1> HIDE DEF current, previous
  <1>4. warnings' \in Warnings /\ Announced(warnings')
    BY <1>0, <1>2, <1>3, EmitKeeps, ClearKeeps DEF updateBatteryNotifications
  <1>5. percents' \in [DOMAIN percents' -> Percents] /\ DOMAIN percents' \subseteq Batteries
    BY <1>0, <1>1
  <1> QED
    BY <1>0, <1>1, <1>4, <1>5, WarningsChange DEF configVars

LEMMA RemindersKeepWarnings ==
    ASSUME WarningsInv,
           onServiceRegistered \/ onScreenLockerActiveChanged \/ reparseConfiguration
    PROVE  WarningsInv'
  <1>0. /\ TypeInv /\ CountdownIsAnnounced /\ warnings \in Warnings /\ Announced(warnings)
        /\ settings \in Settings /\ configured \in Settings /\ notificationsReady \in BOOLEAN
        /\ percents \in [DOMAIN percents -> Percents] /\ DOMAIN percents \subseteq Batteries
    BY DEF WarningsInv, TypeInv, TypeOK, CountdownIsAnnounced, Announced
  <1> DEFINE warned == emitBatteryChargePercent(warnings, currentChargePercent, Startup, FALSE)
  <1>1. warned \in Warnings /\ Announced(warned)
    BY <1>0, ChargeNow, EmitKeeps
  <1>2. CASE onServiceRegistered
    <2>1. /\ notificationsReady' = TRUE /\ UNCHANGED <<acVars, configured, batteryVars>>
          /\ \/ /\ settings' = configured
                /\ warnings' = ClearFor(warned, currentChargePercent, configured)
             \/ settings' = settings /\ warnings' = warned
      BY <1>2 DEF onServiceRegistered
    <2> HIDE DEF warned
    <2>2. warnings' \in Warnings /\ Announced(warnings') /\ settings' \in Settings
      BY <1>0, <1>1, <2>1, ClearKeeps
    <2>3. notificationsReady' \in BOOLEAN
      BY <2>1
    <2> QED
      BY <1>0, <2>1, <2>2, <2>3, WarningsChange DEF batteryVars
  <1>3. CASE onScreenLockerActiveChanged
    <2>1. warnings' = warned /\ UNCHANGED <<acVars, configVars, batteryVars, notificationsReady>>
      BY <1>3 DEF onScreenLockerActiveChanged
    <2> HIDE DEF warned
    <2> QED
      BY <1>0, <1>1, <2>1, WarningsChange DEF batteryVars, configVars
  <1>4. CASE reparseConfiguration
    <2>1. /\ settings' = configured
          /\ warnings' = ClearFor(warnings, currentChargePercent, configured)
          /\ UNCHANGED <<acVars, configured, batteryVars, notificationsReady>>
      BY <1>4 DEF reparseConfiguration
    <2>2. warnings' \in Warnings /\ Announced(warnings')
      BY <1>0, <2>1, ClearKeeps
    <2> QED
      BY <1>0, <2>1, <2>2, WarningsChange DEF batteryVars
  <1> QED
    BY <1>2, <1>3, <1>4

\* The AC adapter: a step that closes the notifications or not.
LEMMA AcKeepsWarnings ==
    ASSUME WarningsInv, onResumeFromSuspend \/ onPropertiesChanged \/ PowerCord
    PROVE  WarningsInv'
  <1>0. /\ TypeInv /\ warnings \in Warnings /\ Announced(warnings) /\ settings \in Settings
        /\ upowerOnBattery \in BOOLEAN /\ onBattery \in BOOLEAN /\ acSignals \in Seq(BOOLEAN)
        /\ acAdapterState \in {"Plugged", "Unplugged"}
    BY DEF WarningsInv, TypeInv, TypeOK, CountdownIsAnnounced, Announced
  <1>1. UNCHANGED <<configVars, batteryVars, notificationsReady>>
    BY DEF onResumeFromSuspend, onPropertiesChanged, PowerCord
  <1>2. /\ upowerOnBattery' \in BOOLEAN /\ onBattery' \in BOOLEAN /\ acSignals' \in Seq(BOOLEAN)
        /\ acAdapterState' \in {"Plugged", "Unplugged"}
    <2>1. CASE onResumeFromSuspend
      BY <1>0, <2>1 DEF onResumeFromSuspend, AcState
    <2>2. CASE onPropertiesChanged
      <3>1. acSignals # <<>> /\ acSignals' = Tail(acSignals) /\ upowerOnBattery' = upowerOnBattery
        BY <2>2 DEF onPropertiesChanged
      <3>2. Head(acSignals) \in BOOLEAN /\ Tail(acSignals) \in Seq(BOOLEAN)
        BY <1>0, <3>1
      <3>3. PICK value \in {Head(acSignals)} \cup ReadBack :
                \/ UNCHANGED <<onBattery, acAdapterState>>
                \/ onBattery' = value /\ acAdapterState' = AcState(value)
        BY <2>2 DEF onPropertiesChanged
      <3>4. value \in BOOLEAN
        BY <1>0, <3>2 DEF ReadBack
      <3> QED
        BY <1>0, <3>1, <3>2, <3>3, <3>4 DEF AcState
    <2>3. CASE PowerCord
      BY <1>0, <2>3 DEF PowerCord
    <2> QED
      BY <2>1, <2>2, <2>3
  <1>3. warnings' \in Warnings /\ Announced(warnings')
    <2>1. CASE onResumeFromSuspend
      <3> DEFINE warned == emitBatteryChargePercent(warnings, currentChargePercent, Startup, FALSE)
      <3>1. warned \in Warnings /\ Announced(warned)
        BY <1>0, ChargeNow, EmitKeeps
      <3>2. warnings' = warned \/ warnings' = AcAdapterStateChanged(warned, AcState(upowerOnBattery))
        BY <2>1 DEF onResumeFromSuspend
      <3> HIDE DEF warned
      <3> QED
        BY <3>1, <3>2, AcChangeKeeps
    <2>2. CASE onPropertiesChanged
      <3>1. \/ warnings' = warnings
            \/ \E state : warnings' = AcAdapterStateChanged(warnings, state)
        BY <2>2 DEF onPropertiesChanged
      <3> QED
        BY <1>0, <3>1, AcChangeKeeps
    <2>3. CASE PowerCord
      BY <1>0, <2>3 DEF PowerCord
    <2> QED
      BY <2>1, <2>2, <2>3
  <1> QED
    BY <1>1, <1>2, <1>3
    DEF WarningsInv, TypeInv, TypeOK, CountdownIsAnnounced, Announced, batteryVars, configVars

\* An answer is recorded, and a notification of a kind leaves the screen.
LEMMA AnsweredKeeps ==
    ASSUME NEW w \in Warnings, NEW a \in {"dismissed", "cancelled", "acted"}, Announced(w)
    PROVE  /\ [w EXCEPT !.answer = a] \in Warnings /\ Announced([w EXCEPT !.answer = a])
           /\ [w EXCEPT !.answer = a].answer # "none"
  BY DEF Warnings, Announced

LEMMA LeavingKeeps ==
    ASSUME NEW w \in Warnings, NEW k, Announced(w)
    PROVE  /\ [w EXCEPT !.orphans = @ \ {k}] \in Warnings
           /\ Announced([w EXCEPT !.orphans = @ \ {k}])
           /\ [w EXCEPT !.critical = "none"] \in Warnings
           /\ w.answer # "none" => Announced([w EXCEPT !.critical = "none"])
  <1>1. w.orphans \ {k} \in SUBSET Kinds
    BY DEF Warnings
  <1>2. [w EXCEPT !.orphans = @ \ {k}] = [w EXCEPT !.orphans = w.orphans \ {k}]
    OBVIOUS
  <1> DEFINE rest == w.orphans \ {k}
  <1> HIDE DEF rest
  <1>3. [w EXCEPT !.orphans = rest] \in Warnings /\ Announced([w EXCEPT !.orphans = rest])
    BY <1>1 DEF Warnings, Announced, rest
  <1>4. /\ [w EXCEPT !.critical = "none"] \in Warnings
        /\ w.answer # "none" => Announced([w EXCEPT !.critical = "none"])
    BY DEF Warnings, Announced
  <1> QED
    BY <1>2, <1>3, <1>4 DEF rest

\* The user and the timer: whatever closes the notification of a running timer
\* answers it.
LEMMA AnswersKeepWarnings ==
    ASSUME WarningsInv,
           \/ onCriticalBatteryTimerExpired \/ triggerCriticalBatteryAction \/ DismissLow
           \/ \E k \in Kinds : CancelButton(k) \/ DismissCritical(k)
    PROVE  WarningsInv'
  <1>0. /\ TypeInv /\ CountdownIsAnnounced /\ warnings \in Warnings /\ Announced(warnings)
        /\ settings \in Settings /\ notificationsReady \in BOOLEAN
        /\ percents \in [DOMAIN percents -> Percents] /\ DOMAIN percents \subseteq Batteries
    BY DEF WarningsInv, TypeInv, TypeOK, CountdownIsAnnounced, Announced
  <1>1. UNCHANGED <<acVars, configVars, batteryVars, notificationsReady>>
    BY DEF onCriticalBatteryTimerExpired, triggerCriticalBatteryAction, DismissLow, CancelButton,
           DismissCritical
  <1>2. warnings' \in Warnings /\ Announced(warnings')
    <2>1. CASE onCriticalBatteryTimerExpired
      BY <1>0, <2>1
      DEF onCriticalBatteryTimerExpired, cancelCriticalBatteryNotification, Warnings, Kinds,
          Announced
    <2>2. CASE triggerCriticalBatteryAction
      <3> DEFINE acted == [warnings EXCEPT !.answer = "acted"]
      <3>1. acted \in Warnings /\ Announced(acted) /\ acted.answer # "none"
        BY <1>0, AnsweredKeeps
      <3>2. \/ warnings' = [acted EXCEPT !.critical = "none"]
            \/ warnings' = [acted EXCEPT !.orphans = @ \ {"countdown"}]
        BY <2>2 DEF triggerCriticalBatteryAction, Close
      <3> HIDE DEF acted
      <3> QED
        BY <3>1, <3>2, LeavingKeeps
    <2>3. CASE DismissLow
      BY <1>0, <2>3, ClosingKeeps DEF DismissLow
    <2>4. ASSUME NEW k \in Kinds, CancelButton(k)
          PROVE  warnings' \in Warnings /\ Announced(warnings')
      <3> DEFINE closed == cancelCriticalBatteryNotification(warnings)
                 cancelled == [closed EXCEPT !.answer = "cancelled"]
      <3>1. closed \in Warnings /\ Announced(closed)
        BY <1>0, ClosingKeeps
      <3>2. warnings' = cancelled \/ warnings' = [cancelled EXCEPT !.orphans = @ \ {k}]
        BY <2>4 DEF CancelButton
      <3> HIDE DEF closed
      <3>3. cancelled \in Warnings /\ Announced(cancelled)
        BY <3>1, AnsweredKeeps
      <3> HIDE DEF cancelled
      <3> QED
        BY <3>2, <3>3, LeavingKeeps
    <2>5. ASSUME NEW k \in Kinds, DismissCritical(k)
          PROVE  warnings' \in Warnings /\ Announced(warnings')
      <3> DEFINE a == IF warnings.answer = "none" THEN "dismissed" ELSE warnings.answer
                 left == [warnings EXCEPT !.answer = a]
      <3>1. a \in {"dismissed", "cancelled", "acted"}
        BY <1>0 DEF Warnings
      <3>2. warnings' = [left EXCEPT !.critical = "none"] \/ warnings' = [left EXCEPT !.orphans = @ \ {k}]
        BY <2>5 DEF DismissCritical, Close
      <3> HIDE DEF a
      <3>3. left \in Warnings /\ Announced(left) /\ left.answer # "none"
        BY <1>0, <3>1, AnsweredKeeps
      <3> HIDE DEF left
      <3> QED
        BY <3>2, <3>3, LeavingKeeps
    <2> QED
      BY <2>1, <2>2, <2>3, <2>4, <2>5
  <1> QED
    BY <1>0, <1>1, <1>2, WarningsChange DEF batteryVars, configVars

LEMMA NextKeepsWarnings == WarningsInv /\ [Next]_vars => WarningsInv'
  <1> SUFFICES ASSUME WarningsInv, [Next]_vars PROVE WarningsInv'
    OBVIOUS
  <1>1. ASSUME NEW s \in Settings, SaveSettings(s) PROVE WarningsInv'
    BY <1>1 DEF SaveSettings, WarningsInv, TypeInv, TypeOK, CountdownIsAnnounced, acVars,
                batteryVars
  <1>2. CASE UNCHANGED vars
    BY <1>2 DEF vars, WarningsInv, TypeInv, TypeOK, CountdownIsAnnounced, acVars, batteryVars,
                configVars
  <1> QED
    BY <1>1, <1>2, DevicesKeepWarnings, ChargeKeepsWarnings, RemindersKeepWarnings,
       AcKeepsWarnings, AnswersKeepWarnings
    DEF Next, User

LEMMA InitWarnings == Init => WarningsInv
  <1> SUFFICES ASSUME Init PROVE WarningsInv
    OBVIOUS
  <1>1. PICK present \in SUBSET Batteries : percents \in [present -> Percents]
    BY DEF Init
  <1>2. /\ percents \in [DOMAIN percents -> Percents] /\ DOMAIN percents \subseteq Batteries
        /\ Range(percents) \subseteq Percents
    BY <1>1, ChargesAreTyped
  <1>3. warnings \in Warnings /\ Announced(warnings)
    BY DEF Init, Warnings, Kinds, Announced
  <1>4. /\ upowerOnBattery \in BOOLEAN /\ onBattery \in BOOLEAN /\ acSignals \in Seq(BOOLEAN)
        /\ acAdapterState \in {"Plugged", "Unplugged"}
    BY DEF Init, AcState
  <1>5. notificationsReady \in BOOLEAN
    BY DEF Init
  <1> QED
    BY <1>2, <1>3, <1>4, <1>5
    DEF Init, WarningsInv, TypeInv, TypeOK, CountdownIsAnnounced, Announced

\* Every variable has its type: in particular the charges the daemon sums are
\* those of power supply batteries only (Core::onDeviceAdded).
THEOREM TypeCorrect == Spec => []TypeOK
  <1>1. WarningsInv => TypeOK
    BY DEF WarningsInv, TypeInv
  <1> QED
    BY <1>1, InitWarnings, NextKeepsWarnings, PTL DEF Spec

\* The notification that says "in 60 seconds" is on the screen only while the
\* timer runs, and the timer runs silently only after the user closed the
\* notification (handleCriticalBattery, updateBatteryNotifications and
\* onAcAdapterStateChanged in powerdevilcore.cpp): no order of charge changes,
\* resumes, new settings, chargers and answers separates the two.
THEOREM AlwaysAnnounced == Spec => []CountdownIsAnnounced
  <1>1. WarningsInv => CountdownIsAnnounced
    BY DEF WarningsInv
  <1> QED
    BY <1>1, InitWarnings, NextKeepsWarnings, PTL DEF Spec

-----------------------------------------------------------------------------
(* Scheduled wakeups.                                                      *)

IssuedCookies ==
    /\ \A w \in scheduled : w.cookie <= lastWakeupCookie
    /\ \A c \in called : c.wakeup.cookie <= lastWakeupCookie

ReadyIsWatched == ready => notifier

SchedulerInv ==
    SchedulerTypeOK /\ ArmedForEarliest /\ CalledOnce /\ IssuedCookies /\ ReadyIsWatched

\* What resetAndScheduleNextWakeup leaves behind, whatever the list was.
LEMMA ResetArms ==
    ASSUME scheduled' \subseteq Wakeups, resetAndScheduleNextWakeup
    PROVE  /\ ArmedForEarliest'
           /\ first' \in Wakeups \cup {NoWakeup}
           /\ armed' \in Times \cup {Never}
           /\ notifier' \in BOOLEAN
           /\ notifier' = (scheduled' # {})
  <1>1. CASE scheduled' = {}
    BY <1>1 DEF resetAndScheduleNextWakeup, ArmedForEarliest
  <1>2. CASE scheduled' # {}
    <2>1. first' \in Earliest(scheduled') /\ armed' = first'.timeout /\ notifier' = TRUE
      BY <1>2 DEF resetAndScheduleNextWakeup
    <2>2. first' \in Wakeups
      BY <2>1 DEF Earliest
    <2>3. armed' \in Times
      BY <2>1, <2>2 DEF Wakeups
    <2> QED
      BY <1>2, <2>1, <2>2, <2>3 DEF ArmedForEarliest, Earliest
  <1> QED
    BY <1>1, <1>2

LEMMA InitSchedulerInv == SchedulerInit => SchedulerInv
  <1> SUFFICES ASSUME SchedulerInit PROVE SchedulerInv
    OBVIOUS
  <1>1. lastWakeupCookie \in 0 .. MaxCookie
    BY WakeupAssumption DEF SchedulerInit
  <1>2. SchedulerTypeOK
    BY <1>1 DEF SchedulerInit, SchedulerTypeOK
  <1>3. ArmedForEarliest /\ ReadyIsWatched
    BY DEF SchedulerInit, ArmedForEarliest, ReadyIsWatched
  <1>4. CalledOnce /\ IssuedCookies
    BY DEF SchedulerInit, CalledOnce, IssuedCookies
  <1> QED
    BY <1>2, <1>3, <1>4 DEF SchedulerInv

LEMMA ScheduleKeepsInv ==
    ASSUME SchedulerInv, NEW t \in Times, scheduleWakeup(t)
    PROVE  SchedulerInv'
  <1>1. lastWakeupCookie' = lastWakeupCookie + 1 /\ lastWakeupCookie' \in 1 .. MaxCookie
    BY WakeupAssumption DEF SchedulerInv, SchedulerTypeOK, scheduleWakeup
  <1>2. CASE t < now
    BY <1>1, <1>2
    DEF SchedulerInv, SchedulerTypeOK, ArmedForEarliest, Earliest, CalledOnce, IssuedCookies,
        ReadyIsWatched, scheduleWakeup, Wakeups, Cookies
  <1>3. CASE ~(t < now)
    <2> DEFINE new == [cookie |-> lastWakeupCookie + 1, timeout |-> t]
    <2>1. /\ scheduled' = scheduled \cup {new}
          /\ resetAndScheduleNextWakeup
          /\ UNCHANGED <<now, ready, called>>
      BY <1>3 DEF scheduleWakeup
    <2>2. new \in Wakeups
      BY <1>1 DEF Wakeups, Cookies
    <2>3. scheduled' \subseteq Wakeups
      BY <2>1, <2>2 DEF SchedulerInv, SchedulerTypeOK
    <2>4. /\ ArmedForEarliest'
          /\ first' \in Wakeups \cup {NoWakeup}
          /\ armed' \in Times \cup {Never}
          /\ notifier' = TRUE
      BY <2>1, <2>3, ResetArms
    <2>5. SchedulerTypeOK'
      BY <1>1, <2>1, <2>3, <2>4 DEF SchedulerInv, SchedulerTypeOK
    <2>6. IssuedCookies'
      BY <1>1, <2>1 DEF SchedulerInv, SchedulerTypeOK, IssuedCookies, Wakeups, Cookies
    <2>7. CalledOnce'
      <3>1. \A w \in scheduled : w.cookie # new.cookie
        BY DEF SchedulerInv, SchedulerTypeOK, IssuedCookies, Wakeups, Cookies
      <3>2. \A c \in called : c.wakeup.cookie # new.cookie
        BY DEF SchedulerInv, SchedulerTypeOK, IssuedCookies, Wakeups, Cookies
      <3> QED
        BY <2>1, <3>1, <3>2 DEF SchedulerInv, CalledOnce
    <2> QED
      BY <2>4, <2>5, <2>6, <2>7 DEF SchedulerInv, ReadyIsWatched
  <1> QED
    BY <1>2, <1>3

LEMMA ClearKeepsInv ==
    ASSUME SchedulerInv, NEW c \in Cookies, clearWakeup(c)
    PROVE  SchedulerInv'
  <1>1. scheduled' \subseteq scheduled /\ resetAndScheduleNextWakeup
    BY DEF clearWakeup
  <1>2. scheduled' \subseteq Wakeups
    BY <1>1 DEF SchedulerInv, SchedulerTypeOK
  <1>3. /\ ArmedForEarliest'
        /\ first' \in Wakeups \cup {NoWakeup}
        /\ armed' \in Times \cup {Never}
        /\ notifier' \in BOOLEAN
    BY <1>1, <1>2, ResetArms
  <1>4. /\ ready' = (ready /\ notifier')
        /\ UNCHANGED <<now, lastWakeupCookie, called>>
    BY DEF clearWakeup
  <1>5. SchedulerTypeOK' /\ ReadyIsWatched'
    BY <1>2, <1>3, <1>4 DEF SchedulerInv, SchedulerTypeOK, ReadyIsWatched
  <1>6. CalledOnce' /\ IssuedCookies'
    BY <1>1, <1>4 DEF SchedulerInv, CalledOnce, IssuedCookies
  <1> QED
    BY <1>3, <1>5, <1>6 DEF SchedulerInv

\* A wakeup is received only while one is scheduled, and then the earliest
\* one is taken.
LEMMA ReceivedIsEarliest ==
    ASSUME SchedulerInv, timerfdEventHandler
    PROVE  /\ scheduled # {} /\ first \in Earliest(scheduled) /\ first \in scheduled
           /\ scheduled' = scheduled \ {first}
           /\ resetAndScheduleNextWakeup
           /\ called' = called \cup {[wakeup |-> first, at |-> now]}
           /\ ready' = FALSE
           /\ UNCHANGED <<now, lastWakeupCookie>>
  <1>1. scheduled # {}
    BY DEF SchedulerInv, ReadyIsWatched, ArmedForEarliest, timerfdEventHandler
  <1> QED
    BY <1>1 DEF SchedulerInv, ArmedForEarliest, Earliest, timerfdEventHandler

LEMMA HandlerKeepsInv ==
    ASSUME SchedulerInv, timerfdEventHandler
    PROVE  SchedulerInv'
  <1>1. /\ first \in scheduled
        /\ scheduled' = scheduled \ {first}
        /\ resetAndScheduleNextWakeup
        /\ called' = called \cup {[wakeup |-> first, at |-> now]}
        /\ ready' = FALSE
        /\ UNCHANGED <<now, lastWakeupCookie>>
    BY ReceivedIsEarliest
  <1>2. scheduled' \subseteq Wakeups /\ first \in Wakeups
    BY <1>1 DEF SchedulerInv, SchedulerTypeOK
  <1>3. /\ ArmedForEarliest'
        /\ first' \in Wakeups \cup {NoWakeup}
        /\ armed' \in Times \cup {Never}
        /\ notifier' \in BOOLEAN
    BY <1>1, <1>2, ResetArms
  <1>4. SchedulerTypeOK' /\ ReadyIsWatched'
    <2>1. [wakeup |-> first, at |-> now] \in [wakeup : Wakeups, at : Times]
      BY <1>2 DEF SchedulerInv, SchedulerTypeOK
    <2>2. called' \subseteq [wakeup : Wakeups, at : Times]
      BY <1>1, <2>1 DEF SchedulerInv, SchedulerTypeOK
    <2>3. now' \in Times /\ lastWakeupCookie' \in 0 .. MaxCookie
      BY <1>1 DEF SchedulerInv, SchedulerTypeOK
    <2> QED
      BY <1>1, <1>2, <1>3, <2>2, <2>3 DEF SchedulerTypeOK, ReadyIsWatched
  <1>5. IssuedCookies'
    BY <1>1 DEF SchedulerInv, IssuedCookies
  <1>6. CalledOnce'
    <2>1. \A w \in scheduled' : w.cookie # first.cookie
      BY <1>1 DEF SchedulerInv, CalledOnce
    <2>2. \A c \in called : c.wakeup.cookie # first.cookie
      BY <1>1 DEF SchedulerInv, CalledOnce
    <2> QED
      BY <1>1, <2>1, <2>2 DEF SchedulerInv, CalledOnce
  <1> QED
    BY <1>3, <1>4, <1>5, <1>6 DEF SchedulerInv

LEMMA NextSchedulerInv ==
    ASSUME SchedulerInv, [SchedulerNext]_schedulerVars
    PROVE  SchedulerInv'
  <1>1. CASE \E t \in Times : scheduleWakeup(t)
    BY <1>1, ScheduleKeepsInv
  <1>2. CASE \E c \in Cookies : clearWakeup(c)
    BY <1>2, ClearKeepsInv
  <1>3. CASE Poll
    BY <1>3
    DEF SchedulerInv, SchedulerTypeOK, ArmedForEarliest, Earliest, CalledOnce, IssuedCookies,
        ReadyIsWatched, Poll
  <1>4. CASE timerfdEventHandler
    BY <1>4, HandlerKeepsInv
  <1>5. CASE Tick
    <2>1. now' \in Times
      BY <1>5, WakeupAssumption DEF SchedulerInv, SchedulerTypeOK, Tick, Times
    <2> QED
      BY <1>5, <2>1
      DEF SchedulerInv, SchedulerTypeOK, ArmedForEarliest, Earliest, CalledOnce, IssuedCookies,
          ReadyIsWatched, Tick
  <1>6. CASE UNCHANGED schedulerVars
    BY <1>6
    DEF SchedulerInv, SchedulerTypeOK, ArmedForEarliest, Earliest, CalledOnce, IssuedCookies,
        ReadyIsWatched, schedulerVars
  <1> QED
    BY <1>1, <1>2, <1>3, <1>4, <1>5, <1>6 DEF SchedulerNext

\* The inductive invariant holds in every reachable state.
THEOREM SchedulerInvariant == SchedulerSpec => []SchedulerInv
  <1>1. SchedulerInit => SchedulerInv
    BY InitSchedulerInv
  <1>2. SchedulerInv /\ [SchedulerNext]_schedulerVars => SchedulerInv'
    BY NextSchedulerInv
  <1> QED
    BY <1>1, <1>2, PTL DEF SchedulerSpec

\* The timerfd is armed for the earliest scheduled wakeup at all times, for
\* any number of requests (resetAndScheduleNextWakeup).
THEOREM ArmingCorrect == SchedulerSpec => []ArmedForEarliest
  BY SchedulerInvariant, PTL DEF SchedulerInv

\* The warning "This should not happen!" of timerfdEventHandler never appears.
THEOREM NeverReceivedInVain == SchedulerSpec => []ReceivedFindsOne
  <1>1. SchedulerInv => ReceivedFindsOne
    BY DEF SchedulerInv, ReadyIsWatched, ArmedForEarliest, ReceivedFindsOne
  <1> QED
    BY <1>1, SchedulerInvariant, PTL

\* No cookie is called back twice, or while it is still scheduled.
THEOREM CallbacksUnique == SchedulerSpec => []CalledOnce
  BY SchedulerInvariant, PTL DEF SchedulerInv

\* What was cleared or called back never returns and is not called back.
THEOREM ClearedForGood == SchedulerSpec => GoneForGood
  <1> DEFINE Gone == \A w \in Wakeups :
          w.cookie <= lastWakeupCookie /\ w \notin scheduled
              => w \notin scheduled' /\ \A c \in called' \ called : c.wakeup # w
  <1>1. ASSUME SchedulerInv, [SchedulerNext]_schedulerVars PROVE Gone
    <2> SUFFICES ASSUME NEW w \in Wakeups, w.cookie <= lastWakeupCookie, w \notin scheduled
                 PROVE  w \notin scheduled' /\ \A c \in called' \ called : c.wakeup # w
      OBVIOUS
    <2>1. CASE \E t \in Times : scheduleWakeup(t)
      <3>1. lastWakeupCookie \in Nat /\ w.cookie \in Nat
        BY <1>1 DEF SchedulerInv, SchedulerTypeOK, Wakeups, Cookies
      <3>2. w.cookie # lastWakeupCookie + 1
        BY <3>1
      <3> QED
        BY <2>1, <3>2 DEF scheduleWakeup
    <2>2. CASE \E c \in Cookies : clearWakeup(c)
      BY <2>2 DEF clearWakeup
    <2>3. CASE timerfdEventHandler
      BY <2>3, <1>1, ReceivedIsEarliest
    <2>4. CASE Poll \/ Tick \/ UNCHANGED schedulerVars
      BY <2>4 DEF Poll, Tick, schedulerVars
    <2> QED
      BY <1>1, <2>1, <2>2, <2>3, <2>4 DEF SchedulerNext
  <1>2. Gone => [Gone]_schedulerVars
    OBVIOUS
  <1> QED
    BY <1>1, <1>2, SchedulerInvariant, PTL DEF SchedulerSpec, GoneForGood

\* Of all scheduled wakeups it is an earliest one that is called back.
THEOREM CallbacksInOrder == SchedulerSpec => EarliestFirst
  <1> DEFINE InOrder == \A c \in called' \ called : c.wakeup \in Earliest(scheduled)
  <1>1. ASSUME SchedulerInv, [SchedulerNext]_schedulerVars PROVE InOrder
    <2>1. CASE timerfdEventHandler
      BY <2>1, <1>1, ReceivedIsEarliest
    <2>2. CASE ~timerfdEventHandler
      BY <1>1, <2>2 DEF SchedulerNext, scheduleWakeup, clearWakeup, Poll, Tick, schedulerVars
    <2> QED
      BY <2>1, <2>2
  <1> QED
    BY <1>1, SchedulerInvariant, PTL DEF SchedulerSpec, EarliestFirst

-----------------------------------------------------------------------------
Flags ==
    /\ lid \in BOOLEAN /\ shutdown \in BOOLEAN /\ isLidClosed \in BOOLEAN /\ counted \in BOOLEAN
    /\ isAboutToSuspend \in BOOLEAN /\ triggerWithMonitor \in BOOLEAN
    /\ hotunplugTimer \in BOOLEAN /\ wakeupTimer \in BOOLEAN /\ resuming \in BOOLEAN
    /\ excused \in BOOLEAN

States ==
    /\ monitor \in {"absent", "present"}
    /\ power \in {"awake", "preparing", "asleep", "resuming"} /\ woken \in {"user", "timer"}
    /\ prepare \in Seq(BOOLEAN) /\ calls \in Nat /\ waiting \in Seq({"Sleep"})
    /\ externalMonitorPresent \in {"unknown", "absent", "present"}
    /\ lidAction \in {"Sleep", "Other", "None"}
    /\ idle \in {"none", "registered", "short", "long"} /\ events \in Nat

LidTypeOK == Flags /\ States

\* The last PrepareForSleep says what logind is doing, and when all are read
\* the daemon knows.
PrepareFollows ==
    /\ prepare # <<>> => prepare[Len(prepare)] = (power # "awake")
    /\ prepare = <<>> => isAboutToSuspend = (power # "awake")

Looked == \/ hotunplugTimer \/ wakeupTimer \/ idle \in {"registered", "short"}
          \/ waiting # <<>> \/ calls > 0
          \/ power # "awake" \/ prepare # <<>>

\* The lid is looked after even while the session is about to end, which may
\* be called off.
Demands ==
    isLidClosed /\ externalMonitorPresent # "unknown" /\ triggersLidAction /\ lidAction = "Sleep"
        /\ ~excused

LidInv == LidTypeOK /\ PrepareFollows /\ (Demands => Looked)

-----------------------------------------------------------------------------
(* What a request does.                                                    *)

LEMMA Read ==
    ASSUME NEW S, NEW q \in Seq(S), q # <<>>
    PROVE  /\ Head(q) \in S /\ Tail(q) \in Seq(S)
           /\ Tail(q) = <<>> => Head(q) = q[Len(q)]
           /\ Tail(q) # <<>> => Tail(q)[Len(Tail(q))] = q[Len(q)]
  <1> DEFINE r == Tail(q)
             n == Len(q)
  <1>1. /\ Head(q) \in S /\ Head(q) = q[1] /\ r \in Seq(S) /\ n \in Nat \ {0}
        /\ Len(r) = n - 1 /\ \A i \in 1 .. n - 1 : r[i] = q[i + 1]
    OBVIOUS
  <1>2. r = <<>> <=> n = 1
    BY <1>1
  <1> HIDE DEF r, n
  <1>3. n # 1 => n - 1 \in 1 .. n - 1 /\ (n - 1) + 1 = n
    BY <1>1
  <1> QED
    BY <1>1, <1>2, <1>3 DEF r, n

LEMMA Sent ==
    ASSUME NEW S, NEW q \in Seq(S), NEW e \in S
    PROVE  /\ Append(q, e) \in Seq(S) /\ Append(q, e) # <<>>
           /\ Append(q, e)[Len(Append(q, e))] = e
  OBVIOUS

LEMMA InnermostDone ==
    ASSUME NEW q \in Seq({"Sleep"}), q # <<>>
    PROVE  SubSeq(q, 1, Len(q) - 1) \in Seq({"Sleep"})
  OBVIOUS

\* A request keeps what waits, and a request for sleep ends up waiting, unless
\* the session is about to end, or logind is at it already.
LEMMA RequestWaits ==
    ASSUME LidTypeOK, NEW action, processAction(action)
    PROVE  /\ waiting' \in Seq({"Sleep"})
           /\ waiting # <<>> => waiting' # <<>>
           /\ action = "Sleep" /\ ~shutdown /\ ~isAboutToSuspend => waiting' # <<>>
  <1>1. waiting \in Seq({"Sleep"}) /\ MaxWaiting # 0
    BY LidAssumption DEF LidTypeOK, States
  <1>2. CASE UNCHANGED waiting
    <2>1. Len(waiting) = MaxWaiting => waiting # <<>>
      BY <1>1
    <2>2. action = "Sleep" /\ ~shutdown /\ ~isAboutToSuspend /\ waiting' # Append(waiting, action)
              => Len(waiting) = MaxWaiting
      BY DEF processAction, triggerImpl
    <2>3. waiting' # Append(waiting, action)
      BY <1>1, <1>2
    <2> QED
      BY <1>1, <1>2, <2>1, <2>2, <2>3
  <1>3. CASE ~UNCHANGED waiting
    <2>1. action = "Sleep" /\ waiting' = Append(waiting, "Sleep")
      BY <1>3 DEF processAction, triggerImpl
    <2> QED
      BY <1>1, <2>1, Sent
  <1> QED
    BY <1>2, <1>3

LEMMA AboutToSuspendIsSeen ==
    ASSUME PrepareFollows, isAboutToSuspend
    PROVE  power # "awake" \/ prepare # <<>>
  BY DEF PrepareFollows

-----------------------------------------------------------------------------
(* Types.                                                                  *)

\* Every step of the lid, of logind and of the daemon keeps the flags.
LEMMA FlagsKept == LidTypeOK /\ [ButtonsNext]_buttonsVars => Flags'
  <1> USE DEF world, logind, suspend, known, timers, Flags, LidTypeOK
  <1>1. ASSUME LidTypeOK, MoveLid PROVE Flags'
    BY <1>1, Zenon DEF MoveLid
  <1>2. ASSUME LidTypeOK, PlugMonitor PROVE Flags'
    BY <1>2, Zenon DEF PlugMonitor
  <1>3. ASSUME LidTypeOK, Shutdown PROVE Flags'
    BY <1>3, Zenon DEF Shutdown
  <1>4. ASSUME LidTypeOK, Suspends PROVE Flags'
    BY <1>4, Zenon DEF Suspends
  <1>5. ASSUME LidTypeOK, FallAsleep PROVE Flags'
    BY <1>5, Zenon DEF FallAsleep
  <1>6. ASSUME LidTypeOK, Resumes PROVE Flags'
    BY <1>6, Zenon DEF Resumes
  <1>7. ASSUME LidTypeOK, onLidClosedChanged PROVE Flags'
    BY <1>7, Zenon DEF onLidClosedChanged, Dropped
  <1>8. ASSUME LidTypeOK, configurationChanged PROVE Flags'
    BY <1>8, Zenon DEF configurationChanged, checkOutputs
  <1>9. ASSUME LidTypeOK, reactToDisplayHotunplug PROVE Flags'
    BY <1>9, Zenon DEF reactToDisplayHotunplug, Dropped
  <1>10. ASSUME LidTypeOK, checkWakeup PROVE Flags'
    BY <1>10, Zenon DEF checkWakeup, Dropped
  <1>11. ASSUME LidTypeOK, Request PROVE Flags'
    BY <1>11, Zenon DEF Request
  <1>12. ASSUME LidTypeOK, HelperDone PROVE Flags'
    BY <1>12, Zenon DEF HelperDone
  <1>13. ASSUME LidTypeOK, aboutToSuspend PROVE Flags'
    BY <1>13, Zenon DEF aboutToSuspend, snapshotWakeupCounts
  <1>14. ASSUME LidTypeOK, resumeFromSuspend PROVE Flags'
    BY <1>14, Zenon DEF resumeFromSuspend
  <1>15. ASSUME LidTypeOK, onIdleTimeout PROVE Flags'
    BY <1>15, Zenon DEF onIdleTimeout, Dropped
  <1>16. ASSUME LidTypeOK, onWakeupFromIdle PROVE Flags'
    BY <1>16, Zenon DEF onWakeupFromIdle
  <1>17. ASSUME LidTypeOK, NEW by \in {"user", "timer"}, Wake(by) PROVE Flags'
    BY <1>17, Zenon DEF Wake
  <1>18. ASSUME LidTypeOK, NEW p \in Profiles, NEW buttonsSet \in BOOLEAN, NEW force \in BOOLEAN,
                loadProfile(p, buttonsSet, force)
         PROVE  Flags'
    BY <1>18, LidAssumption, Zenon DEF loadProfile, Dropped
  <1>19. ASSUME LidTypeOK, UNCHANGED buttonsVars PROVE Flags'
    BY <1>19, Zenon DEF buttonsVars
  <1> QED
    BY <1>1, <1>2, <1>3, <1>4, <1>5, <1>6, <1>7, <1>8, <1>9, <1>10, <1>11, <1>12, <1>13, <1>14,
       <1>15, <1>16, <1>17, <1>18, <1>19 DEF ButtonsNext, Daemon

\* And what is not a flag.
LEMMA StatesKept == LidTypeOK /\ [ButtonsNext]_buttonsVars => States'
  <1> USE DEF world, logind, suspend, known, timers
  <1>1. ASSUME LidTypeOK, MoveLid \/ PlugMonitor \/ Shutdown PROVE States'
    BY <1>1 DEF LidTypeOK, States, MoveLid, PlugMonitor, Shutdown, Happens
  <1>2. ASSUME LidTypeOK, Suspends PROVE States'
    <2>1. prepare' \in Seq(BOOLEAN)
      BY <1>2, Sent DEF LidTypeOK, States, Suspends
    <2>2. calls' \in Nat /\ events' \in Nat
      <3>1. calls \in Nat /\ events \in Nat 
            /\ \/ calls > 0 /\ calls' = calls - 1 /\ events' = events
               \/ events' = events + 1 /\ calls' = calls
        BY <1>2 DEF LidTypeOK, States, Suspends, Happens
      <3> QED
        BY <3>1
    <2>3. power' \in {"awake", "preparing", "asleep", "resuming"}
      BY <1>2 DEF LidTypeOK, States, Suspends
    <2> QED
      BY <1>2, <2>1, <2>2, <2>3 DEF LidTypeOK, States, Suspends
  <1>3. ASSUME LidTypeOK, FallAsleep PROVE States'
    BY <1>3 DEF LidTypeOK, States, FallAsleep
  <1>4. ASSUME LidTypeOK, NEW by \in {"user", "timer"}, Wake(by) PROVE States'
    BY <1>4 DEF LidTypeOK, States, Wake, Happens
  <1>5. ASSUME LidTypeOK, Resumes PROVE States'
    <2>1. prepare' \in Seq(BOOLEAN)
      BY <1>5, Sent DEF LidTypeOK, States, Resumes
    <2> QED
      BY <1>5, <2>1 DEF LidTypeOK, States, Resumes
  <1>6. ASSUME LidTypeOK, onLidClosedChanged PROVE States'
    <2>1. waiting' \in Seq({"Sleep"})
      BY <1>6, RequestWaits DEF LidTypeOK, States, onLidClosedChanged, onLidClosed
    <2> QED
      BY <1>6, <2>1 DEF LidTypeOK, States, onLidClosedChanged
  <1>7. ASSUME LidTypeOK, configurationChanged PROVE States'
    BY <1>7 DEF LidTypeOK, States, configurationChanged, checkOutputs, triggersLidAction, Triggers
  <1>8. ASSUME LidTypeOK, reactToDisplayHotunplug PROVE States'
    <2>1. waiting' \in Seq({"Sleep"})
      BY <1>8, RequestWaits DEF LidTypeOK, States, reactToDisplayHotunplug
    <2> QED
      BY <1>8, <2>1 DEF LidTypeOK, States, reactToDisplayHotunplug
  <1>9. ASSUME LidTypeOK, checkWakeup PROVE States'
    <2>1. waiting' \in Seq({"Sleep"})
      BY <1>9, RequestWaits DEF LidTypeOK, States, checkWakeup
    <2> QED
      BY <1>9, <2>1 DEF LidTypeOK, States, checkWakeup
  <1>10. ASSUME LidTypeOK, Request PROVE States'
    <2>1. waiting' \in Seq({"Sleep"})
      BY <1>10, RequestWaits DEF Request
    <2> QED
      BY <1>10, <2>1 DEF LidTypeOK, States, Request, Happens
  <1>11. ASSUME LidTypeOK, HelperDone PROVE States'
    <2>1. waiting' \in Seq({"Sleep"})
      BY <1>11, InnermostDone DEF LidTypeOK, States, HelperDone
    <2> QED
      BY <1>11, <2>1 DEF LidTypeOK, States, HelperDone
  <1>12. ASSUME LidTypeOK, aboutToSuspend PROVE States'
    <2>1. prepare' \in Seq(BOOLEAN)
      BY <1>12, Read DEF LidTypeOK, States, aboutToSuspend
    <2> QED
      BY <1>12, <2>1 DEF LidTypeOK, States, aboutToSuspend, snapshotWakeupCounts
  <1>13. ASSUME LidTypeOK, resumeFromSuspend PROVE States'
    <2>1. prepare' \in Seq(BOOLEAN)
      BY <1>13, Read DEF LidTypeOK, States, resumeFromSuspend
    <2> QED
      BY <1>13, <2>1 DEF LidTypeOK, States, resumeFromSuspend
  <1>14. ASSUME LidTypeOK, onIdleTimeout PROVE States'
    <2>1. waiting' \in Seq({"Sleep"})
      BY <1>14, RequestWaits DEF LidTypeOK, States, onIdleTimeout
    <2> QED
      BY <1>14, <2>1 DEF LidTypeOK, States, onIdleTimeout
  <1>15. ASSUME LidTypeOK, onWakeupFromIdle PROVE States'
    BY <1>15 DEF LidTypeOK, States, onWakeupFromIdle, Happens
  <1>16. ASSUME LidTypeOK, NEW p \in Profiles, NEW buttonsSet \in BOOLEAN, NEW force \in BOOLEAN,
                loadProfile(p, buttonsSet, force)
         PROVE  States'
    <2>1. waiting' \in Seq({"Sleep"})
      BY <1>16, RequestWaits DEF LidTypeOK, States, loadProfile, onLidClosed
    <2>3. lidAction' \in {"Sleep", "Other", "None"} 
      BY <1>16, LidAssumption DEF loadProfile
    <2> QED
      BY <1>16, <2>1, <2>3 DEF LidTypeOK, States, loadProfile, Happens
  <1>17. ASSUME LidTypeOK, UNCHANGED buttonsVars PROVE States'
    BY <1>17 DEF LidTypeOK, States, buttonsVars
  <1> QED
    BY <1>1, <1>2, <1>3, <1>4, <1>5, <1>6, <1>7, <1>8, <1>9, <1>10, <1>11, <1>12, <1>13, <1>14,
       <1>15, <1>16, <1>17 DEF ButtonsNext, Daemon

-----------------------------------------------------------------------------
(* What the daemon knows of logind.                                        *)

\* Only logind's signals and the reading of them move the two, and a signal is
\* read in the order in which it was sent.
LEMMA PrepareKept == LidTypeOK /\ PrepareFollows /\ [ButtonsNext]_buttonsVars => PrepareFollows'
  <1> USE DEF world, logind, suspend, known, timers
  <1>1. ASSUME PrepareFollows, UNCHANGED <<power, prepare, isAboutToSuspend>> PROVE PrepareFollows'
    BY <1>1 DEF PrepareFollows
  <1>2. ASSUME PrepareFollows, UNCHANGED <<prepare, isAboutToSuspend>>,
               power # "awake", power' # "awake"
        PROVE  PrepareFollows'
    BY <1>2 DEF PrepareFollows
  <1>3. ASSUME LidTypeOK, PrepareFollows, Suspends PROVE PrepareFollows'
    <2>1. CASE power = "awake"
      <3>1. prepare' # <<>> /\ prepare'[Len(prepare')] = TRUE /\ power' = "preparing"
        <4>1. prepare \in Seq(BOOLEAN) /\ TRUE \in BOOLEAN
          BY <1>3 DEF LidTypeOK, States
        <4>2. prepare' = Append(prepare, TRUE) /\ power' = "preparing"
          BY <1>3, <2>1 DEF Suspends
        <4> QED
          BY <4>1, <4>2, Sent
      <3> QED
        BY <3>1 DEF PrepareFollows
    <2>2. CASE power # "awake"
      BY <1>1, <1>3, <2>2 DEF Suspends
    <2> QED
      BY <2>1, <2>2
  <1>4. ASSUME LidTypeOK, PrepareFollows, Resumes PROVE PrepareFollows'
    <2>1. prepare' # <<>> /\ prepare'[Len(prepare')] = FALSE /\ power' = "awake"
      <3>1. prepare \in Seq(BOOLEAN) /\ FALSE \in BOOLEAN
        BY <1>4 DEF LidTypeOK, States
      <3>2. prepare' = Append(prepare, FALSE) /\ power' = "awake"
        BY <1>4 DEF Resumes
      <3> QED
        BY <3>1, <3>2, Sent
    <2> QED
      BY <2>1 DEF PrepareFollows
  <1>5. ASSUME LidTypeOK, PrepareFollows, aboutToSuspend \/ resumeFromSuspend PROVE PrepareFollows'
    <2>1. prepare \in Seq(BOOLEAN) /\ prepare # <<>> /\ prepare' = Tail(prepare)
          /\ isAboutToSuspend' = Head(prepare) /\ power' = power
      <3>1. Head(prepare) \in BOOLEAN
        BY <1>5, Read DEF LidTypeOK, States, aboutToSuspend, resumeFromSuspend
      <3> QED
        BY <1>5, <3>1 DEF LidTypeOK, States, aboutToSuspend, resumeFromSuspend
    <2>2. prepare[Len(prepare)] = (power # "awake")
      BY <1>5, <2>1 DEF PrepareFollows
    <2>3. /\ Tail(prepare) = <<>> => Head(prepare) = prepare[Len(prepare)]
          /\ Tail(prepare) # <<>> => Tail(prepare)[Len(Tail(prepare))] = prepare[Len(prepare)]
      BY <2>1, Read
    <2> QED
      BY <2>1, <2>2, <2>3 DEF PrepareFollows
  <1>6. FallAsleep => UNCHANGED <<prepare, isAboutToSuspend>> /\ power # "awake" /\ power' # "awake"
    BY DEF FallAsleep
  <1>7. \A by \in {"user", "timer"} : Wake(by) =>
            UNCHANGED <<prepare, isAboutToSuspend>> /\ power # "awake" /\ power' # "awake"
    BY DEF Wake
  <1>8. MoveLid \/ PlugMonitor \/ Shutdown \/ onLidClosedChanged \/ configurationChanged
            \/ reactToDisplayHotunplug \/ checkWakeup \/ Request \/ HelperDone \/ onIdleTimeout
            \/ onWakeupFromIdle \/ (\E p \in Profiles, buttonsSet, force \in BOOLEAN : loadProfile(p, buttonsSet, force))
            \/ UNCHANGED buttonsVars
        => UNCHANGED <<power, prepare, isAboutToSuspend>>
    BY DEF MoveLid, PlugMonitor, Shutdown, onLidClosedChanged, configurationChanged,
           reactToDisplayHotunplug, checkWakeup, Request, HelperDone, onIdleTimeout,
           onWakeupFromIdle, loadProfile, buttonsVars
  <1> QED
    BY <1>1, <1>2, <1>3, <1>4, <1>5, <1>6, <1>7, <1>8 DEF ButtonsNext, Daemon

-----------------------------------------------------------------------------
(* Who looks after the lid.                                                *)

\* A step that moves neither what the lid demands nor who looks after it.
LEMMA LidUntouched ==
    ASSUME Demands => Looked,
           UNCHANGED <<isLidClosed, known, excused, hotunplugTimer, wakeupTimer, idle>>,
           (waiting # <<>> \/ calls > 0 => waiting' # <<>> \/ calls' > 0),
           (power # "awake" \/ prepare # <<>> => power' # "awake" \/ prepare' # <<>>)
    PROVE  (Demands => Looked)'
  BY DEF Demands, Looked, known, triggersLidAction, Triggers

\* A request for the lid's sake is on its way, or was refused because logind is
\* at it, or is dropped and then excused.
LEMMA RequestLooks ==
    ASSUME LidTypeOK, PrepareFollows, processAction("Sleep"), UNCHANGED <<power, prepare>>
    PROVE  shutdown \/ Looked'
  BY RequestWaits, AboutToSuspendIsSeen DEF LidTypeOK, States, Looked

LEMMA LookedKept == LidInv /\ [ButtonsNext]_buttonsVars => (Demands => Looked)'
  <1> USE DEF LidInv, world, logind, suspend, known, timers
  <1>1. ASSUME LidInv, MoveLid \/ PlugMonitor \/ Shutdown \/ FallAsleep \/ UNCHANGED buttonsVars
        PROVE  (Demands => Looked)'
    BY <1>1, LidUntouched DEF MoveLid, PlugMonitor, Shutdown, FallAsleep, buttonsVars
  <1>2. ASSUME LidInv, Suspends PROVE (Demands => Looked)'
    <2>1. power' # "awake"
      BY <1>2 DEF Suspends
    <2> QED
      BY <2>1 DEF Looked
  <1>3. ASSUME LidInv, NEW by \in {"user", "timer"}, Wake(by) PROVE (Demands => Looked)'
    BY <1>3 DEF Wake, Looked
  <1>4. ASSUME LidInv, Resumes PROVE (Demands => Looked)'
    <2>1. prepare' # <<>>
      <3>1. prepare \in Seq(BOOLEAN) /\ FALSE \in BOOLEAN
        BY <1>4 DEF LidTypeOK, States
      <3>2. prepare' = Append(prepare, FALSE) /\ power' = "awake"
        BY <1>4 DEF Resumes
      <3> QED
        BY <3>1, <3>2, Sent
    <2> QED
      BY <2>1 DEF Looked
  <1>5. ASSUME LidInv, onLidClosedChanged PROVE (Demands => Looked)'
    <2>1. CASE lid /\ Demands'
      <3>1. UNCHANGED known /\ lidAction = "Sleep" /\ externalMonitorPresent # "unknown"
            /\ triggersLidAction /\ ~excused'
        BY <1>5, <2>1 DEF onLidClosedChanged, Demands, triggersLidAction, Triggers
      <3>2. processAction("Sleep") /\ ~shutdown
        BY <1>5, <2>1, <3>1 DEF onLidClosedChanged, onLidClosed, Dropped
      <3> QED
        BY <1>5, <3>2, RequestLooks DEF onLidClosedChanged
    <2>2. CASE ~lid
      BY <1>5, <2>2 DEF onLidClosedChanged, Demands
    <2> QED
      BY <2>1, <2>2
  <1>6. ASSUME LidInv, configurationChanged PROVE (Demands => Looked)'
    <2>1. hotunplugTimer \/ hotunplugTimer' \/ ~Demands' \/ Demands
      BY <1>6 DEF LidTypeOK, States, configurationChanged, checkOutputs, Demands,
                        triggersLidAction, Triggers
    <2> QED
      BY <1>6, <2>1 DEF LidTypeOK, States, configurationChanged, checkOutputs, Looked
  <1>7. ASSUME LidInv, reactToDisplayHotunplug PROVE (Demands => Looked)'
    <2>1. CASE Demands'
      <3>1. processAction("Sleep") /\ ~shutdown
        BY <1>7, <2>1 DEF LidTypeOK, States, reactToDisplayHotunplug, Dropped, Demands,
                          triggersLidAction
      <3> QED
        BY <1>7, <3>1, RequestLooks DEF reactToDisplayHotunplug
    <2> QED
      BY <2>1
  <1>8. ASSUME LidInv, checkWakeup PROVE (Demands => Looked)'
    <2>1. CASE Demands'
      <3>1. processAction("Sleep") /\ ~shutdown
        BY <1>8, <2>1 DEF LidTypeOK, States, checkWakeup, Dropped, Demands,
                          triggersLidAction
      <3> QED
        BY <1>8, <3>1, RequestLooks DEF checkWakeup
    <2> QED
      BY <2>1
  <1>9. ASSUME LidInv, Request PROVE (Demands => Looked)'
    <2>1. waiting # <<>> => waiting' # <<>>
      BY <1>9, RequestWaits DEF Request
    <2> QED
      BY <1>9, <2>1, LidUntouched DEF Request
  <1>10. ASSUME LidInv, HelperDone PROVE (Demands => Looked)'
    <2>1. calls' > 0
      BY <1>10 DEF LidTypeOK, States, HelperDone
    <2> QED
      BY <2>1 DEF Looked
  <1>11. ASSUME LidInv, aboutToSuspend PROVE (Demands => Looked)'
    <2>1. isAboutToSuspend'
      BY <1>11 DEF aboutToSuspend
    <2>2. PrepareFollows'
      BY <1>11, PrepareKept DEF ButtonsNext, Daemon
    <2> QED
      BY <2>1, <2>2 DEF Looked, PrepareFollows
  <1>12. ASSUME LidInv, resumeFromSuspend PROVE (Demands => Looked)'
    BY <1>12 DEF resumeFromSuspend, Looked
  <1>13. ASSUME LidInv, onIdleTimeout PROVE (Demands => Looked)'
    <2>1. CASE idle = "registered"
      BY <1>13, <2>1 DEF onIdleTimeout, Looked
    <2>2. CASE idle = "short" /\ Demands'
      <3>1. processAction("Sleep") /\ ~shutdown
        BY <1>13, <2>2 DEF LidTypeOK, States, onIdleTimeout, Dropped, Demands
      <3> QED
        BY <1>13, <3>1, RequestLooks DEF onIdleTimeout
    <2> QED
      BY <1>13, <2>1, <2>2 DEF onIdleTimeout
  <1>14. ASSUME LidInv, onWakeupFromIdle PROVE (Demands => Looked)'
    <2>1. CASE idle # "none"
      BY <1>14, <2>1 DEF LidTypeOK, States, onWakeupFromIdle, Demands
    <2>2. CASE idle = "none"
      <3>1. excused' = excused /\ idle' = idle
        <4>1. excused \in BOOLEAN /\ excused' = (excused \/ FALSE) /\ idle' = "none"
          BY <1>14, <2>2 DEF LidTypeOK, Flags, onWakeupFromIdle
        <4> QED
          BY <2>2, <4>1
      <3> QED
        BY <1>14, <3>1, LidUntouched DEF onWakeupFromIdle
    <2> QED
      BY <2>1, <2>2
  <1>15. ASSUME LidInv, NEW p \in Profiles, NEW buttonsSet \in BOOLEAN, NEW force \in BOOLEAN,
                loadProfile(p, buttonsSet, force)
         PROVE  (Demands => Looked)'
    <2>1. CASE ~force \/ ~isLidClosed
      BY <1>15, <2>1 DEF LidTypeOK, States, loadProfile, Demands
    <2>2. CASE force /\ isLidClosed /\ Demands'
      <3>1. processAction("Sleep") /\ ~shutdown
        BY <1>15, <2>2 DEF LidTypeOK, States, loadProfile, onLidClosed, Dropped, Demands,
                          triggersLidAction
      <3> QED
        BY <1>15, <3>1, RequestLooks DEF loadProfile
    <2> QED
      BY <2>1, <2>2
  <1> QED
    BY <1>1, <1>2, <1>3, <1>4, <1>5, <1>6, <1>7, <1>8, <1>9, <1>10, <1>11, <1>12, <1>13, <1>14,
       <1>15 DEF ButtonsNext, Daemon

-----------------------------------------------------------------------------
(* The theorems.                                                           *)

\* The types, what the daemon knows of logind and who looks after the lid
\* hold from the start and together survive every step.
THEOREM LidCorrect == ButtonsSpec => []LidInv
  <1>1. ButtonsInit => LidInv
    <2>1. ASSUME ButtonsInit PROVE Flags
      BY <2>1, LidAssumption, Zenon DEF ButtonsInit, LidInit, SuspendInit, Flags
    <2>2. ASSUME ButtonsInit PROVE States
      BY <2>2, LidAssumption DEF ButtonsInit, LidInit, SuspendInit, States
    <2>3. ASSUME ButtonsInit PROVE PrepareFollows /\ ~Demands
      BY <2>3 DEF ButtonsInit, SuspendInit, PrepareFollows, Demands
    <2> QED
      BY <2>1, <2>2, <2>3 DEF LidInv, LidTypeOK
  <1>2. LidInv /\ [ButtonsNext]_buttonsVars => LidInv'
    BY FlagsKept, StatesKept, PrepareKept, LookedKept DEF LidInv, LidTypeOK
  <1> QED
    BY <1>1, <1>2, PTL DEF ButtonsSpec

\* SuspendSession refuses a request as in progress only while logind suspends
\* or resumes or has just done so: its flag can never outlive the suspend, in
\* whatever order signals, requests and wakeups come.
THEOREM RefusedOnlyInProgress == ButtonsSpec => []RefusedInProgress
  <1>1. LidInv => RefusedInProgress
    BY AboutToSuspendIsSeen DEF LidInv, RefusedInProgress
  <1> QED
    BY <1>1, LidCorrect, PTL

\* A closed lid that asks for a suspend is never forgotten: HandleButtonEvents
\* and SuspendSession always have a request, a timer or an idle timeout left
\* that will look at it, whatever monitors, profiles and wakeups do.
THEOREM LidNeverForgotten == ButtonsSpec => []LidIsLookedAfter
  <1>1. LidInv => LidIsLookedAfter
    BY DEF LidInv, Demands, Looked, LidIsLookedAfter, LidDemandsSleep
  <1> QED
    BY <1>1, LidCorrect, PTL

-----------------------------------------------------------------------------
(* The brightness of the built-in screen                                   *)

\* What is known of the screen: the compositor knows the request, an event is
\* under way until the last change has been read, and a request that stands is the
\* last one.
Reflected ==
    /\ told = requested
    /\ uevents = 0 => observed = actual
    /\ wanted # Unset => wanted = requested

\* Once a job has written, a brightness that is not the executed one has an event
\* under way that will report it.
Noticed ==
    ~unsure /\ JobWritten /\ actual # executed => uevents > 0 /\ ~OnTheWay(actual)

\* If a change by another program was reported while a job runs, nothing but what
\* was reported is expected.
Overtaken ==
    job # NoJob /\ executed # job.value
        => observed = executed /\ expectedMin = Unset /\ expectedMax = Unset

\* Only a request that stands, or a failure, keeps the requested brightness from
\* being the executed one.
Pursued ==
    /\ job = NoJob /\ ~unsure => requested = executed
    /\ job # NoJob /\ wanted = Unset => requested = executed

BacklightInv == BacklightTypeOK /\ Reflected /\ Noticed /\ Overtaken /\ Pursued

LEMMA InitBacklightInv == BacklightInit => BacklightInv
  <1> SUFFICES ASSUME BacklightInit PROVE BacklightInv
    OBVIOUS
  <1>1. BacklightTypeOK
    <2>1. sets \in 0 .. MaxSets /\ others \in 0 .. MaxOthers /\ uevents \in Nat
      BY BacklightAssumption DEF BacklightInit
    <2> QED
      BY <2>1 DEF BacklightInit, BacklightTypeOK
  <1> QED
    BY <1>1 DEF BacklightInit, BacklightInv, Reflected, Noticed, Overtaken, Pursued

\* A job that is started keeps the invariant.
LEMMA ExecuteKeepsInv ==
    ASSUME BacklightInv, NEW value \in Levels, Execute(value),
           UNCHANGED <<actual, uevents, others, observed>>,
           sets' \in 0 .. MaxSets,
           requested' = value, told' = value, wanted' \in {value, Unset}, unsure' \in BOOLEAN
    PROVE  BacklightInv'
  <1>1. /\ job' = [value |-> value, state |-> "started"]
        /\ job' \in Jobs /\ job' # NoJob
        /\ job'.value = value /\ job'.state = "started" /\ executed' = value
    BY BacklightAssumption DEF Execute, Jobs
  <1>2. /\ observed \in Levels /\ executed \in Levels
        /\ Lower(observed, executed) \in Levels /\ Higher(observed, executed) \in Levels
    BY DEF BacklightInv, BacklightTypeOK, Lower, Higher
  <1>3. BacklightTypeOK'
    BY <1>1, <1>2 DEF Execute, Expect, BacklightInv, BacklightTypeOK
  <1>4. Reflected'
    BY DEF BacklightInv, Reflected
  <1>5. Noticed' /\ Overtaken' /\ Pursued'
    BY <1>1 DEF Noticed, JobWritten, Overtaken, Pursued
  <1> QED
    BY <1>3, <1>4, <1>5 DEF BacklightInv

LEMMA SetKeepsInv ==
    ASSUME BacklightInv, NEW value \in Levels, setBrightness(value)
    PROVE  BacklightInv'
  <1>1. sets' \in 0 .. MaxSets /\ unsure' \in BOOLEAN
    BY BacklightAssumption DEF BacklightInv, BacklightTypeOK, setBrightness, AtRest
  <1>2. CASE job = NoJob
    BY <1>1, <1>2, ExecuteKeepsInv DEF setBrightness, sysfs
  <1>3. CASE job # NoJob
    <2> USE DEF setBrightness, sysfs, tracked
    <2>1. BacklightTypeOK'
      BY <1>1, <1>3 DEF BacklightInv, BacklightTypeOK
    <2>2. Reflected'
      BY DEF BacklightInv, Reflected
    <2>3. Noticed'
      BY <1>3 DEF BacklightInv, Noticed, JobWritten, OnTheWay, Lowest, Highest, AtRest
    <2>4. Overtaken'
      BY <1>3 DEF BacklightInv, Overtaken
    <2>5. Pursued'
      BY <1>3, BacklightAssumption DEF Pursued, Levels, Unset
    <2> QED
      BY <2>1, <2>2, <2>3, <2>4, <2>5 DEF BacklightInv
  <1> QED
    BY <1>2, <1>3

\* What the helper writes is the executed value, or nothing on the way to it.
LEMMA HelperKeepsInv ==
    ASSUME BacklightInv, HelperWrites \/ HelperFails
    PROVE  BacklightInv'
  <1>1. /\ job \in Jobs /\ job' \in Jobs /\ job # NoJob /\ job' # NoJob
        /\ job.state = "started" /\ job'.value = job.value /\ job.value \in Levels
    BY BacklightAssumption
       DEF HelperWrites, HelperFails, BacklightInv, BacklightTypeOK, Jobs
  <1> USE DEF counts, tracked, history, sysfs
  <1>2. CASE HelperWrites
    <2>1. job'.state = "written" /\ uevents \in Nat /\ uevents' = uevents + 1 /\ actual' = job.value
      BY <1>1, <1>2 DEF HelperWrites, Jobs, BacklightInv, BacklightTypeOK
    <2>2. BacklightTypeOK'
      BY <1>1, <1>2, <2>1 DEF HelperWrites, BacklightInv, BacklightTypeOK
    <2>3. Reflected' /\ Pursued' /\ Overtaken'
      BY <1>1, <1>2, <2>1 DEF HelperWrites, BacklightInv, Reflected, Pursued, Overtaken
    <2>4. ASSUME actual' # executed' PROVE ~OnTheWay(actual)'
      <3>1. observed' = executed' /\ expectedMin' = Unset /\ expectedMax' = Unset
        BY <1>1, <1>2, <2>1, <2>4 DEF HelperWrites, BacklightInv, Overtaken
      <3>2. executed' \in Levels /\ actual' \in Levels
        BY <2>2 DEF BacklightTypeOK
      <3> QED
        BY <3>1, <3>2, BacklightAssumption DEF OnTheWay, Lowest, Highest, Higher, Levels, Unset
    <2>5. Noticed'
      BY <2>1, <2>4 DEF Noticed
    <2> QED
      BY <2>2, <2>3, <2>5 DEF BacklightInv
  <1>3. CASE HelperFails
    <2>1. job'.state = "failed"
      BY <1>1, <1>3 DEF HelperFails, Jobs
    <2>2. BacklightTypeOK'
      BY <1>1, <1>3 DEF HelperFails, BacklightInv, BacklightTypeOK
    <2>3. Reflected' /\ Pursued' /\ Overtaken'
      BY <1>1, <1>3 DEF HelperFails, BacklightInv, Reflected, Pursued, Overtaken
    <2>4. Noticed'
      BY <1>1, <2>1 DEF Noticed, JobWritten
    <2> QED
      BY <2>2, <2>3, <2>4 DEF BacklightInv
  <1> QED
    BY <1>2, <1>3

LEMMA ResultKeepsInv ==
    ASSUME BacklightInv, onResult
    PROVE  BacklightInv'
  <1>1. /\ job # NoJob /\ job.state = "written" /\ requested \in Levels
        /\ sets' \in 0 .. MaxSets /\ unsure' \in BOOLEAN
        /\ told = requested /\ wanted \in {requested, Unset}
    BY DEF onResult, counts, history, BacklightInv, BacklightTypeOK, Reflected
  <1> USE DEF sysfs, counts, history, tracked
  <1>2. CASE requested # executed
    <2>1. Execute(requested)
      BY <1>2 DEF onResult
    <2> QED
      BY <1>1, <2>1, ExecuteKeepsInv DEF onResult
  <1>3. CASE requested = executed
    <2>1. BacklightTypeOK'
      BY <1>3 DEF onResult, BacklightInv, BacklightTypeOK
    <2>2. Reflected'
      BY DEF onResult, BacklightInv, Reflected
    <2>3. Noticed'
      BY <1>1, <1>3 DEF onResult, BacklightInv, Noticed, JobWritten, OnTheWay, Lowest, Highest
    <2>4. Overtaken' /\ Pursued'
      BY <1>3 DEF onResult, Overtaken, Pursued
    <2> QED
      BY <2>1, <2>2, <2>3, <2>4 DEF BacklightInv
  <1> QED
    BY <1>2, <1>3

LEMMA ErrorKeepsInv ==
    ASSUME BacklightInv, onError
    PROVE  BacklightInv'
  <1> USE DEF onError, sysfs, counts, tracked
  <1>1. BacklightTypeOK'
    BY DEF BacklightInv, BacklightTypeOK
  <1>2. Reflected' /\ Noticed' /\ Overtaken' /\ Pursued'
    BY DEF BacklightInv, Reflected, Noticed, JobWritten, Overtaken, Pursued
  <1> QED
    BY <1>1, <1>2 DEF BacklightInv

\* A write by another program that is not on the way of the daemon's own change
\* has an event that will report it.
LEMMA OtherKeepsInv ==
    ASSUME BacklightInv, NEW value \in Levels, OtherWrites(value)
    PROVE  BacklightInv'
  <1>1. uevents \in Nat /\ unsure \in BOOLEAN
    BY DEF BacklightInv, BacklightTypeOK
  <1> USE DEF OtherWrites, tracked
  <1>2. unsure' \in BOOLEAN
    BY <1>1, Zenon
  <1>3. BacklightTypeOK'
    BY <1>2, BacklightAssumption DEF BacklightInv, BacklightTypeOK
  <1>4. Reflected' /\ Overtaken'
    BY <1>1 DEF BacklightInv, Reflected, Overtaken
  <1>5. Pursued'
    BY DEF BacklightInv, Pursued
  <1>6. Noticed'
    <2>1. uevents' > 0 /\ actual' = value
      BY <1>1
    <2>2. OnTheWay(actual)' = OnTheWay(value)
      BY DEF OnTheWay, Lowest, Highest
    <2> QED
      BY <1>1, <2>1, <2>2 DEF Noticed, JobWritten
  <1> QED
    BY <1>3, <1>4, <1>5, <1>6 DEF BacklightInv

\* What an event does: it reports the brightness, or it shows one that is
\* executed or on the way; a bound may be lifted then.
Reported ==
    /\ requested' = actual /\ executed' = actual /\ told' = actual /\ wanted' = Unset
    /\ expectedMin' = Unset /\ expectedMax' = Unset
    /\ unsure' = (unsure /\ ~(job = NoJob /\ uevents = 1))

Passed ==
    /\ Quiet /\ executed' = executed
    /\ expectedMin' \in {expectedMin, Unset} /\ expectedMax' \in {expectedMax, Unset}

LEMMA EventReportsOrPasses ==
    ASSUME BacklightInv, onDeviceChanged
    PROVE  /\ UNCHANGED <<actual, counts, job>>
           /\ observed' = actual /\ uevents > 0 /\ uevents' = uevents - 1
           /\ \/ Reported
              \/ /\ Passed
                 /\ actual # executed => OnTheWay(actual)
  <1>1. /\ actual \in Levels /\ observed \in Levels /\ executed \in Levels
        /\ expectedMin \in Levels \cup {Unset} /\ expectedMax \in Levels \cup {Unset}
    BY DEF BacklightInv, BacklightTypeOK
  <1>2. CASE actual = observed
    <2>1. Passed
      BY <1>1, <1>2, BacklightAssumption DEF onDeviceChanged, tracked, Passed, Quiet, Levels
    <2>2. actual # executed => OnTheWay(actual)
      BY <1>1, <1>2, BacklightAssumption
         DEF OnTheWay, Lowest, Highest, Lower, Higher, Levels, Unset
    <2> QED BY <2>1, <2>2 DEF onDeviceChanged
  <1>3. CASE actual > observed
    <2>1. OnBrighter
      BY <1>1, <1>3, BacklightAssumption DEF onDeviceChanged, Levels
    <2>2. CASE ReportExternal
      BY <2>2 DEF ReportExternal, Reported, onDeviceChanged
    <2>3. CASE executed >= actual \/ (executed < actual /\ expectedMax >= actual)
      <3>1. Passed
        BY <1>1, <2>1, <2>3, BacklightAssumption
           DEF OnBrighter, Passed, tracked, ReportExternal, Levels, Unset
      <3>2. actual # executed => OnTheWay(actual)
        BY <1>1, <1>3, <2>3, BacklightAssumption
           DEF OnTheWay, Lowest, Highest, Lower, Higher, Levels, Unset
      <3> QED BY <3>1, <3>2 DEF onDeviceChanged
    <2> QED BY <2>1, <2>2, <2>3 DEF OnBrighter
  <1>4. CASE actual < observed
    <2>1. OnDarker
      BY <1>1, <1>4, BacklightAssumption DEF onDeviceChanged, Levels
    <2>2. CASE ReportExternal
      BY <2>2 DEF ReportExternal, Reported, onDeviceChanged
    <2>3. CASE \/ executed <= actual
               \/ executed > actual /\ expectedMin # Unset /\ expectedMin <= actual
      <3>1. Passed
        BY <1>1, <2>1, <2>3, BacklightAssumption
           DEF OnDarker, Passed, tracked, ReportExternal, Levels, Unset
      <3>2. actual # executed => OnTheWay(actual)
        BY <1>1, <1>4, <2>3, BacklightAssumption
           DEF OnTheWay, Lowest, Highest, Lower, Higher, Levels, Unset
      <3> QED BY <3>1, <3>2 DEF onDeviceChanged
    <2> QED BY <2>1, <2>2, <2>3 DEF OnDarker
  <1> QED
    BY <1>1, <1>2, <1>3, <1>4, BacklightAssumption DEF Levels

LEMMA EventKeepsInv ==
    ASSUME BacklightInv, onDeviceChanged
    PROVE  BacklightInv'
  <1> USE DEF counts
  <1>1. /\ UNCHANGED <<actual, counts, job>>
        /\ observed' = actual /\ uevents > 0 /\ uevents' = uevents - 1
    BY EventReportsOrPasses
  <1>2. actual \in Levels /\ uevents \in Nat /\ unsure \in BOOLEAN
    BY DEF BacklightInv, BacklightTypeOK
  <1>3. CASE Reported
    <2> USE <1>3 DEF Reported
    <2>1. unsure' \in BOOLEAN
      BY <1>2, Zenon
    <2>2. BacklightTypeOK'
      BY <1>1, <1>2, <2>1 DEF BacklightInv, BacklightTypeOK
    <2>3. Reflected' /\ Noticed' /\ Overtaken' /\ Pursued'
      BY <1>1 DEF Reflected, Noticed, JobWritten, Overtaken, Pursued
    <2> QED
      BY <2>2, <2>3 DEF BacklightInv
  <1>4. CASE /\ Passed
             /\ actual # executed => OnTheWay(actual)
    <2> USE <1>4 DEF Passed, Quiet
    <2>1. BacklightTypeOK'
      BY <1>1, <1>2 DEF BacklightInv, BacklightTypeOK
    <2>2. Reflected' /\ Pursued'
      BY <1>1 DEF BacklightInv, Reflected, Pursued
    <2>3. Noticed'
      BY <1>1 DEF BacklightInv, Noticed, JobWritten, OnTheWay, Lowest, Highest
    <2>4. ASSUME job' # NoJob, executed' # job'.value
          PROVE  observed' = executed' /\ expectedMin' = Unset /\ expectedMax' = Unset
      <3>1. observed = executed /\ expectedMin = Unset /\ expectedMax = Unset
        BY <1>1, <2>4 DEF BacklightInv, Overtaken
      <3>2. executed \in Levels
        BY DEF BacklightInv, BacklightTypeOK
      <3>3. actual = executed
        BY <1>2, <1>4, <3>1, <3>2, BacklightAssumption
           DEF OnTheWay, Lowest, Highest, Higher, Levels, Unset
      <3> QED
        BY <1>1, <3>1, <3>3
    <2>5. Overtaken'
      BY <2>4 DEF Overtaken
    <2> QED
      BY <2>1, <2>2, <2>3, <2>5 DEF BacklightInv
  <1> QED
    BY <1>3, <1>4, EventReportsOrPasses

\* The invariant behind the theorems below.
THEOREM BacklightInvariant == BacklightSpec => []BacklightInv
  <1>1. BacklightInv /\ [BacklightNext]_backlightVars => BacklightInv'
    <2> SUFFICES ASSUME BacklightInv, [BacklightNext]_backlightVars PROVE BacklightInv'
      OBVIOUS
    <2>1. ASSUME NEW value \in Levels, setBrightness(value) PROVE BacklightInv'
      BY <2>1, SetKeepsInv
    <2>2. ASSUME NEW value \in Levels, OtherWrites(value) PROVE BacklightInv'
      BY <2>2, OtherKeepsInv
    <2>3. CASE HelperWrites \/ HelperFails
      BY <2>3, HelperKeepsInv
    <2>4. CASE onResult
      BY <2>4, ResultKeepsInv
    <2>5. CASE onError
      BY <2>5, ErrorKeepsInv
    <2>6. CASE onDeviceChanged
      BY <2>6, EventKeepsInv
    <2>7. CASE UNCHANGED backlightVars
      BY <2>7 DEF backlightVars, sysfs, counts, tracked, history, BacklightInv, BacklightTypeOK,
                  Reflected, Noticed, JobWritten, OnTheWay, Lowest, Highest, Overtaken, Pursued
    <2> QED
      BY <2>1, <2>2, <2>3, <2>4, <2>5, <2>6, <2>7 DEF BacklightNext
  <1> QED
    BY <1>1, InitBacklightInv, PTL DEF BacklightSpec

\* At rest the compositor knows the brightness of the screen, in whatever order
\* requests, writes by others, results and events came, unless a job failed or a
\* write by another program looked like one of the daemon's own (setBrightness,
\* onDeviceChanged).
LEMMA InvGivesBelief == BacklightInv => BelievesActual
  BY DEF BacklightInv, Reflected, Noticed, JobWritten, Pursued, AtRest, BelievesActual

THEOREM BeliefCorrect == BacklightSpec => []BelievesActual
  BY InvGivesBelief, BacklightInvariant, PTL

-----------------------------------------------------------------------------
(* The brightness of the built-in screen implements BrightnessPromise.     *)

\* The first of two.
LEMMA FirstOfTwo ==
    ASSUME NEW S, NEW a \in S, NEW b \in S
    PROVE  /\ SubSeq(<<a, b>>, 1, 1) = <<a>> /\ SubSeq(<<a>>, 1, 1) = <<a>>
           /\ Append(<<a>>, b) = <<a, b>>
  <1> DEFINE u == SubSeq(<<a, b>>, 1, 1)
             v == SubSeq(<<a>>, 1, 1)
             w == Append(<<a>>, b)
  <1>1. <<a, b>> \in Seq(S) /\ <<a>> \in Seq(S)
    OBVIOUS
  <1>2. Len(u) = 1 /\ u[1] = a /\ u \in Seq(S)
    BY <1>1
  <1>3. Len(v) = 1 /\ v[1] = a /\ v \in Seq(S)
    BY <1>1
  <1>4. Len(w) = 2 /\ w[1] = a /\ w[2] = b /\ w \in Seq(S)
    BY <1>1
  <1> HIDE DEF u, v, w
  <1>5. u = <<a>> /\ v = <<a>>
    BY <1>2, <1>3
  <1>6. w = <<a, b>>
    BY <1>4
  <1> QED BY <1>5, <1>6 DEF u, v, w

LEMMA SecondOfTwo ==
    ASSUME NEW S, NEW a \in S, NEW b \in S
    PROVE  Tail(<<a, b>>) = <<b>> /\ Tail(<<a>>) = <<>>
  <1> DEFINE u == Tail(<<a, b>>)
             v == <<b>>
             w == Tail(<<a>>)
  <1>1. <<a, b>> \in Seq(S) /\ Len(<<a, b>>) = 2 /\ <<a, b>>[2] = b
    OBVIOUS
  <1>2. u \in Seq(S) /\ Len(u) = 1 /\ u[1] = b
    BY <1>1
  <1>3. v \in Seq(S) /\ Len(v) = 1 /\ v[1] = b
    OBVIOUS
  <1>4. <<a>> \in Seq(S) /\ Len(<<a>>) = 1
    OBVIOUS
  <1>5. w \in Seq(S) /\ Len(w) = 0
    BY <1>4
  <1> HIDE DEF u, v, w
  <1>6. u = v
    BY <1>2, <1>3
  <1>7. w = <<>>
    BY <1>5
  <1> QED BY <1>6, <1>7 DEF u, v, w

LEMMA InitKeepsPromise == BacklightInit => Promise!PromiseInit
  BY BacklightAssumption
     DEF BacklightInit, Promise!PromiseInit, Underway, Requested, AtRest, Levels, Unset

LEMMA UnderwayType ==
    ASSUME BacklightInv
    PROVE  /\ job # NoJob /\ job.state = "started"
                => /\ job.value \in Levels
                   /\ \/ wanted \in {Unset, job.value} /\ Underway = <<job.value>>
                      \/ /\ wanted \in Levels /\ wanted \notin {Unset, job.value}
                         /\ Underway = <<job.value, wanted>>
           /\ ~(job # NoJob /\ job.state = "started") => Underway = Requested
           /\ wanted \in Levels \cup {Unset}
  BY BacklightAssumption DEF Underway, BacklightInv, BacklightTypeOK, Jobs

LEMMA JobUnderway ==
    ASSUME BacklightInv, job # NoJob, job.state = "started"
    PROVE  SubSeq(Underway, 1, 1) = <<job.value>> /\ 1 \in 0 .. Len(Underway)
  <1>1. CASE Underway = <<job.value>> /\ job.value \in Levels
    <2>1. SubSeq(<<job.value>>, 1, 1) = <<job.value>>
      BY <1>1, FirstOfTwo
    <2>2. Len(<<job.value>>) = 1
      OBVIOUS
    <2> QED BY <1>1, <2>1, <2>2
  <1>2. CASE Underway = <<job.value, wanted>> /\ job.value \in Levels /\ wanted \in Levels
    <2>1. SubSeq(<<job.value, wanted>>, 1, 1) = <<job.value>>
      BY <1>2, FirstOfTwo
    <2>2. Len(<<job.value, wanted>>) = 2
      OBVIOUS
    <2> QED BY <1>2, <2>1, <2>2
  <1> QED BY <1>1, <1>2, UnderwayType

LEMMA AskedPromise ==
    ASSUME BacklightInv, NEW value \in Levels, setBrightness(value)
    PROVE  Promise!Ask
  <1>0. unsure \in BOOLEAN /\ unsure' = (unsure /\ ~AtRest)
    BY DEF setBrightness, BacklightInv, BacklightTypeOK
  <1>1. /\ wanted' = value /\ value # Unset /\ job' # NoJob /\ actual' = actual
        /\ IF job = NoJob THEN job' = [value |-> value, state |-> "started"] ELSE job' = job
    BY BacklightAssumption
       DEF setBrightness, Execute, Jobs, sysfs, Levels, Unset, BacklightInv, BacklightTypeOK
  <1>2. \E n \in 0 .. Len(Underway) : Underway' = Append(SubSeq(Underway, 1, n), value)
    <2>1. CASE job = NoJob \/ job.state # "started" \/ job.value = value
      <3>1. Underway' = <<value>>
        BY <1>1, <2>1 DEF Underway, Requested
      <3>2. Underway' = Append(SubSeq(Underway, 1, 0), value) /\ 0 \in 0 .. Len(Underway)
        BY <3>1, UnderwayType DEF Requested
      <3> QED BY <3>2
    <2>2. CASE job # NoJob /\ job.state = "started" /\ job.value # value
      <3>1. Underway' = <<job.value, value>>
        BY <1>1, <2>2 DEF Underway
      <3>2. job.value \in Levels
        BY <2>2, UnderwayType
      <3>3. SubSeq(Underway, 1, 1) = <<job.value>> /\ 1 \in 0 .. Len(Underway)
        BY <2>2, JobUnderway
      <3>4. Append(<<job.value>>, value) = <<job.value, value>>
        BY <3>2, FirstOfTwo
      <3> QED BY <3>1, <3>3, <3>4
    <2> QED BY <2>1, <2>2
  <1>3. ~AtRest'
    BY <1>1 DEF AtRest
  <1>4. (wanted = Unset \/ unsure)' \in {wanted = Unset \/ unsure, FALSE}
    <2>1. CASE unsure /\ ~AtRest
      <3>1. unsure = TRUE
        BY <1>0, <2>1, Zenon
      <3>2. unsure' = TRUE
        BY <1>0, <2>1, Zenon
      <3>3. (wanted = Unset \/ unsure)' = TRUE /\ (wanted = Unset \/ unsure) = TRUE
        BY <3>1, <3>2, Zenon
      <3> QED BY <3>3
    <2>2. CASE ~(unsure /\ ~AtRest)
      <3>1. unsure' = FALSE
        BY <1>0, <2>2, Zenon
      <3> QED BY <1>1, <3>1
    <2> QED BY <2>1, <2>2
  <1>5. (wanted # Unset /\ AtRest /\ ~unsure)' = FALSE
    BY <1>3
  <1>6. /\ 1 # 0 /\ UNCHANGED <<actual, 1>>
        /\ \E v \in Levels, n \in 0 .. Len(Underway) :
               Underway' = Append(SubSeq(Underway, 1, n), v)
    BY <1>1, <1>2
  <1> QED BY <1>4, <1>5, <1>6, Zenon DEF Promise!Ask

\* The helper writes the older of the two, or the only one.
LEMMA HelperPromise ==
    ASSUME BacklightInv, HelperWrites \/ HelperFails
    PROVE  Promise!Write \/ Promise!Fail
  <1>1. /\ job # NoJob /\ job.state = "started" /\ wanted' = wanted /\ unsure' = unsure
        /\ job.value \in Levels
    BY BacklightAssumption
       DEF HelperWrites, HelperFails, history, BacklightInv, BacklightTypeOK, Jobs
  <1>2. job' # NoJob /\ job'.state # "started"
    BY <1>1, BacklightAssumption DEF HelperWrites, HelperFails, BacklightInv, BacklightTypeOK, Jobs
  <1>3. Underway' = Requested
    BY <1>1, <1>2 DEF Underway, Requested
  <1>4. Promise!Proceed /\ Head(Underway) = job.value /\ Underway # <<>>
    <2>1. CASE wanted = Unset
      <3>1. Underway = <<job.value>> /\ Underway' = <<>>
        BY <1>1, <1>3, <2>1, UnderwayType DEF Requested
      <3>2. Underway' = Tail(Underway)
        BY <1>1, <3>1, SecondOfTwo
      <3> QED BY <2>1, <3>1, <3>2 DEF Promise!Proceed
    <2>2. CASE wanted = job.value /\ wanted # Unset
      <3>1. Underway = <<job.value>> /\ Underway' = <<job.value>>
        BY <1>1, <1>3, <2>2, UnderwayType DEF Requested
      <3>2. ~(Len(Underway) > 1) /\ Underway' = Underway
        BY <3>1
      <3> QED BY <3>1, <3>2 DEF Promise!Proceed
    <2>3. CASE wanted \notin {Unset, job.value}
      <3>1. Underway = <<job.value, wanted>> /\ Underway' = <<wanted>> /\ wanted \in Levels
        BY <1>1, <1>3, <2>3, UnderwayType DEF Requested
      <3>2. Underway' = Tail(Underway) /\ Len(Underway) > 1
        BY <1>1, <3>1, SecondOfTwo
      <3> QED BY <3>1, <3>2 DEF Promise!Proceed
    <2> QED BY <2>1, <2>2, <2>3
  <1>5. ~AtRest /\ ~AtRest'
    BY <1>1, <1>2 DEF AtRest
  <1>6. CASE HelperWrites
    <2>1. actual' = Head(Underway)
      BY <1>4, <1>6 DEF HelperWrites
    <2> QED BY <1>1, <1>4, <1>5, <2>1 DEF Promise!Write
  <1>7. CASE HelperFails
    <2>1. actual' = actual
      BY <1>7 DEF HelperFails, sysfs
    <2> QED BY <1>1, <1>4, <1>5, <2>1 DEF Promise!Fail
  <1> QED BY <1>6, <1>7

\* What takes away neither the request nor a job's value may only bring the rest
\* in which the last request is shown.
LEMMA RestPromise ==
    ASSUME BacklightInv, BacklightInv', wanted' = wanted, unsure' = unsure, actual' = actual,
           Underway' = Underway, AtRest => AtRest'
    PROVE  Promise!Settle \/ UNCHANGED Promise!promiseVars
  <1>1. CASE (wanted # Unset /\ AtRest /\ ~unsure)' /\ ~(wanted # Unset /\ AtRest /\ ~unsure)
    <2>1. actual' = wanted'
      BY <1>1 DEF BacklightInv, Reflected, Noticed, JobWritten, Pursued, AtRest
    <2>2. Underway' = <<wanted>>
      BY <1>1 DEF Underway, Requested, AtRest
    <2>3. Promise!Newest = wanted /\ Underway # <<>>
      BY <2>2 DEF Promise!Newest
    <2> QED BY <1>1, <2>1, <2>3 DEF Promise!Settle
  <1>2. CASE (wanted # Unset /\ AtRest /\ ~unsure)' = (wanted # Unset /\ AtRest /\ ~unsure)
    BY <1>2 DEF Promise!promiseVars
  <1> QED BY <1>1, <1>2

LEMMA ResultPromise ==
    ASSUME BacklightInv, BacklightInv', onResult
    PROVE  Promise!Settle \/ UNCHANGED Promise!promiseVars
  <1>1. /\ job # NoJob /\ job.state = "written" /\ actual' = actual
        /\ wanted' = wanted /\ unsure' = unsure
    BY DEF onResult, sysfs, history
  <1>2. ~AtRest /\ Underway = Requested
    BY <1>1 DEF AtRest, Underway
  <1>3. CASE requested # executed
    <2>1. wanted # Unset /\ wanted = requested
      BY <1>1, <1>3 DEF BacklightInv, Pursued, Reflected
    <2>2. job' = [value |-> wanted, state |-> "started"] /\ job' # NoJob
      BY <1>1, <1>3, <2>1, BacklightAssumption
         DEF onResult, Execute, BacklightInv, BacklightTypeOK, Jobs
    <2>3. Underway' = Underway
      BY <1>1, <1>2, <2>1, <2>2 DEF Underway, Requested
    <2> QED BY <1>1, <1>2, <2>3, RestPromise
  <1>4. CASE requested = executed
    <2>1. job' = NoJob
      BY <1>4 DEF onResult
    <2>2. Underway' = Underway
      BY <1>1, <1>2, <2>1 DEF Underway, Requested
    <2> QED BY <1>1, <1>2, <2>2, RestPromise
  <1> QED BY <1>3, <1>4

\* A request is taken back: what the helper has not written yet, it may.
LEMMA TakenBack ==
    ASSUME BacklightInv, wanted' = Unset, actual' = actual,
           job' = job \/ (job' = NoJob /\ job.state = "failed" /\ job # NoJob)
    PROVE  Promise!Revoke
  <1>1. \E n \in 0 .. Len(Underway) : Underway' = SubSeq(Underway, 1, n)
    <2>1. CASE job' # NoJob /\ job'.state = "started"
      <3>1. job # NoJob /\ job.state = "started" /\ job' = job
        BY <2>1
      <3>2. Underway' = <<job.value>>
        BY <3>1 DEF Underway
      <3>3. SubSeq(Underway, 1, 1) = <<job.value>> /\ 1 \in 0 .. Len(Underway)
        BY <3>1, JobUnderway
      <3> QED BY <3>2, <3>3
    <2>2. CASE ~(job' # NoJob /\ job'.state = "started")
      <3>1. Underway' = <<>>
        BY <2>2 DEF Underway, Requested
      <3>2. 0 \in 0 .. Len(Underway) /\ SubSeq(Underway, 1, 0) = <<>>
        BY UnderwayType DEF Requested
      <3> QED BY <3>1, <3>2
    <2> QED BY <2>1, <2>2
  <1> QED BY <1>1 DEF Promise!Revoke

LEMMA OtherPromise ==
    ASSUME BacklightInv, NEW value \in Levels, OtherWrites(value)
    PROVE  Promise!Interfere
  <1>1. unsure \in BOOLEAN /\ uevents \in Nat
    BY DEF BacklightInv, BacklightTypeOK
  <1>2. Underway' = Underway /\ wanted' = wanted
    BY DEF OtherWrites, Underway, Requested
  <1>3. unsure' \in {unsure, TRUE}
    BY <1>1, Zenon DEF OtherWrites
  <1>4. (wanted = Unset \/ unsure)' \in {wanted = Unset \/ unsure, TRUE}
    BY <1>1, <1>2, <1>3, Zenon
  <1>5. ~AtRest' /\ actual' \in Levels
    BY <1>1 DEF OtherWrites, AtRest
  <1> QED BY <1>2, <1>4, <1>5 DEF Promise!Interfere

LEMMA EventPromise ==
    ASSUME BacklightInv, BacklightInv', onDeviceChanged
    PROVE  Promise!Revoke \/ Promise!Settle \/ UNCHANGED Promise!promiseVars
  <1>1. job' = job /\ actual' = actual /\ uevents > 0
    BY EventReportsOrPasses
  <1>2. CASE Reported
    BY <1>1, <1>2, TakenBack DEF Reported
  <1>3. CASE Passed
    <2>1. Underway' = Underway
      BY <1>1, <1>3 DEF Passed, Quiet, Underway, Requested
    <2>2. ~AtRest
      BY <1>1 DEF AtRest
    <2> QED BY <1>1, <1>3, <2>1, <2>2, RestPromise DEF Passed, Quiet
  <1> QED BY <1>2, <1>3, EventReportsOrPasses

\* The requests, jobs and events of the built-in screen and the writes of other
\* programs implement BrightnessPromise, in whatever order they come: no older
\* request is written after a newer one, and what comes to rest shows the last,
\* unless it was taken back in the open or another program's change looked like
\* the daemon's own (setBrightness, its result, onDeviceChanged).
THEOREM BacklightKeepsPromise == BacklightSpec => KeepsPromise
  <1>1. ASSUME BacklightInv, BacklightInv', [BacklightNext]_backlightVars
        PROVE  [Promise!PromiseNext]_Promise!promiseVars
    <2>1. ASSUME NEW value \in Levels, setBrightness(value) PROVE Promise!PromiseNext
      BY <1>1, <2>1, AskedPromise DEF Promise!PromiseNext
    <2>2. ASSUME NEW value \in Levels, OtherWrites(value) PROVE Promise!PromiseNext
      BY <1>1, <2>2, OtherPromise DEF Promise!PromiseNext
    <2>3. CASE HelperWrites \/ HelperFails
      BY <1>1, <2>3, HelperPromise DEF Promise!PromiseNext
    <2>4. CASE onResult
      BY <1>1, <2>4, ResultPromise DEF Promise!PromiseNext
    <2>5. CASE onError
      BY <1>1, <2>5, TakenBack DEF onError, sysfs, Promise!PromiseNext
    <2>6. CASE onDeviceChanged
      BY <1>1, <2>6, EventPromise DEF Promise!PromiseNext
    <2>7. CASE UNCHANGED backlightVars
      BY <2>7 DEF backlightVars, sysfs, history, Promise!promiseVars, Underway, Requested, AtRest
    <2> QED
      BY <1>1, <2>1, <2>2, <2>3, <2>4, <2>5, <2>6, <2>7 DEF BacklightNext
  <1> QED
    BY <1>1, InitKeepsPromise, BacklightInvariant, PTL
       DEF BacklightSpec, KeepsPromise, Promise!PromiseSpec

-----------------------------------------------------------------------------
(* What the helper answers.                                                *)

LEMMA ReadingType ==
    ASSUME NEW n \in Nat, start \in [1 .. n -> Values], stop \in [1 .. n -> Values],
           conservation \in Values,
           NEW k \in LimitKinds
    PROVE  Reading(k) \in Tuples(k)
  <1>2. NotSupported \in [1 .. 2 -> Values] /\ Mode(conservation) \in [1 .. 1 -> Values]
    BY DEF NotSupported, Pair, Mode, Values, Unsupported, Thresholds
  <1>3. getthreshold \in [1 .. 2 -> Values]
    <2>1. CASE Least = {}
      BY <1>2, <2>1 DEF getthreshold
    <2>2. CASE Least # {}
      <3> DEFINE b == CHOOSE b \in Least : TRUE
      <3>1. b \in 1 .. n
        BY <2>2 DEF Least, Installed
      <3>2. start[b] \in Values /\ stop[b] \in Values
        BY <3>1
      <3>3. getthreshold = Pair(start[b], stop[b])
        BY <2>2 DEF getthreshold
      <3> HIDE DEF b
      <3> QED
        BY <3>2, <3>3 DEF Pair
    <2> QED
      BY <2>1, <2>2
  <1> QED
    BY <1>2, <1>3 DEF Reading, Tuples, Shape, LimitKinds

\* A battery without a stop threshold is never the one that is reported.
LEMMA NoStopNoStart ==
    ASSUME getthreshold[2] = Unsupported
    PROVE  getthreshold = NotSupported
  <1>1. CASE Least = {}
    BY <1>1 DEF getthreshold
  <1>2. CASE Least # {}
    <2> DEFINE b == CHOOSE b \in Least : TRUE
    <2>1. stop[b] # Unsupported
      BY <1>2 DEF Least
    <2>2. getthreshold = Pair(start[b], stop[b])
      BY <1>2 DEF getthreshold
    <2> HIDE DEF b
    <2> QED
      BY <2>1, <2>2 DEF Pair
  <1> QED
    BY <1>1, <1>2

\* Batteries that all stop at one value are reported by the first of them.
LEMMA FirstIsReported ==
    ASSUME NEW n \in Nat, n > 0, NEW v \in Thresholds,
           stop' \in [1 .. n -> Values], \A b \in 1 .. n : stop'[b] = v
    PROVE  getthreshold' = Pair(start'[1], v)
  <1>1. v # Unsupported
    BY DEF Thresholds, Unsupported
  <1>2. 1 \in Least'
    BY <1>1 DEF Least, Installed
  <1>3. \A b \in Least' : b = 1
    BY <1>1 DEF Least, Installed, Thresholds
  <1>4. (CHOOSE b \in Least : TRUE)' = 1
    BY <1>2, <1>3
  <1>5. stop'[1] = v
    OBVIOUS
  <1> QED
    BY <1>2, <1>4, <1>5 DEF getthreshold, Pair

LEMMA PairEquality ==
    ASSUME NEW S, NEW p \in [1 .. 2 -> S]
    PROVE  p = Pair(p[1], p[2])
  BY DEF Pair

-----------------------------------------------------------------------------
(* Types.                                                                  *)

LEMMA ShapeOfKinds ==
    /\ "threshold" \in LimitKinds /\ "conservationmode" \in LimitKinds
    /\ "idle" \notin LimitKinds
    /\ Shape("threshold") = 1 .. 2 /\ Shape("conservationmode") = 1 .. 1
  BY DEF LimitKinds, Shape

\* What the page asks for, and what it does next.
LEMMA AsksType ==
    ASSUME LimitsTypeOK, NEW k \in LimitKinds, Asks(k), shown'[k] \in Tuples(k)
    PROVE  step' \in LimitKinds \cup {"idle"} /\ outcome' \in {"none", "ok", "error"}
           /\ (step' \in LimitKinds => args' \in Tuples(step')) /\ refresh' \in Nat
  <1>1. saved[k] \in Tuples(k)
    BY DEF LimitsTypeOK, PerKind
  <1>2. args' \in Tuples(k)
    BY <1>1 DEF Asks, Tuples, Values
  <1> QED
    BY <1>2 DEF Asks, LimitsTypeOK, PerKind

LEMMA NotifiesType ==
    ASSUME LimitsTypeOK, Notifies
    PROVE  step' \in LimitKinds \cup {"idle"} /\ outcome' \in {"none", "ok", "error"}
           /\ (step' \in LimitKinds => args' \in Tuples(step')) /\ refresh' \in Nat
  BY ShapeOfKinds DEF Notifies, LimitsTypeOK, PerKind

LEMMA SavesModeType ==
    ASSUME LimitsTypeOK, SavesMode, shown'["conservationmode"] \in Tuples("conservationmode")
    PROVE  step' \in LimitKinds \cup {"idle"} /\ outcome' \in {"none", "ok", "error"}
           /\ (step' \in LimitKinds => args' \in Tuples(step')) /\ refresh' \in Nat
  BY AsksType, NotifiesType, ShapeOfKinds DEF SavesMode

LEMMA WritesType ==
    ASSUME NEW n \in Nat, NEW file \in [1 .. n -> Values], NEW value \in Values,
           NEW failing, NEW refused
    PROVE  setThresholds(file, value, failing, refused) \in [1 .. n -> Values]
  BY DEF setThresholds

\* What the user can enter.
LEMMA EditedType ==
    /\ \A s, e \in Thresholds :
        /\ Pair(s, e) \in Tuples("threshold")
        /\ \A i \in Shape("threshold") : Pair(s, e)[i] # Unsupported
    /\ \A on \in 0 .. 1 :
        /\ Mode(on) \in Tuples("conservationmode")
        /\ \A i \in Shape("conservationmode") : Mode(on)[i] # Unsupported
  <1>1. \A s, e \in Thresholds : Pair(s, e) \in [1 .. 2 -> Values]
    BY DEF Pair, Values
  <1>2. \A on \in 0 .. 1 : Mode(on) \in [1 .. 1 -> Values]
    BY DEF Mode, Values, Thresholds
  <1>3. \A s, e \in Thresholds : \A i \in 1 .. 2 : Pair(s, e)[i] # Unsupported
    BY DEF Pair, Thresholds, Unsupported
  <1>4. \A on \in 0 .. 1 : \A i \in 1 .. 1 : Mode(on)[i] # Unsupported
    BY DEF Mode, Unsupported
  <1> QED
    BY <1>1, <1>2, <1>3, <1>4, ShapeOfKinds DEF Tuples

LEMMA LimitsTypeInitial == LimitsInit => LimitsTypeOK
  <1> SUFFICES ASSUME LimitsInit PROVE LimitsTypeOK
    OBVIOUS
  <1>1. PICK n \in Nat : start \in [1 .. n -> Values] /\ stop \in [1 .. n -> Values]
    BY DEF LimitsInit, Values
  <1>2. conservation \in Values
    BY DEF LimitsInit, Values, Thresholds
  <1>3. \A k \in LimitKinds : Reading(k) \in Tuples(k)
    BY <1>1, <1>2, ReadingType
  <1>4. /\ DOMAIN saved = LimitKinds /\ DOMAIN shown = LimitKinds /\ DOMAIN daemon = LimitKinds
        /\ \A k \in LimitKinds : saved[k] = Reading(k) /\ shown[k] = Reading(k)
    BY DEF LimitsInit
  <1>5. \A k \in LimitKinds : daemon[k] \in Tuples(k)
    BY DEF LimitsInit, Pair, Mode, LimitKinds, Tuples, Shape, Values, Thresholds, Unsupported
  <1>6. /\ refresh \in Nat /\ asked \in [LimitKinds -> Nat]
        /\ doubt \in BOOLEAN /\ changed \in [LimitKinds -> BOOLEAN] /\ othersWrote \in BOOLEAN
        /\ step = "idle" /\ outcome = "none"
    BY DEF LimitsInit
  <1>7. DOMAIN answers = LimitKinds /\ \A k \in LimitKinds : answers[k] \in Seq(Tuples(k))
    <2>1. \A T : <<>> \in Seq(T)
      OBVIOUS
    <2> QED
      BY <2>1 DEF LimitsInit
  <1> QED
    BY <1>1, <1>2, <1>3, <1>4, <1>5, <1>6, <1>7, ShapeOfKinds DEF LimitsTypeOK, PerKind

LEMMA LimitsTypeNext == LimitsTypeOK /\ [LimitsNext]_limitVars => LimitsTypeOK'
  <1> SUFFICES ASSUME LimitsTypeOK, [LimitsNext]_limitVars PROVE LimitsTypeOK'
    OBVIOUS
  <1>0. PICK n \in Nat : start \in [1 .. n -> Values] /\ stop \in [1 .. n -> Values]
    BY DEF LimitsTypeOK, PerKind
  <1>r. \A k \in LimitKinds : Reading(k) \in Tuples(k)
    BY <1>0, ReadingType DEF LimitsTypeOK, PerKind
  <1>1. CASE Load
    <2>1. \A k \in LimitKinds : saved'[k] \in Tuples(k) /\ shown'[k] \in Tuples(k)
      BY <1>1, <1>r DEF Load, LimitsTypeOK, PerKind
    <2>2. DOMAIN saved' = LimitKinds /\ DOMAIN shown' = LimitKinds /\ doubt' \in BOOLEAN
      BY <1>1 DEF Load
    <2> QED
      BY <1>1, <2>1, <2>2 DEF Load, LimitsTypeOK, PerKind, limitFiles, jobs
  <1>2. ASSUME NEW k \in LimitKinds, NEW v \in Tuples(k), Edit(k, v)
        PROVE  LimitsTypeOK'
    <2>1. shown[k] \in Tuples(k) /\ DOMAIN shown = LimitKinds
      BY DEF LimitsTypeOK, PerKind
    <2>2. DOMAIN shown' = LimitKinds /\ \A j \in LimitKinds \ {k} : shown'[j] = shown[j]
      BY <1>2, <2>1 DEF Edit
    <2>3. shown'[k] = [i \in Shape(k) |-> IF saved[k][i] = Unsupported THEN shown[k][i] ELSE v[i]]
      BY <1>2, <2>1 DEF Edit, Tuples
    <2>4. shown'[k] \in Tuples(k)
      BY <2>1, <2>3 DEF Tuples
    <2>5. doubt' \in BOOLEAN
      BY <1>2 DEF Edit
    <2> QED
      BY <1>2, <2>1, <2>2, <2>4, <2>5 DEF Edit, LimitsTypeOK, PerKind, limitFiles, jobs
  <1>3. CASE Save
    <2>1. \A k \in LimitKinds : shown'[k] \in Tuples(k)
      BY <1>3 DEF Save, LimitsTypeOK, PerKind
    <2>2. step' \in LimitKinds \cup {"idle"} /\ outcome' \in {"none", "ok", "error"}
           /\ (step' \in LimitKinds => args' \in Tuples(step')) /\ refresh' \in Nat
      BY <1>3, <2>1, AsksType, SavesModeType, ShapeOfKinds DEF Save
    <2> QED
      BY <1>3, <2>2 DEF Save, LimitsTypeOK, PerKind, limitFiles
  <1>4. CASE ThresholdSaved
    <2>1. /\ DOMAIN shown' = LimitKinds /\ DOMAIN saved' = LimitKinds
          /\ \A k \in LimitKinds : shown'[k] \in Tuples(k) /\ saved'[k] \in Tuples(k)
      BY <1>4, ShapeOfKinds DEF ThresholdSaved, LimitsTypeOK, PerKind
    <2>2. step' \in LimitKinds \cup {"idle"} /\ outcome' \in {"none", "ok", "error"}
           /\ (step' \in LimitKinds => args' \in Tuples(step')) /\ refresh' \in Nat
      BY <1>4, <2>1, SavesModeType, ShapeOfKinds DEF ThresholdSaved
    <2> QED
      BY <1>4, <2>1, <2>2 DEF ThresholdSaved, LimitsTypeOK, PerKind, limitFiles
  <1>5. CASE ModeSaved
    <2>1. /\ DOMAIN shown' = LimitKinds /\ DOMAIN saved' = LimitKinds
          /\ \A k \in LimitKinds : shown'[k] \in Tuples(k) /\ saved'[k] \in Tuples(k)
      BY <1>5, ShapeOfKinds DEF ModeSaved, LimitsTypeOK, PerKind
    <2>2. step' \in LimitKinds \cup {"idle"} /\ outcome' \in {"none", "ok", "error"}
           /\ (step' \in LimitKinds => args' \in Tuples(step')) /\ refresh' \in Nat
      BY <1>5, NotifiesType DEF ModeSaved
    <2> QED
      BY <1>5, <2>1, <2>2 DEF ModeSaved, LimitsTypeOK, PerKind, limitFiles
  <1>6. CASE HelperSetsThreshold
    <2>1. outcome' \in {"none", "ok", "error"} /\ doubt' \in BOOLEAN
          /\ changed' \in [LimitKinds -> BOOLEAN]
      BY <1>6 DEF HelperSetsThreshold, setthreshold, LimitsTypeOK, PerKind
    <2>2. start' \in [1 .. n -> Values] /\ stop' \in [1 .. n -> Values]
      <3>1. args[1] \in Values /\ args[2] \in Values
        BY <1>6, ShapeOfKinds DEF HelperSetsThreshold, LimitsTypeOK, Tuples
      <3>2. CASE UNCHANGED <<start, stop>>
        BY <1>0, <3>2
      <3>3. CASE setthreshold
        BY <1>0, <3>1, <3>3, WritesType DEF setthreshold
      <3> QED
        BY <1>6, <3>2, <3>3 DEF HelperSetsThreshold
    <2> QED
      BY <1>6, <2>1, <2>2 DEF HelperSetsThreshold, LimitsTypeOK, PerKind, jobs
  <1>7. CASE HelperSetsMode
    <2>1. args[1] \in Values
      BY <1>7, ShapeOfKinds DEF HelperSetsMode, LimitsTypeOK, PerKind, Tuples
    <2>2. conservation' \in Values
      BY <1>7, <2>1 DEF HelperSetsMode, LimitsTypeOK
    <2>3. changed' \in [LimitKinds -> BOOLEAN] /\ doubt' \in BOOLEAN /\ outcome' \in {"none", "ok", "error"}
      BY <1>7 DEF HelperSetsMode, LimitsTypeOK
    <2> QED
      BY <1>7, <2>2, <2>3 DEF HelperSetsMode, LimitsTypeOK, PerKind, jobs
  <1>8. CASE OthersWrite
    <2>1. start' \in [1 .. n -> Values] /\ stop' \in [1 .. n -> Values]
      BY <1>0, <1>8 DEF OthersWrite, Installed, Values
    <2>2. conservation' \in Values
      BY <1>8 DEF OthersWrite, Values, Thresholds
    <2>3. changed' \in [LimitKinds -> BOOLEAN] /\ doubt' \in BOOLEAN /\ othersWrote' \in BOOLEAN
      BY <1>8 DEF OthersWrite
    <2> QED
      BY <1>8, <2>1, <2>2, <2>3 DEF OthersWrite, LimitsTypeOK, PerKind, page, jobs
  <1>9. CASE RefreshStatus
    <2>0. asked \in [LimitKinds -> Nat]
      BY DEF LimitsTypeOK
    <2>1. asked' \in [LimitKinds -> Nat]
      BY <1>9, <2>0 DEF RefreshStatus
    <2>3. refresh' \in Nat
      BY <1>9 DEF RefreshStatus, LimitsTypeOK
    <2>2. changed' \in [LimitKinds -> BOOLEAN] /\ othersWrote' \in BOOLEAN
      BY <1>9 DEF RefreshStatus
    <2> QED
      BY <1>9, <2>1, <2>2, <2>3 DEF RefreshStatus, LimitsTypeOK, PerKind, limitFiles, page
  <1>10. ASSUME NEW k \in LimitKinds, HelperReads(k)
         PROVE  LimitsTypeOK'
    <2>1. DOMAIN answers' = LimitKinds /\ \A j \in LimitKinds : answers'[j] \in Seq(Tuples(j))
      BY <1>10, <1>r DEF HelperReads, LimitsTypeOK, PerKind
    <2>2. asked' \in [LimitKinds -> Nat]
      BY <1>10 DEF HelperReads, LimitsTypeOK
    <2> QED
      BY <1>10, <2>1, <2>2 DEF HelperReads, LimitsTypeOK, PerKind, limitFiles, page
  <1>11. ASSUME NEW k \in LimitKinds, ReadsAnswer(k)
         PROVE  LimitsTypeOK'
    <2>1. DOMAIN answers' = LimitKinds /\ \A j \in LimitKinds : answers'[j] \in Seq(Tuples(j))
      BY <1>11 DEF ReadsAnswer, LimitsTypeOK, PerKind
    <2>2. Head(answers[k]) \in Tuples(k) /\ daemon[k] \in Tuples(k) /\ DOMAIN daemon = LimitKinds
      BY <1>11 DEF ReadsAnswer, LimitsTypeOK, PerKind
    <2>3. Heard(daemon[k], Head(answers[k])) \in Tuples(k)
      BY <2>2 DEF Heard, Tuples
    <2>4. DOMAIN daemon' = LimitKinds /\ \A j \in LimitKinds : daemon'[j] \in Tuples(j)
      BY <1>11, <2>2, <2>3 DEF ReadsAnswer, LimitsTypeOK, PerKind
    <2> QED
      BY <1>11, <2>1, <2>4 DEF ReadsAnswer, LimitsTypeOK, PerKind, limitFiles, page
  <1>12. CASE UNCHANGED limitVars
    BY <1>12 DEF LimitsTypeOK, PerKind, limitVars, limitFiles, page, jobs
  <1>13. CASE Edits
    BY <1>2, <1>13, EditedType, ShapeOfKinds DEF Edits
  <1> QED
    BY <1>1, <1>3, <1>4, <1>5, <1>6, <1>7, <1>8, <1>9, <1>10, <1>11, <1>12, <1>13 DEF LimitsNext

\* The state is always of its type.
THEOREM LimitsTypeCorrect == LimitsSpec => []LimitsTypeOK
  BY LimitsTypeInitial, LimitsTypeNext, PTL DEF LimitsSpec

-----------------------------------------------------------------------------
(* What the page takes for saved.                                          *)

LEMMA ReadingStays ==
    /\ UNCHANGED <<start, stop>> => Reading("threshold")' = Reading("threshold")
    /\ UNCHANGED conservation => Reading("conservationmode")' = Reading("conservationmode")
  <1>1. UNCHANGED <<start, stop>> => Least' = Least
    BY DEF Least, Installed
  <1>2. UNCHANGED <<start, stop>> => getthreshold' = getthreshold
    BY <1>1 DEF getthreshold, NotSupported
  <1> QED
    BY <1>2 DEF Reading

\* What is supported is shown, and asked for.
ShownInv ==
    /\ \A k \in LimitKinds : \A i \in Shape(k) : shown[k][i] = Unsupported => saved[k][i] = Unsupported
    /\ step \in LimitKinds => \A i \in Shape(step) :
                                 args[i] = Unsupported <=> saved[step][i] = Unsupported

PageInv ==
    ~doubt =>
        /\ step = "idle" => \A k \in LimitKinds : saved[k] = Reading(k)
        /\ step = "threshold" =>
            /\ saved["conservationmode"] = Reading("conservationmode")
            /\ outcome # "ok" => saved["threshold"] = Reading("threshold")
            /\ outcome = "ok" => args = Reading("threshold")
        /\ step = "conservationmode" =>
            /\ saved["threshold"] = Reading("threshold")
            /\ args = shown["conservationmode"]
            /\ outcome # "ok" => saved["conservationmode"] = Reading("conservationmode")
            /\ outcome = "ok" => args = Reading("conservationmode")

\* When the helper has written all that it was asked for, that is what it reads.
LEMMA WrittenIsRead ==
    ASSUME LimitsTypeOK, ShownInv, PageInv, step = "threshold", outcome = "none", ~Invalid(args),
           setthreshold, ~doubt'
    PROVE  outcome' = "ok" /\ getthreshold' = args
  <1>0. PICK n \in Nat : start \in [1 .. n -> Values] /\ stop \in [1 .. n -> Values]
    BY DEF LimitsTypeOK
  <1>1. /\ outcome' = "ok" /\ ~doubt /\ ~Unlike
        /\ {} \in Failures(start, args[1])
        /\ start' = setThresholds(start, args[1], {}, {})
        /\ stop' = setThresholds(stop, args[2], {}, {})
    BY DEF setthreshold
  <1>2. args \in [1 .. 2 -> Values] /\ saved["threshold"] = getthreshold
        /\ \A i \in 1 .. 2 : args[i] = Unsupported <=> getthreshold[i] = Unsupported
    BY <1>1, ShapeOfKinds DEF LimitsTypeOK, PageInv, ShownInv, Tuples, Reading
  <1>3. args = Pair(args[1], args[2])
    BY <1>2, PairEquality
  <1>4. args[2] # Unsupported
    <2> SUFFICES ASSUME args[2] = Unsupported PROVE FALSE
      OBVIOUS
    <2>1. getthreshold = NotSupported
      BY <1>2, NoStopNoStart
    <2>2. args[1] = Unsupported
      BY <1>2, <2>1 DEF NotSupported, Pair
    <2> QED
      BY <1>3, <2>2 DEF Invalid, NotSupported
  <1>5. Least # {}
    BY <1>2, <1>4 DEF getthreshold, NotSupported, Pair
  <1> DEFINE r == CHOOSE b \in Least : TRUE
  <1>6. r \in 1 .. n /\ getthreshold = Pair(start[r], stop[r])
    BY <1>0, <1>5 DEF Least, Installed, getthreshold
  <1> HIDE DEF r
  <1>7. n > 0 /\ 1 \in 1 .. n
    BY <1>6
  <1>8. stop' \in [1 .. n -> Values] /\ \A b \in 1 .. n : stop'[b] = args[2]
    BY <1>0, <1>1, <1>2, <1>4 DEF setThresholds
  <1>9. args[2] \in Thresholds
    BY <1>2, <1>4 DEF Values
  <1>10. getthreshold' = Pair(start'[1], args[2])
    BY <1>7, <1>8, <1>9, FirstIsReported
  <1>11. start'[1] = args[1]
    <2>1. CASE args[1] # Unsupported
      BY <1>0, <1>1, <1>7, <2>1 DEF setThresholds
    <2>2. CASE args[1] = Unsupported
      <3>1. start[r] = Unsupported
        BY <1>2, <1>6, <2>2 DEF Pair
      <3>2. start[1] = Unsupported
        BY <1>0, <1>1, <1>6, <1>7, <3>1 DEF Unlike, Installed
      <3> QED
        BY <1>0, <1>1, <1>7, <2>2, <3>2 DEF setThresholds
    <2> QED
      BY <2>1, <2>2
  <1> QED
    BY <1>1, <1>3, <1>10, <1>11

LEMMA ShownInitial == LimitsInit => ShownInv
  BY ShapeOfKinds DEF LimitsInit, ShownInv

LEMMA AsksShown ==
    ASSUME LimitsTypeOK, NEW k \in LimitKinds, Asks(k), saved'[k] = saved[k],
           \A i \in Shape(k) : shown'[k][i] = Unsupported => saved'[k][i] = Unsupported
    PROVE  step' = k /\ \A i \in Shape(k) : args'[i] = Unsupported <=> saved'[k][i] = Unsupported
  <1>1. DOMAIN saved[k] = Shape(k)
    BY DEF LimitsTypeOK, PerKind, Tuples
  <1> QED
    BY <1>1 DEF Asks

LEMMA SavesModeShown ==
    ASSUME LimitsTypeOK, SavesMode, saved'["conservationmode"] = saved["conservationmode"],
           \A k \in LimitKinds : \A i \in Shape(k) : shown'[k][i] = Unsupported => saved'[k][i] = Unsupported
    PROVE  ShownInv'
  <1>1. CASE Needed("conservationmode")
    BY <1>1, AsksShown, ShapeOfKinds DEF SavesMode, ShownInv
  <1>2. CASE ~Needed("conservationmode")
    BY <1>2, ShapeOfKinds DEF SavesMode, Notifies, ShownInv
  <1> QED
    BY <1>1, <1>2

LEMMA ShownNext == LimitsTypeOK /\ ShownInv /\ [LimitsNext]_limitVars => ShownInv'
  <1> SUFFICES ASSUME LimitsTypeOK, ShownInv, [LimitsNext]_limitVars PROVE ShownInv'
    OBVIOUS
  <1>t. /\ \A k \in LimitKinds : DOMAIN shown[k] = Shape(k) /\ DOMAIN saved[k] = Shape(k)
        /\ DOMAIN shown = LimitKinds /\ DOMAIN saved = LimitKinds
    BY DEF LimitsTypeOK, PerKind, Tuples
  <1>1. CASE Load
    <2>1. step' \notin LimitKinds
      BY <1>1, ShapeOfKinds DEF Load
    <2>2. ASSUME NEW k \in LimitKinds, NEW i \in Shape(k), shown'[k][i] = Unsupported
          PROVE  saved'[k][i] = Unsupported
      <3>1. CASE saved'[k] \in {NotSupported, Mode(Unsupported)}
        <4>1. NotSupported \notin {Mode(Unsupported)} /\ \A j \in 1 .. 2 : NotSupported[j] = Unsupported
          BY DEF NotSupported, Pair, Mode
        <4>2. k = "threshold" => saved'[k] # Mode(Unsupported)
          <5>1. k = "threshold" => saved'[k] \in [1 .. 2 -> Values]
            BY <1>1, ReadingType, ShapeOfKinds DEF Load, LimitsTypeOK, Tuples
          <5>2. DOMAIN Mode(Unsupported) = 1 .. 1 /\ 1 .. 1 # 1 .. 2
            BY DEF Mode
          <5> QED
            BY <5>1, <5>2
        <4> QED
          BY <3>1, <4>1, <4>2 DEF LimitKinds, Shape, Mode
      <3>2. CASE saved'[k] \notin {NotSupported, Mode(Unsupported)}
        BY <1>1, <2>2, <3>2 DEF Load
      <3> QED
        BY <3>1, <3>2
    <2> QED
      BY <2>1, <2>2 DEF ShownInv
  <1>2. ASSUME NEW k \in LimitKinds, NEW v, \A i \in Shape(k) : v[i] # Unsupported, Edit(k, v)
        PROVE  ShownInv'
    <2>1. /\ shown'[k] = [i \in Shape(k) |-> IF saved[k][i] = Unsupported THEN shown[k][i] ELSE v[i]]
          /\ \A j \in LimitKinds \ {k} : shown'[j] = shown[j]
          /\ UNCHANGED <<saved, step, args>>
      BY <1>2, <1>t DEF Edit
    <2> QED
      BY <1>2, <2>1 DEF ShownInv
  <1>3. CASE Save
    <2>1. UNCHANGED <<saved, shown>>
      BY <1>3 DEF Save
    <2>2. CASE Needed("threshold")
      BY <1>3, <2>1, <2>2, AsksShown, ShapeOfKinds DEF Save, ShownInv
    <2>3. CASE ~Needed("threshold")
      BY <1>3, <2>1, <2>3, SavesModeShown, ShapeOfKinds DEF Save, ShownInv
    <2> QED
      BY <2>2, <2>3
  <1>4. CASE ThresholdSaved
    <2>1. SavesMode /\ saved'["conservationmode"] = saved["conservationmode"]
          /\ shown'["conservationmode"] = shown["conservationmode"]
      BY <1>4, <1>t, ShapeOfKinds DEF ThresholdSaved
    <2>2. \A i \in Shape("threshold") :
            shown'["threshold"][i] = Unsupported => saved'["threshold"][i] = Unsupported
      BY <1>4, <1>t, ShapeOfKinds DEF ThresholdSaved, ShownInv
    <2> QED
      BY <2>1, <2>2, SavesModeShown DEF ShownInv, LimitKinds
  <1>5. CASE ModeSaved
    <2>1. step' \notin LimitKinds
      BY <1>5, ShapeOfKinds DEF ModeSaved, Notifies
    <2>2. \A k \in LimitKinds : \A i \in Shape(k) : shown'[k][i] = Unsupported => saved'[k][i] = Unsupported
      BY <1>5, <1>t, ShapeOfKinds DEF ModeSaved, ShownInv
    <2> QED
      BY <2>1, <2>2 DEF ShownInv
  <1>6. CASE HelperSetsThreshold \/ HelperSetsMode
    BY <1>6 DEF HelperSetsThreshold, HelperSetsMode, ShownInv
  <1>7. CASE OthersWrite \/ RefreshStatus \/ UNCHANGED limitVars
    BY <1>7 DEF OthersWrite, RefreshStatus, limitVars, page, ShownInv
  <1>8. ASSUME NEW k \in LimitKinds, HelperReads(k) \/ ReadsAnswer(k)
        PROVE  ShownInv'
    BY <1>8 DEF HelperReads, ReadsAnswer, page, ShownInv
  <1>9. CASE Edits
    BY <1>2, <1>9, EditedType, ShapeOfKinds DEF Edits
  <1> QED
    BY <1>1, <1>3, <1>4, <1>5, <1>6, <1>7, <1>8, <1>9 DEF LimitsNext

LEMMA PageInitial == LimitsInit => PageInv
  BY ShapeOfKinds DEF LimitsInit, PageInv

\* What the page does next, when all that it takes for saved is.
LEMMA SavesModeKeeps ==
    ASSUME LimitsTypeOK, SavesMode, UNCHANGED <<start, stop, conservation, doubt>>,
           saved'["conservationmode"] = saved["conservationmode"],
           shown'["conservationmode"] \in Tuples("conservationmode"),
           ~doubt => \A k \in LimitKinds : saved'[k] = Reading(k)
    PROVE  PageInv'
  <1>1. ~doubt' => \A k \in LimitKinds : saved'[k] = Reading(k)'
    BY ReadingStays DEF LimitKinds
  <1>2. CASE Needed("conservationmode")
    <2>1. step' = "conservationmode" /\ outcome' = "none"
      BY <1>2 DEF SavesMode, Asks
    <2>2. saved["conservationmode"] \in [1 .. 1 -> Values]
      BY ShapeOfKinds DEF LimitsTypeOK, PerKind, Tuples
    <2>3. saved["conservationmode"][1] # Unsupported
      BY <1>2, <2>2 DEF Needed
    <2>4. args' = [i \in 1 .. 1 |-> shown'["conservationmode"][i]]
      BY <1>2, <2>2, <2>3 DEF SavesMode, Asks
    <2>5. args' = shown'["conservationmode"]
      BY <2>4, ShapeOfKinds DEF Tuples
    <2> QED
      BY <1>1, <2>1, <2>5, ShapeOfKinds DEF PageInv
  <1>3. CASE ~Needed("conservationmode")
    BY <1>1, <1>3, ShapeOfKinds DEF SavesMode, Notifies, PageInv
  <1> QED
    BY <1>2, <1>3

LEMMA PageNext == LimitsTypeOK /\ ShownInv /\ PageInv /\ [LimitsNext]_limitVars => PageInv'
  <1> SUFFICES ASSUME LimitsTypeOK, ShownInv, PageInv, [LimitsNext]_limitVars PROVE PageInv'
    OBVIOUS
  <1>r. UNCHANGED <<start, stop, conservation>> => \A k \in LimitKinds : Reading(k)' = Reading(k)
    BY ReadingStays DEF LimitKinds
  <1>t. /\ \A k \in LimitKinds : shown[k] \in Tuples(k) /\ saved[k] \in Tuples(k)
        /\ DOMAIN shown = LimitKinds /\ DOMAIN saved = LimitKinds
    BY DEF LimitsTypeOK, PerKind
  <1>1. CASE Load
    <2>1. step' = "idle" /\ \A k \in LimitKinds : saved'[k] = Reading(k)
      BY <1>1 DEF Load
    <2> QED
      BY <1>1, <1>r, <2>1 DEF Load, limitFiles, PageInv
  <1>2. ASSUME NEW k \in LimitKinds, NEW v, Edit(k, v)
        PROVE  PageInv'
    <2>1. k # "conservationmode" => shown'["conservationmode"] = shown["conservationmode"]
      BY <1>2 DEF Edit
    <2>2. step = "conservationmode" /\ ~doubt' => k # "conservationmode"
      BY <1>2 DEF Edit
    <2>3. ~doubt' => ~doubt
      BY <1>2 DEF Edit
    <2> QED
      BY <1>2, <1>r, <2>1, <2>2, <2>3, ShapeOfKinds DEF Edit, limitFiles, PageInv
  <1>3. CASE Save
    <2>1. /\ ~doubt => \A k \in LimitKinds : saved'[k] = Reading(k)
          /\ UNCHANGED <<start, stop, conservation, doubt, saved, shown>>
      BY <1>3 DEF Save, PageInv, limitFiles
    <2>2. CASE Needed("threshold")
      <3>1. step' = "threshold" /\ outcome' = "none"
        BY <1>3, <2>2 DEF Save, Asks
      <3>4. ~doubt' => \A k \in LimitKinds : saved'[k] = Reading(k)'
        BY <1>r, <2>1
      <3> QED
        BY <3>1, <3>4, ShapeOfKinds DEF PageInv
    <2>3. CASE ~Needed("threshold")
      BY <1>3, <1>t, <2>1, <2>3, SavesModeKeeps, ShapeOfKinds DEF Save
    <2> QED
      BY <2>2, <2>3
  <1>4. CASE ThresholdSaved
    <2>1. ~doubt => saved'["threshold"] = Reading("threshold")
      BY <1>4, <1>t, ShapeOfKinds DEF ThresholdSaved, PageInv, LimitsTypeOK
    <2>2. /\ saved'["conservationmode"] = saved["conservationmode"]
          /\ shown'["conservationmode"] = shown["conservationmode"]
      BY <1>4, <1>t, ShapeOfKinds DEF ThresholdSaved
    <2>3. ~doubt => saved'["conservationmode"] = Reading("conservationmode")
      BY <1>4, <2>2 DEF ThresholdSaved, PageInv
    <2>4. ~doubt => \A k \in LimitKinds : saved'[k] = Reading(k)
      BY <2>1, <2>3 DEF LimitKinds
    <2>5. UNCHANGED <<start, stop, conservation, doubt>> /\ SavesMode
      BY <1>4 DEF ThresholdSaved, limitFiles
    <2> QED
      BY <1>t, <2>2, <2>4, <2>5, SavesModeKeeps, ShapeOfKinds
  <1>5. CASE ModeSaved
    <2>1. ~doubt => saved'["conservationmode"] = Reading("conservationmode")
      BY <1>5, <1>t, ShapeOfKinds DEF ModeSaved, PageInv, LimitsTypeOK
    <2>2. ~doubt => saved'["threshold"] = Reading("threshold")
      BY <1>5, <1>t, ShapeOfKinds DEF ModeSaved, PageInv
    <2>3. ~doubt => \A k \in LimitKinds : saved'[k] = Reading(k)
      BY <2>1, <2>2 DEF LimitKinds
    <2>4. UNCHANGED <<start, stop, conservation, doubt>> /\ step' = "idle"
      BY <1>5 DEF ModeSaved, Notifies, limitFiles
    <2> QED
      BY <1>r, <2>3, <2>4 DEF PageInv
  <1>6. CASE HelperSetsThreshold
    <2>1. UNCHANGED <<conservation, shown, saved, step, args>> /\ step = "threshold" /\ outcome = "none"
      BY <1>6 DEF HelperSetsThreshold
    <2>2. ~doubt' => ~doubt
      BY <1>6 DEF HelperSetsThreshold, setthreshold
    <2>3. CASE Invalid(args)
      <3>1. outcome' = "error" /\ UNCHANGED <<start, stop>>
        BY <1>6, <2>3 DEF HelperSetsThreshold
      <3> QED
        BY <2>1, <2>2, <3>1, ReadingStays, ShapeOfKinds DEF PageInv
    <2>4. CASE ~Invalid(args)
      <3>1. setthreshold
        BY <1>6, <2>4 DEF HelperSetsThreshold
      <3>2. ~doubt' => outcome' = "ok" /\ args = Reading("threshold")'
        BY <2>1, <2>4, <3>1, WrittenIsRead DEF Reading
      <3> QED
        BY <2>1, <2>2, <3>2, ReadingStays, ShapeOfKinds DEF PageInv
    <2> QED
      BY <2>3, <2>4
  <1>7. CASE HelperSetsMode
    <2>1. /\ UNCHANGED <<start, stop, shown, saved, step, args>>
          /\ step = "conservationmode" /\ outcome = "none"
      BY <1>7 DEF HelperSetsMode
    <2>2. ~doubt' => ~doubt
      BY <1>7 DEF HelperSetsMode
    <2>3. CASE outcome' = "error"
      <3>1. UNCHANGED conservation
        BY <1>7, <2>3 DEF HelperSetsMode
      <3> QED
        BY <2>1, <2>2, <2>3, <3>1, ReadingStays, ShapeOfKinds DEF PageInv
    <2>4. CASE outcome' = "ok"
      <3>1. ~doubt' => conservation' = args[1]
        BY <1>7, <2>4 DEF HelperSetsMode
      <3>2. args \in [1 .. 1 -> Values]
        BY <2>1, ShapeOfKinds DEF LimitsTypeOK, Tuples
      <3>3. ~doubt' => args = Reading("conservationmode")'
        BY <3>1, <3>2, ShapeOfKinds DEF Reading, Mode
      <3> QED
        BY <2>1, <2>2, <2>4, <3>3, ReadingStays, ShapeOfKinds DEF PageInv
    <2> QED
      BY <1>7, <2>3, <2>4 DEF HelperSetsMode
  <1>8. CASE OthersWrite
    BY <1>8 DEF OthersWrite, PageInv
  <1>9. CASE RefreshStatus
    BY <1>9, <1>r DEF RefreshStatus, PageInv, limitFiles, page, LimitKinds
  <1>10. ASSUME NEW k \in LimitKinds, HelperReads(k) \/ ReadsAnswer(k)
         PROVE  PageInv'
    BY <1>10, <1>r DEF HelperReads, ReadsAnswer, PageInv, limitFiles, page, LimitKinds
  <1>11. CASE UNCHANGED limitVars
    BY <1>11, <1>r DEF PageInv, limitVars, limitFiles, page, LimitKinds
  <1>12. CASE Edits
    BY <1>2, <1>12, ShapeOfKinds DEF Edits
  <1> QED
    BY <1>1, <1>3, <1>4, <1>5, <1>6, <1>7, <1>8, <1>9, <1>10, <1>11, <1>12 DEF LimitsNext

\* The page compares what it shows with what the kernel has.
THEOREM PageCorrect == LimitsSpec => []PageInSync
  <1>1. PageInv => PageInSync
    BY DEF PageInv, PageInSync
  <1> QED
    BY <1>1, LimitsTypeInitial, LimitsTypeNext, ShownInitial, ShownNext, PageInitial, PageNext, PTL DEF LimitsSpec

-----------------------------------------------------------------------------
(* What the daemon announces.                                              *)

Told(k) == IF answers[k] = <<>> THEN Heard(daemon[k], Reading(k)) = daemon[k]
           ELSE answers[k][Len(answers[k])] = Reading(k)

DaemonInv ==
    \A k \in LimitKinds :
        /\ changed[k] => step # "idle" \/ refresh > 0 \/ othersWrote
        /\ ~changed[k] /\ asked[k] = 0 => Told(k)

LEMMA DaemonInitial == LimitsInit => DaemonInv
  BY DEF LimitsInit, DaemonInv

\* Steps of the page.
LEMMA PageStep ==
    ASSUME DaemonInv, UNCHANGED <<start, stop, conservation, daemon, asked, answers, changed, othersWrote>>,
           step' # "idle" \/ refresh' > 0 \/ UNCHANGED <<step, refresh>>
    PROVE  DaemonInv'
  <1>1. \A k \in LimitKinds : Reading(k)' = Reading(k)
    BY ReadingStays DEF LimitKinds
  <1>2. \A k \in LimitKinds : Told(k)' = Told(k)
    BY <1>1 DEF Told, Heard
  <1> QED
    BY <1>2 DEF DaemonInv

LEMMA SavesModeTells ==
    ASSUME LimitsTypeOK, SavesMode
    PROVE  step' # "idle" \/ refresh' > 0
  BY ShapeOfKinds DEF SavesMode, Asks, Notifies, LimitsTypeOK

LEMMA DaemonNext == LimitsTypeOK /\ DaemonInv /\ [LimitsNext]_limitVars => DaemonInv'
  <1> SUFFICES ASSUME LimitsTypeOK, DaemonInv, [LimitsNext]_limitVars PROVE DaemonInv'
    OBVIOUS
  <1>t. /\ \A k \in LimitKinds : asked[k] \in Nat /\ DOMAIN daemon[k] = Shape(k)
        /\ DOMAIN answers = LimitKinds /\ DOMAIN asked = LimitKinds /\ DOMAIN daemon = LimitKinds
        /\ \A k \in LimitKinds : answers[k] \in Seq(Tuples(k)) /\ changed[k] \in BOOLEAN
        /\ refresh \in Nat /\ DOMAIN changed = LimitKinds
    BY DEF LimitsTypeOK, PerKind, Tuples
  <1>1. CASE Load
    BY <1>1, PageStep DEF Load, limitFiles, jobs
  <1>2. ASSUME NEW k, NEW v, Edit(k, v)
        PROVE  DaemonInv'
    BY <1>2, PageStep DEF Edit, limitFiles, jobs
  <1>3. CASE Save
    <2>1. step' # "idle" \/ refresh' > 0
      BY <1>3, SavesModeTells, ShapeOfKinds DEF Save, Asks
    <2> QED
      BY <1>3, <2>1, PageStep DEF Save, limitFiles
  <1>4. CASE ThresholdSaved
    <2>1. step' # "idle" \/ refresh' > 0
      BY <1>4, SavesModeTells DEF ThresholdSaved
    <2> QED
      BY <1>4, <2>1, PageStep DEF ThresholdSaved, limitFiles
  <1>5. CASE ModeSaved
    <2>1. refresh' > 0
      BY <1>5, <1>t DEF ModeSaved, Notifies
    <2> QED
      BY <1>5, <2>1, PageStep DEF ModeSaved, limitFiles
  <1>6. CASE HelperSetsThreshold
    <2>1. CASE Invalid(args)
      BY <1>6, <2>1, PageStep DEF HelperSetsThreshold, jobs
    <2>2. CASE ~Invalid(args)
      <3>1. /\ UNCHANGED <<conservation, step, daemon, refresh, asked, answers, othersWrote>>
            /\ step = "threshold" /\ changed'["threshold"]
            /\ changed'["conservationmode"] = changed["conservationmode"]
        BY <1>6, <1>t, <2>2, ShapeOfKinds DEF HelperSetsThreshold, setthreshold, jobs
      <3>2. Told("conservationmode")' = Told("conservationmode")
        BY <3>1, ReadingStays DEF Told, Heard
      <3> QED
        BY <3>1, <3>2, ShapeOfKinds DEF DaemonInv, LimitKinds
    <2> QED
      BY <2>1, <2>2
  <1>7. CASE HelperSetsMode
    <2>1. CASE outcome' = "error"
      BY <1>7, <2>1, PageStep DEF HelperSetsMode, jobs
    <2>2. CASE outcome' = "ok"
      <3>1. /\ UNCHANGED <<start, stop, step, daemon, refresh, asked, answers, othersWrote>>
            /\ step = "conservationmode" /\ changed'["conservationmode"]
            /\ changed'["threshold"] = changed["threshold"]
        BY <1>7, <1>t, <2>2, ShapeOfKinds DEF HelperSetsMode, jobs
      <3>2. Told("threshold")' = Told("threshold")
        BY <3>1, ReadingStays DEF Told, Heard
      <3> QED
        BY <3>1, <3>2, ShapeOfKinds DEF DaemonInv, LimitKinds
    <2> QED
      BY <1>7, <2>1, <2>2 DEF HelperSetsMode
  <1>8. CASE OthersWrite
    BY <1>8 DEF OthersWrite, DaemonInv
  <1>9. CASE RefreshStatus
    <2>1. \A k \in LimitKinds : asked'[k] # 0 /\ ~changed'[k]
      BY <1>9, <1>t DEF RefreshStatus
    <2> QED
      BY <2>1 DEF DaemonInv
  <1>10. ASSUME NEW k \in LimitKinds, HelperReads(k)
         PROVE  DaemonInv'
    <2>1. /\ UNCHANGED <<start, stop, conservation, step, refresh, daemon, changed, othersWrote>>
          /\ \A j \in LimitKinds \ {k} : asked'[j] = asked[j] /\ answers'[j] = answers[j]
          /\ answers'[k] = Append(answers[k], Reading(k))
      BY <1>10, <1>t DEF HelperReads, limitFiles, page
    <2>2. \A j \in LimitKinds : Reading(j)' = Reading(j)
      BY <2>1, ReadingStays DEF LimitKinds
    <2>3. answers'[k] # <<>> /\ answers'[k][Len(answers'[k])] = Reading(k)
      BY <1>t, <2>1, SMTT(30)
    <2>4. Told(k)' /\ \A j \in LimitKinds \ {k} : Told(j)' = Told(j)
      BY <2>1, <2>2, <2>3 DEF Told, Heard
    <2> QED
      BY <2>1, <2>4 DEF DaemonInv
  <1>11. ASSUME NEW k \in LimitKinds, ReadsAnswer(k)
         PROVE  DaemonInv'
    <2>1. /\ UNCHANGED <<start, stop, conservation, step, refresh, asked, changed, othersWrote>>
          /\ \A j \in LimitKinds \ {k} : daemon'[j] = daemon[j] /\ answers'[j] = answers[j]
          /\ answers[k] # <<>> /\ answers'[k] = Tail(answers[k])
          /\ daemon'[k] = Heard(daemon[k], Head(answers[k]))
      BY <1>11, <1>t DEF ReadsAnswer, limitFiles, page
    <2>2. \A j \in LimitKinds : Reading(j)' = Reading(j)
      BY <2>1, ReadingStays DEF LimitKinds
    <2>3. ASSUME Told(k) PROVE Told(k)'
      <3>1. answers[k][Len(answers[k])] = Reading(k)
        BY <2>1, <2>3 DEF Told
      <3>2. CASE answers'[k] = <<>>
        <4>1. Head(answers[k]) = Reading(k)
          BY <1>t, <2>1, <3>1, <3>2
        <4>2. Heard(daemon'[k], Reading(k)) = daemon'[k]
          BY <1>t, <2>1, <4>1 DEF Heard
        <4> QED
          BY <2>2, <3>2, <4>2 DEF Told, Heard
      <3>3. CASE answers'[k] # <<>>
        <4>1. answers'[k][Len(answers'[k])] = Reading(k)
          BY <1>t, <2>1, <3>1, <3>3
        <4> QED
          BY <2>2, <3>3, <4>1 DEF Told
      <3> QED
        BY <3>2, <3>3
    <2>4. \A j \in LimitKinds \ {k} : Told(j)' = Told(j)
      BY <2>1, <2>2 DEF Told, Heard
    <2> QED
      BY <2>1, <2>3, <2>4 DEF DaemonInv
  <1>12. CASE UNCHANGED limitVars
    BY <1>12, PageStep DEF limitVars, limitFiles, page, jobs
  <1>13. CASE Edits
    BY <1>2, <1>13 DEF Edits
  <1> QED
    BY <1>1, <1>3, <1>4, <1>5, <1>6, <1>7, <1>8, <1>9, <1>10, <1>11, <1>12, <1>13 DEF LimitsNext

\* The daemon announces what the kernel has.
THEOREM DaemonCorrect == LimitsSpec => []DaemonInformed
  <1>1. DaemonInv => DaemonInformed
    BY DEF DaemonInv, DaemonInformed, Told
  <1> QED
    BY <1>1, LimitsTypeInitial, LimitsTypeNext, DaemonInitial, DaemonNext, PTL DEF LimitsSpec

=============================================================================
