--------------------------- MODULE IdleActionsProofs ---------------------------
(***************************************************************************)
(* Theorems about the idle actions, for any actions and keyboard           *)
(* brightness of the profiles and any number of events.                    *)
(*                                                                         *)
(* What the daemon changes is one record, and a handler is a composition   *)
(* of operators on it.  So there is one lemma for each operator: it keeps  *)
(* Sound, a property of the record alone, and a handler keeps Sound as the *)
(* operators do that it is composed of.  The keyboard is treated the same  *)
(* way: Remembers says of the record where the brightness is that the      *)
(* keyboard would have without idleness, and SameMemory that an operator   *)
(* leaves that alone.                                                      *)
(***************************************************************************)
EXTENDS IdleActions, TLAPS

Levels == 0 .. KeyboardMax

Records ==
    [registered : [Actions -> Nat], own : [Actions -> Nat],
     fired : SUBSET Actions, pending : SUBSET Actions,
     catching : BOOLEAN, resuming : BOOLEAN,
     pool : SUBSET Actions, active : SUBSET Actions,
     profile : Profiles, profileActive : BOOLEAN,
     dimmed : BOOLEAN, dimKeyboard : Levels, restore : BOOLEAN, ratio : BOOLEAN,
     dpmsLoaded : BOOLEAN, activatingLock : BOOLEAN, suspending : BOOLEAN,
     dpmsKeyboard : Levels, off : BOOLEAN, keyboard : Levels]

\* DimmingWillEnd, of any record.
WillEnd(s) ==
    s.ratio => \/ s.restore
               \/ s.dimmed /\ Dim \in s.pending /\ (s.catching \/ s.resuming)

\* What is not loaded has no timeouts, and no timeout is registered twice.
Tidy(s, loaded) ==
    /\ loaded \subseteq s.pool
    /\ s.dpmsLoaded <=> Dpms \in loaded
    /\ \A a \in Actions : s.registered[a] <= 1 /\ s.own[a] <= 1
    /\ \A a \in Actions \ loaded : s.registered[a] = 0 /\ s.own[a] = 0

\* What is loaded has its timeout, but for the screen-off action when `waived`,
\* and KIdleTime knows it when `ours' is the active session.
InPlace(s, loaded, waived, ours) ==
    /\ \A a \in loaded : s.own[a] = 0 => a = Dpms /\ waived
    /\ ours => \A a \in loaded : s.registered[a] = s.own[a]

\* While actions are being loaded, `loaded' runs ahead of s.active.
Sound(s, loaded, waived, ours) ==
    s \in Records /\ WillEnd(s) /\ Tidy(s, loaded) /\ InPlace(s, loaded, waived, ours)

SameActions(r, s) ==
    /\ r.pool = s.pool /\ r.active = s.active /\ r.suspending = s.suspending
    /\ r.profile = s.profile

-----------------------------------------------------------------------------
(* Timeouts.                                                               *)

LEMMA Constants ==
    /\ 0 \in Levels /\ KeyboardMax \in Levels
    /\ Dim \in Actions /\ Dpms \in Actions /\ Suspend \in Actions
    /\ Dim # Dpms /\ Dim # Suspend /\ Dpms # Suspend
    /\ \A a \in Actions : a \in {Dim, Dpms, Suspend}
    /\ \A p \in Profiles : /\ IdleActionsOf[p] \in SUBSET Actions
                           /\ KeyboardOf[p] # Unset => KeyboardOf[p] \in Levels
    /\ \A p \in BOOLEAN : ProfileFor(p) \in Profiles
  BY IdleAssumption DEF Levels, Actions, Dim, Dpms, Suspend, Profiles, ProfileFor

\* A simulated activity lets a wakeup follow, if one is wanted.
LEMMA Simulated ==
    ASSUME NEW A, NEW x, NEW w, NEW s, Sound(s, A, x, w)
    PROVE  /\ Sound(simulateUserActivity(s), A, x, w)
           /\ SameActions(simulateUserActivity(s), s)
  <1> DEFINE b == s.resuming \/ s.catching
             r == [s EXCEPT !.fired = {}, !.resuming = b, !.catching = FALSE]
  <1>1. simulateUserActivity(s) = r
    BY DEF simulateUserActivity
  <1>2. b \in BOOLEAN /\ (s.catching \/ s.resuming => b)
    OBVIOUS
  <1> HIDE DEF b
  <1>3. Sound(r, A, x, w) /\ SameActions(r, s)
    BY <1>2 DEF Sound, Records, WillEnd, Tidy, InPlace, SameActions
  <1> QED
    BY <1>1, <1>3

\* The actions' timeouts once more: KIdleTime knows those the actions know.
LEMMA Refreshed ==
    ASSUME NEW A, NEW x, NEW w, NEW s, Sound(s, A, x, w), s.active = A
    PROVE  Sound(refreshTimers(s), A, x, w) /\ SameActions(refreshTimers(s), s)
  BY DEF Sound, Records, WillEnd, Tidy, InPlace, SameActions, refreshTimers

LEMMA PoliciesChanged ==
    ASSUME NEW A, NEW x, NEW w, NEW s, Sound(s, A, x, w), NEW hs, NEW l
    PROVE  Sound(PoliciesChange(s, hs, l), A, x, w) /\ SameActions(PoliciesChange(s, hs, l), s)
  BY Simulated DEF PoliciesChange, SameActions

LEMMA Unregistered ==
    ASSUME NEW s \in Records, NEW a \in Actions
    PROVE  /\ unregisterIdleTimeouts(s, a)
                = [s EXCEPT !.registered = [s.registered EXCEPT ![a] = 0],
                            !.own = [s.own EXCEPT ![a] = 0]]
           /\ unregisterIdleTimeouts(s, a) \in Records
  BY DEF Records, unregisterIdleTimeouts, unregisterActionTimeouts

LEMMA Destroyed ==
    ASSUME NEW s \in Records, NEW a \in Actions
    PROVE  destroyAction(s, a) = unregisterIdleTimeouts(s, a)
  BY DEF destroyAction, unregisterIdleTimeouts, unregisterActionTimeouts, Records

LEMMA Registered ==
    ASSUME NEW s \in Records, NEW a \in Actions
    PROVE  /\ registerIdleTimeout(s, a)
                 = [s EXCEPT !.registered = [s.registered EXCEPT ![a] = s.registered[a] + 1],
                             !.own = [s.own EXCEPT ![a] = s.own[a] + 1],
                             !.fired = s.fired \ {a}]
           /\ registerIdleTimeout(s, a) \in Records
  <1> DEFINE m == s.registered[a] + 1
             n == s.own[a] + 1
  <1>1. m \in Nat /\ n \in Nat
    BY DEF Records
  <1>2. registerIdleTimeout(s, a)
                 = [s EXCEPT !.registered = [s.registered EXCEPT ![a] = m],
                             !.own = [s.own EXCEPT ![a] = n],
                             !.fired = s.fired \ {a}]
    BY Zenon DEF Records, registerIdleTimeout, registerActionTimeout
  <1> HIDE DEF m, n
  <1>3. [s EXCEPT !.registered = [s.registered EXCEPT ![a] = m],
                  !.own = [s.own EXCEPT ![a] = n], !.fired = s.fired \ {a}] \in Records
    BY <1>1 DEF Records
  <1> QED
    BY <1>2, <1>3 DEF m, n

\* An action that had no timeout is loaded with one.
LEMMA LoadedWith ==
    ASSUME NEW A, NEW x, NEW w, NEW s, Sound(s, A, x, w), NEW a \in {Dim, Suspend},
           a \in s.pool \ A
    PROVE  /\ Sound(registerIdleTimeout(s, a), A \cup {a}, x, w)
           /\ SameActions(registerIdleTimeout(s, a), s)
  <1> DEFINE r == registerIdleTimeout(s, a)
  <1>1. s \in Records /\ a \in Actions /\ a # Dpms
    BY Constants DEF Sound
  <1>2. /\ s.registered[a] = 0 /\ s.own[a] = 0
        /\ s.registered[a] + 1 = 1 /\ s.own[a] + 1 = 1
    BY <1>1 DEF Sound, Tidy
  <1>3. /\ r = [s EXCEPT !.registered = [s.registered EXCEPT ![a] = 1],
                         !.own = [s.own EXCEPT ![a] = 1], !.fired = s.fired \ {a}]
        /\ r \in Records
    <2>1. /\ r = [s EXCEPT !.registered = [s.registered EXCEPT ![a] = s.registered[a] + 1],
                           !.own = [s.own EXCEPT ![a] = s.own[a] + 1],
                           !.fired = s.fired \ {a}]
          /\ r \in Records
      BY <1>1, Registered
    <2> QED
      BY <1>2, <2>1, Zenon
  <1> HIDE DEF r
  <1>4. r.registered = [s.registered EXCEPT ![a] = 1] /\ r.own = [s.own EXCEPT ![a] = 1]
    BY <1>1, <1>3 DEF Records
  <1>5. SameActions(r, s) /\ r.dpmsLoaded = s.dpmsLoaded /\ WillEnd(r)
    BY <1>1, <1>3 DEF Records, SameActions, Sound, WillEnd
  <1>6. Tidy(r, A \cup {a})
    BY <1>1, <1>4, <1>5 DEF Records, Sound, Tidy, SameActions
  <1>7. InPlace(r, A \cup {a}, x, w)
    BY <1>1, <1>2, <1>4 DEF Records, Sound, Tidy, InPlace
  <1> QED
    BY <1>3, <1>5, <1>6, <1>7 DEF Sound, r

\* The screen-off action registers its timeout anew, if it is loaded.
LEMMA DpmsAnew ==
    ASSUME NEW A, NEW x, NEW w, NEW s, Sound(s, A, x, w), NEW b \in BOOLEAN, NEW y
    PROVE  LET u == [unregisterIdleTimeouts(s, Dpms) EXCEPT !.activatingLock = b]
               r == IF s.dpmsLoaded THEN registerIdleTimeout(u, Dpms) ELSE u
           IN  Sound(r, A, y, w) /\ SameActions(r, s)
               /\ r.pending = s.pending /\ r.ratio = s.ratio /\ r.restore = s.restore
  <1> DEFINE t == unregisterIdleTimeouts(s, Dpms)
             u == [t EXCEPT !.activatingLock = b]
             r == registerIdleTimeout(u, Dpms)
  <1>1. s \in Records /\ Dpms \in Actions
    BY DEF Sound, Actions
  <1>2. t = [s EXCEPT !.registered = [s.registered EXCEPT ![Dpms] = 0],
                      !.own = [s.own EXCEPT ![Dpms] = 0]]
        /\ t \in Records
    BY <1>1, Unregistered
  <1>3. u = [s EXCEPT !.registered = [s.registered EXCEPT ![Dpms] = 0],
                      !.own = [s.own EXCEPT ![Dpms] = 0], !.activatingLock = b]
        /\ u \in Records
    BY <1>2 DEF Records
  <1>4. r = [u EXCEPT !.registered = [u.registered EXCEPT ![Dpms] = u.registered[Dpms] + 1],
                      !.own = [u.own EXCEPT ![Dpms] = u.own[Dpms] + 1],
                      !.fired = u.fired \ {Dpms}]
        /\ r \in Records
    BY <1>1, <1>3, Registered
  <1> HIDE DEF t, u, r
  <1>5. SameActions(u, s) /\ SameActions(r, s)
        /\ u.pending = s.pending /\ u.ratio = s.ratio /\ u.restore = s.restore
        /\ r.pending = s.pending /\ r.ratio = s.ratio /\ r.restore = s.restore
    BY <1>1, <1>3, <1>4 DEF SameActions, Records
  <1>6. CASE s.dpmsLoaded
    <2>1. r.registered = [s.registered EXCEPT ![Dpms] = 1]
      BY <1>1, <1>3, <1>4 DEF Records
    <2>2. r.own = [s.own EXCEPT ![Dpms] = 1]
      BY <1>1, <1>3, <1>4 DEF Records
    <2>3. Sound(r, A, y, w)
      BY <1>1, <1>3, <1>4, <2>1, <2>2, <1>6 DEF Sound, Records, WillEnd, Tidy, InPlace
    <2> QED
      BY <1>5, <1>6, <2>3 DEF r, u, t
  <1>7. CASE ~s.dpmsLoaded
    <2>1. Sound(u, A, y, w)
      BY <1>1, <1>3, <1>7 DEF Sound, Records, WillEnd, Tidy, InPlace
    <2> QED
      BY <1>5, <1>7, <2>1 DEF u, t
  <1> QED
    BY <1>6, <1>7

LEMMA StandardRegistered ==
    ASSUME NEW A, NEW x, NEW w, NEW s, Sound(s, A, x, w), NEW y
    PROVE  LET r == registerStandardIdleTimeout(s) IN
           /\ Sound(r, A, y, w) /\ SameActions(r, s)
           /\ r.pending = s.pending /\ r.ratio = s.ratio /\ r.restore = s.restore
  <1> DEFINE b == FALSE
             u == [unregisterIdleTimeouts(s, Dpms) EXCEPT !.activatingLock = b]
             r == IF s.dpmsLoaded THEN registerIdleTimeout(u, Dpms) ELSE u
  <1>1. b \in BOOLEAN
    OBVIOUS
  <1> HIDE DEF b
  <1>2. /\ Sound(r, A, y, w) /\ SameActions(r, s)
        /\ r.pending = s.pending /\ r.ratio = s.ratio /\ r.restore = s.restore
    BY <1>1, DpmsAnew
  <1>3. registerStandardIdleTimeout(s) = r
    BY DEF registerStandardIdleTimeout, b
  <1> HIDE DEF r
  <1> QED
    BY <1>2, <1>3

-----------------------------------------------------------------------------
(* The actions.                                                            *)

LEMMA DimTimedOut ==
    ASSUME NEW A, NEW x, NEW w, NEW s, Sound(s, A, x, w)
    PROVE  LET r == [DimTimesOut(s) EXCEPT !.fired = @ \cup {Dim}, !.pending = @ \cup {Dim},
                                           !.catching = TRUE]
           IN  Sound(r, A, x, w) /\ SameActions(r, s)
  <1> DEFINE t == DimTimesOut(s)
             r == [t EXCEPT !.fired = @ \cup {Dim}, !.pending = @ \cup {Dim}, !.catching = TRUE]
  <1>1. s \in Records /\ 0 \in Levels /\ Dim \in Actions
    BY Constants DEF Sound
  <1>2. t \in Records
    BY <1>1 DEF Records, DimTimesOut
  <1>3. /\ SameActions(t, s) /\ t.dpmsLoaded = s.dpmsLoaded
        /\ t.registered = s.registered /\ t.own = s.own
        /\ t.ratio => t.dimmed \/ t.restore
    BY <1>1 DEF Sound, Records, DimTimesOut, WillEnd, SameActions
  <1> HIDE DEF t
  <1>4. /\ r \in Records /\ r.catching /\ Dim \in r.pending
        /\ SameActions(r, t) /\ r.dpmsLoaded = t.dpmsLoaded
        /\ r.registered = t.registered /\ r.own = t.own
        /\ r.ratio => r.dimmed \/ r.restore
    BY <1>1, <1>2, <1>3 DEF Records, SameActions
  <1> HIDE DEF r
  <1>5. Sound(r, A, x, w) /\ SameActions(r, s)
    BY <1>3, <1>4 DEF Sound, WillEnd, Tidy, InPlace, SameActions
  <1> QED
    BY <1>5 DEF r, t

LEMMA DpmsTimedOut ==
    ASSUME NEW A, NEW x, NEW w, NEW s, Sound(s, A, x, w)
    PROVE  LET r == [DpmsTimesOut(s) EXCEPT !.fired = @ \cup {Dpms}, !.pending = @ \cup {Dpms},
                                            !.catching = TRUE]
           IN  Sound(r, A, x, w) /\ SameActions(r, s)
  <1> DEFINE t == DpmsTimesOut(s)
             r == [t EXCEPT !.fired = @ \cup {Dpms}, !.pending = @ \cup {Dpms}, !.catching = TRUE]
  <1>1. s \in Records /\ 0 \in Levels /\ Dpms \in Actions
    BY Constants DEF Sound
  <1>2. t \in Records
    <2> DEFINE u == IF s.keyboard > 0 THEN [s EXCEPT !.dpmsKeyboard = s.keyboard] ELSE s
               v == IF MayChangeScreen(holders) THEN [u EXCEPT !.keyboard = 0] ELSE u
    <2>1. u \in Records
      BY <1>1 DEF Records
    <2> HIDE DEF u
    <2>2. v \in Records
      BY <1>1, <2>1 DEF Records
    <2> HIDE DEF v
    <2>3. [v EXCEPT !.off = TRUE] \in Records
      BY <2>2 DEF Records
    <2>4. t = IF inhibitScreen THEN s ELSE [v EXCEPT !.off = TRUE]
      BY DEF DpmsTimesOut, v, u
    <2> QED
      BY <1>1, <2>3, <2>4
  <1>3. /\ SameActions(t, s) /\ t.dpmsLoaded = s.dpmsLoaded
        /\ t.registered = s.registered /\ t.own = s.own /\ t.pending = s.pending
        /\ t.ratio = s.ratio /\ t.dimmed = s.dimmed /\ t.restore = s.restore
    BY <1>1 DEF Records, DpmsTimesOut, SameActions
  <1> HIDE DEF t
  <1>4. /\ r \in Records /\ r.catching /\ (Dim \in t.pending => Dim \in r.pending)
        /\ SameActions(r, t) /\ r.dpmsLoaded = t.dpmsLoaded
        /\ r.registered = t.registered /\ r.own = t.own
        /\ r.ratio = t.ratio /\ r.dimmed = t.dimmed /\ r.restore = t.restore
    BY <1>1, <1>2 DEF Records, SameActions
  <1> HIDE DEF r
  <1>5. Sound(r, A, x, w) /\ SameActions(r, s)
    BY <1>3, <1>4 DEF Sound, WillEnd, Tidy, InPlace, SameActions
  <1> QED
    BY <1>5 DEF r, t

LEMMA SuspendTimedOut ==
    ASSUME NEW A, NEW x, NEW w, NEW s, Sound(s, A, x, w)
    PROVE  LET r == [s EXCEPT !.fired = @ \cup {Suspend}, !.pending = @ \cup {Suspend},
                              !.catching = TRUE]
           IN  Sound(r, A, x, w) /\ SameActions(r, s)
  BY Constants DEF Sound, Records, WillEnd, Tidy, InPlace, SameActions

LEMMA TimedOut ==
    ASSUME NEW A, NEW x, NEW w, NEW s, Sound(s, A, x, w), NEW a \in Actions
    PROVE  LET r == [TimesOut(s, a) EXCEPT !.fired = @ \cup {a}, !.pending = @ \cup {a},
                                           !.catching = TRUE]
           IN  Sound(r, A, x, w) /\ SameActions(r, s)
  <1>1. CASE a = Dim
    <2>1. TimesOut(s, a) = DimTimesOut(s)
      BY <1>1, Constants DEF TimesOut
    <2> QED
      BY <1>1, <2>1, DimTimedOut
  <1>2. CASE a = Dpms
    <2>1. TimesOut(s, a) = DpmsTimesOut(s)
      BY <1>2, Constants DEF TimesOut
    <2> QED
      BY <1>2, <2>1, DpmsTimedOut
  <1>3. CASE a = Suspend
    <2>1. TimesOut(s, a) = s
      BY <1>3, Constants DEF TimesOut
    <2> QED
      BY <1>3, <2>1, SuspendTimedOut
  <1> QED
    BY <1>1, <1>2, <1>3, Constants

LEMMA DpmsWoken ==
    ASSUME NEW A, NEW x, NEW w, NEW s, Sound(s, A, x, w), NEW hs
    PROVE  LET r == DpmsWakes(s, hs) IN
           /\ Sound(r, A, x, w) /\ SameActions(r, s)
           /\ r.pending = s.pending /\ r.ratio = s.ratio /\ r.restore = s.restore
  <1> DEFINE u == IF s.activatingLock THEN registerStandardIdleTimeout(s) ELSE s
             v == IF u.dpmsKeyboard > 0 /\ MayChangeScreen(hs)
                  THEN [u EXCEPT !.keyboard = u.dpmsKeyboard] ELSE u
             r == [v EXCEPT !.dpmsKeyboard = 0]
  <1>1. /\ Sound(u, A, x, w) /\ SameActions(u, s)
        /\ u.pending = s.pending /\ u.ratio = s.ratio /\ u.restore = s.restore
    <2>1. CASE s.activatingLock
      <3> DEFINE t == registerStandardIdleTimeout(s)
      <3>1. /\ Sound(t, A, x, w) /\ SameActions(t, s)
            /\ t.pending = s.pending /\ t.ratio = s.ratio /\ t.restore = s.restore
        BY StandardRegistered
      <3> HIDE DEF t
      <3>2. u = t
        BY <2>1 DEF t
      <3> QED
        BY <3>1, <3>2
    <2>2. CASE ~s.activatingLock
      BY <2>2 DEF SameActions
    <2> QED
      BY <2>1, <2>2
  <1> HIDE DEF u
  <1>2. /\ Sound(v, A, x, w) /\ SameActions(v, u)
        /\ v.pending = u.pending /\ v.ratio = u.ratio /\ v.restore = u.restore
    BY <1>1 DEF Sound, Records, WillEnd, Tidy, InPlace, SameActions
  <1> HIDE DEF v
  <1>3. /\ Sound(r, A, x, w) /\ SameActions(r, v)
        /\ r.pending = v.pending /\ r.ratio = v.ratio /\ r.restore = v.restore
    BY <1>2, Constants DEF Sound, Records, WillEnd, Tidy, InPlace, SameActions
  <1> HIDE DEF r
  <1>4. r = DpmsWakes(s, hs)
    BY DEF DpmsWakes, r, v, u
  <1> QED
    BY <1>1, <1>2, <1>3, <1>4 DEF SameActions

\* The screen locker outside of a suspend.
LEMMA DpmsLocked ==
    ASSUME NEW A, NEW x, NEW w, NEW s, Sound(s, A, x, w), ~s.suspending, NEW l \in BOOLEAN
    PROVE  Sound(DpmsOnLocker(s, l), A, x, w) /\ SameActions(DpmsOnLocker(s, l), s)
  <1> DEFINE t == unregisterIdleTimeouts(s, Dpms)
             u == [t EXCEPT !.activatingLock = l]
  <1>1. s \in Records /\ (l /\ ~s.suspending) = l
    BY DEF Sound, Records
  <1>2. t \in Records /\ t.dpmsLoaded = s.dpmsLoaded
    <2>1. /\ t = [s EXCEPT !.registered = [s.registered EXCEPT ![Dpms] = 0],
                           !.own = [s.own EXCEPT ![Dpms] = 0]]
          /\ t \in Records
      BY <1>1, Unregistered, Constants
    <2> QED
      BY <1>1, <2>1 DEF Records
  <1>3. u.activatingLock = l /\ u.dpmsLoaded = s.dpmsLoaded
    BY <1>2 DEF Records
  <1>4. DpmsOnLocker(s, l) = IF s.dpmsLoaded THEN registerIdleTimeout(u, Dpms) ELSE u
    BY <1>1, <1>3 DEF DpmsOnLocker
  <1> QED
    BY <1>4, DpmsAnew

LEMMA KeyboardRestored ==
    ASSUME NEW A, NEW x, NEW w, NEW s, Sound(s, A, x, w)
    PROVE  /\ Sound(RestoreKeyboard(s), A, x, w) /\ SameActions(RestoreKeyboard(s), s)
           /\ RestoreKeyboard(s).ratio = s.ratio /\ RestoreKeyboard(s).dimmed = s.dimmed
  BY DEF Sound, Records, WillEnd, Tidy, InPlace, SameActions, RestoreKeyboard

-----------------------------------------------------------------------------
(* Profiles.                                                               *)

\* Wakeups are passed on to all who wait for one, so that a dimmed screen is
\* restored even if KIdleTime has nothing more to announce.
LEMMA ResumedAs ==
    ASSUME NEW A, NEW x, NEW w, NEW s, Sound(s, A, x, w), NEW hs, NEW c \in BOOLEAN
    PROVE  LET r == onResumingFromIdle([s EXCEPT !.resuming = c], hs) IN
           Sound(r, A, x, w) /\ SameActions(r, s)
  <1> DEFINE z == [s EXCEPT !.resuming = c]
             b == z.resuming \/ z.catching
             u == [z EXCEPT !.fired = {}, !.resuming = b, !.catching = FALSE]
             v == IF Dim \in u.pending THEN DimWakes(u) ELSE u
             t == IF Dpms \in v.pending THEN DpmsWakes(v, hs) ELSE v
             r == [t EXCEPT !.pending = {}]
  <1>1. /\ u \in Records /\ SameActions(u, s) /\ Tidy(u, A) /\ InPlace(u, A, x, w)
        /\ u.ratio => u.restore \/ (u.dimmed /\ Dim \in u.pending)
    <2>1. b \in BOOLEAN /\ s \in Records
      BY DEF Sound
    <2> HIDE DEF b
    <2>2. u = [s EXCEPT !.fired = {}, !.resuming = b, !.catching = FALSE]
      BY <2>1 DEF Records
    <2> HIDE DEF z, u
    <2> QED
      BY <2>1, <2>2 DEF Sound, Records, WillEnd, Tidy, InPlace, SameActions
  <1> HIDE DEF u
  <1>2. Sound(v, A, x, w) /\ SameActions(v, u) /\ (v.ratio => v.restore)
    <2>1. /\ v \in Records /\ SameActions(v, u) /\ (v.ratio => v.restore)
          /\ v.dpmsLoaded = u.dpmsLoaded /\ v.registered = u.registered /\ v.own = u.own
      BY <1>1 DEF DimWakes, Records, SameActions
    <2> HIDE DEF v
    <2> QED
      BY <1>1, <2>1 DEF Sound, WillEnd, Tidy, InPlace, SameActions
  <1> HIDE DEF v
  <1>3. Sound(t, A, x, w) /\ SameActions(t, v) /\ (t.ratio => t.restore)
    <2>1. CASE Dpms \in v.pending
      <3> DEFINE y == DpmsWakes(v, hs)
      <3>1. Sound(y, A, x, w) /\ SameActions(y, v) /\ y.ratio = v.ratio /\ y.restore = v.restore
        BY <1>2, DpmsWoken
      <3> HIDE DEF y
      <3>2. t = y
        BY <2>1 DEF y
      <3> QED
        BY <1>2, <3>1, <3>2
    <2>2. CASE Dpms \notin v.pending
      BY <1>2, <2>2 DEF SameActions
    <2> QED
      BY <2>1, <2>2
  <1> HIDE DEF t
  <1>4. Sound(r, A, x, w) /\ SameActions(r, t)
    BY <1>3 DEF Sound, Records, WillEnd, Tidy, InPlace, SameActions
  <1> HIDE DEF r
  <1>5. onResumingFromIdle(z, hs) = r
    BY DEF onResumingFromIdle, simulateUserActivity, r, t, v, u
  <1> HIDE DEF z
  <1>6. Sound(r, A, x, w) /\ SameActions(r, s)
    BY <1>1, <1>2, <1>3, <1>4 DEF SameActions
  <1> QED
    BY <1>5, <1>6 DEF z

LEMMA Resumed ==
    ASSUME NEW A, NEW x, NEW w, NEW s, Sound(s, A, x, w), NEW hs
    PROVE  LET r == onResumingFromIdle(s, hs) IN
           Sound(r, A, x, w) /\ SameActions(r, s)
  <1> DEFINE c == s.resuming
  <1>1. c \in BOOLEAN /\ [s EXCEPT !.resuming = c] = s
    BY DEF Sound, Records
  <1> HIDE DEF c
  <1> DEFINE z == [s EXCEPT !.resuming = c]
  <1>2. Sound(onResumingFromIdle(z, hs), A, x, w) /\ SameActions(onResumingFromIdle(z, hs), s)
    BY <1>1, ResumedAs
  <1> HIDE DEF z
  <1> QED
    BY <1>1, <1>2 DEF z

\* With all actions unloaded nothing has a timeout.
LEMMA Unloaded ==
    ASSUME NEW x, NEW w, NEW s, Sound(s, s.active, x, w), NEW y, NEW o
    PROVE  LET r == unloadAllActiveActions(s) IN
           /\ Sound(r, {}, y, o) /\ r.pool = s.pool /\ r.active = {} /\ r.profile = s.profile
           /\ r.suspending = s.suspending
  <1> DEFINE g == [a \in Actions |-> IF a \in s.active THEN 0 ELSE s.registered[a]]
             n == [a \in Actions |-> IF a \in s.active THEN 0 ELSE s.own[a]]
             r == [s EXCEPT !.registered = g, !.own = n, !.dpmsLoaded = FALSE, !.active = {}]
  <1>1. s \in Records /\ (s.dpmsLoaded /\ Dpms \notin s.active) = FALSE
    BY DEF Sound, Tidy
  <1>2. unloadAllActiveActions(s) = r
    BY <1>1 DEF unloadAllActiveActions
  <1>3. /\ g \in [Actions -> Nat] /\ n \in [Actions -> Nat]
        /\ \A a \in Actions : g[a] = 0 /\ n[a] = 0
    BY <1>1 DEF Sound, Tidy, Records
  <1> HIDE DEF g, n
  <1>4. /\ r \in Records /\ r.pool = s.pool /\ r.active = {} /\ r.profile = s.profile
        /\ r.suspending = s.suspending /\ r.registered = g /\ r.own = n
        /\ r.dpmsLoaded = FALSE /\ WillEnd(r)
    BY <1>1, <1>3 DEF Records, Sound, WillEnd
  <1> HIDE DEF r
  <1>5. Sound(r, {}, y, o)
    BY <1>3, <1>4 DEF Sound, Tidy, InPlace
  <1> QED
    BY <1>2, <1>4, <1>5

LEMMA DimLoaded ==
    ASSUME NEW A, NEW x, NEW w, NEW s, Sound(s, A, x, w), NEW p \in Profiles, Dim \in s.pool \ A
    PROVE  /\ Sound(DimLoads(s, p), A \cup ({Dim} \cap IdleActionsOf[p]), x, w)
           /\ SameActions(DimLoads(s, p), s)
  <1>1. CASE Dim \in IdleActionsOf[p]
    <2> DEFINE t == IF s.dimmed /\ KeyboardOf[p] # Unset
                    THEN [s EXCEPT !.dimKeyboard = KeyboardOf[p]] ELSE s
               r == registerIdleTimeout(t, Dim)
    <2>1. Sound(t, A, x, w) /\ SameActions(t, s)
      BY Constants DEF Sound, Records, WillEnd, Tidy, InPlace, SameActions
    <2> HIDE DEF t
    <2>2. Sound(r, A \cup {Dim}, x, w) /\ SameActions(r, t)
      <3>1. Dim \in {Dim, Suspend} /\ Dim \in t.pool \ A
        BY <2>1 DEF SameActions
      <3> QED
        BY <2>1, <3>1, LoadedWith
    <2> HIDE DEF r
    <2>3. DimLoads(s, p) = r /\ {Dim} \cap IdleActionsOf[p] = {Dim}
      BY <1>1 DEF DimLoads, r, t
    <2> QED
      BY <2>1, <2>2, <2>3 DEF SameActions
  <1>2. CASE Dim \notin IdleActionsOf[p]
    <2> DEFINE t == IF KeyboardOf[p] = Unset THEN RestoreKeyboard(s) ELSE s
               r == [t EXCEPT !.ratio = FALSE, !.dimmed = FALSE]
    <2>1. Sound(t, A, x, w) /\ SameActions(t, s)
      BY KeyboardRestored DEF SameActions
    <2> HIDE DEF t
    <2>2. Sound(r, A, x, w) /\ SameActions(r, t)
      BY <2>1 DEF Sound, Records, WillEnd, Tidy, InPlace, SameActions
    <2> HIDE DEF r
    <2>3. DimLoads(s, p) = IF s.dimmed THEN r ELSE s
      BY <1>2 DEF DimLoads, r, t
    <2>4. A \cup ({Dim} \cap IdleActionsOf[p]) = A
      BY <1>2
    <2> QED
      BY <2>1, <2>2, <2>3, <2>4 DEF SameActions
  <1> QED
    BY <1>1, <1>2

LEMMA ScreenOffLoaded ==
    ASSUME NEW A, NEW x, NEW w, NEW s, Sound(s, A, x, w), NEW p \in Profiles, Dpms \in s.pool \ A
    PROVE  /\ Sound(DpmsLoads(s, p), A \cup ({Dpms} \cap IdleActionsOf[p]), x, w)
           /\ SameActions(DpmsLoads(s, p), s)
  <1>1. CASE Dpms \in IdleActionsOf[p]
    <2> DEFINE t == [s EXCEPT !.dpmsLoaded = TRUE]
               r == registerStandardIdleTimeout(t)
    <2>1. Sound(t, A \cup {Dpms}, TRUE, w) /\ SameActions(t, s)
      BY Constants DEF Sound, Records, WillEnd, Tidy, InPlace, SameActions
    <2> HIDE DEF t
    <2>2. Sound(r, A \cup {Dpms}, x, w) /\ SameActions(r, t)
      BY <2>1, StandardRegistered
    <2> HIDE DEF r
    <2>3. DpmsLoads(s, p) = r /\ {Dpms} \cap IdleActionsOf[p] = {Dpms}
      BY <1>1 DEF DpmsLoads, r, t
    <2> QED
      BY <2>1, <2>2, <2>3 DEF SameActions
  <1>2. CASE Dpms \notin IdleActionsOf[p]
    <2> DEFINE r == [s EXCEPT !.dpmsLoaded = FALSE]
    <2>1. Sound(r, A, x, w) /\ SameActions(r, s)
      BY DEF Sound, Records, WillEnd, Tidy, InPlace, SameActions
    <2> HIDE DEF r
    <2>2. DpmsLoads(s, p) = r /\ A \cup ({Dpms} \cap IdleActionsOf[p]) = A
      BY <1>2 DEF DpmsLoads, r
    <2> QED
      BY <2>1, <2>2
  <1> QED
    BY <1>1, <1>2

\* All that the profile wants and that is not loaded is loaded, in turn.
LEMMA AllLoaded ==
    ASSUME NEW x, NEW w, NEW s, Sound(s, s.active, x, w),
           NEW previous, NEW p \in Profiles
    PROVE  LET r == loadAllInactiveActions(s, previous, p) IN
           /\ Sound(r, r.active, x, w) /\ r.suspending = s.suspending /\ r.profile = s.profile
           /\ r.pool = s.pool
           /\ r.active = s.active \cup ((s.pool \ s.active) \cap IdleActionsOf[p])
  <1> DEFINE A == s.active
             todo == s.pool \ A
             s1 == IF Dim \in todo THEN DimLoads(s, p) ELSE s
             A1 == IF Dim \in todo THEN A \cup ({Dim} \cap IdleActionsOf[p]) ELSE A
             s2 == IF Dpms \in todo THEN DpmsLoads(s1, p) ELSE s1
             A2 == IF Dpms \in todo THEN A1 \cup ({Dpms} \cap IdleActionsOf[p]) ELSE A1
             s3 == IF Suspend \in todo \cap IdleActionsOf[p]
                   THEN registerIdleTimeout(s2, Suspend) ELSE s2
             A3 == IF Suspend \in todo \cap IdleActionsOf[p] THEN A2 \cup {Suspend} ELSE A2
             r == [s3 EXCEPT !.active = A3]
  <1>1. s \in Records /\ SameActions(s, s)
    BY DEF Sound, SameActions
  <1>2. /\ A1 = A \cup (todo \cap {Dim} \cap IdleActionsOf[p])
        /\ A2 = A \cup (todo \cap {Dim, Dpms} \cap IdleActionsOf[p])
        /\ A3 = A \cup (todo \cap IdleActionsOf[p])
    <2>1. todo \subseteq {Dim, Dpms, Suspend}
      BY <1>1, Constants DEF Records
    <2> HIDE DEF todo, A
    <2> QED
      BY <2>1
  <1>3. A1 \subseteq Actions /\ A2 \subseteq Actions /\ A3 \subseteq Actions
    BY <1>1, <1>2, Constants DEF Records
  <1>4. todo = s.pool \ A
    OBVIOUS
  <1> HIDE DEF A, todo, A1, A2, A3
  <1>5. Sound(s, A, x, w)
    BY DEF A
  <1>6. Sound(s1, A1, x, w) /\ SameActions(s1, s)
    <2>1. CASE Dim \in todo
      BY <1>4, <1>5, <2>1, DimLoaded DEF A1
    <2>2. CASE Dim \notin todo
      BY <1>1, <1>5, <2>2 DEF A1
    <2> QED
      BY <2>1, <2>2
  <1> HIDE DEF s1
  <1>7. Sound(s2, A2, x, w) /\ SameActions(s2, s)
    <2>1. CASE Dpms \in todo
      <3> DEFINE z == DpmsLoads(s1, p)
                 B == A1 \cup ({Dpms} \cap IdleActionsOf[p])
      <3>1. Dpms \in s1.pool \ A1
        BY <1>2, <1>4, <1>6, <2>1, Constants DEF SameActions
      <3>2. Sound(z, B, x, w) /\ SameActions(z, s1)
        BY <1>6, <3>1, ScreenOffLoaded
      <3> HIDE DEF z, B
      <3>3. s2 = z /\ A2 = B
        BY <2>1 DEF A2, z, B
      <3> QED
        BY <1>6, <3>2, <3>3 DEF SameActions
    <2>2. CASE Dpms \notin todo
      BY <1>6, <2>2 DEF A2
    <2> QED
      BY <2>1, <2>2
  <1> HIDE DEF s2
  <1>8. Sound(s3, A3, x, w) /\ SameActions(s3, s)
    <2>1. CASE Suspend \in todo \cap IdleActionsOf[p]
      <3> DEFINE z == registerIdleTimeout(s2, Suspend)
                 B == A2 \cup {Suspend}
      <3>1. Suspend \in s2.pool \ A2 /\ Suspend \in {Dim, Suspend}
        BY <1>2, <1>4, <1>7, <2>1, Constants DEF SameActions
      <3>2. Sound(z, B, x, w) /\ SameActions(z, s2)
        BY <1>7, <3>1, LoadedWith
      <3> HIDE DEF z, B
      <3>3. s3 = z /\ A3 = B
        BY <2>1 DEF A3, z, B
      <3> QED
        BY <1>7, <3>2, <3>3 DEF SameActions
    <2>2. CASE Suspend \notin todo \cap IdleActionsOf[p]
      BY <1>7, <2>2 DEF A3
    <2> QED
      BY <2>1, <2>2
  <1>9. loadAllInactiveActions(s, previous, p) = r
    <2>1. s3.active = A
      BY <1>8 DEF SameActions, A
    <2>2. loadAllInactiveActions(s, previous, p)
              = [s3 EXCEPT !.active = s3.active \cup (todo \cap IdleActionsOf[p])]
      BY DEF loadAllInactiveActions, s2, s1, todo, A
    <2> HIDE DEF s3
    <2> QED
      BY <1>2, <2>1, <2>2
  <1> HIDE DEF s3
  <1>10. /\ r \in Records /\ r.active = A3 /\ r.pool = s3.pool /\ r.dpmsLoaded = s3.dpmsLoaded
         /\ r.registered = s3.registered /\ r.own = s3.own
         /\ r.suspending = s3.suspending /\ r.profile = s3.profile /\ WillEnd(r)
    BY <1>3, <1>8 DEF Sound, Records, WillEnd
  <1> HIDE DEF r
  <1>11. Sound(r, A3, x, w)
    BY <1>8, <1>10 DEF Sound, Tidy, InPlace
  <1>12. A3 = s.active \cup ((s.pool \ s.active) \cap IdleActionsOf[p])
    BY <1>2 DEF A, todo
  <1> QED
    BY <1>8, <1>9, <1>10, <1>11, <1>12 DEF SameActions

LEMMA KeyboardIsLevel ==
    ASSUME NEW k \in Levels, NEW previous, NEW p \in Profiles
    PROVE  KeyboardOnLoad(k, previous, p) \in Levels
  BY Constants DEF KeyboardOnLoad

\* A new profile begins with all timeouts in place, whatever was before.
LEMMA Switched ==
    ASSUME NEW x, NEW w, NEW s, Sound(s, s.active, x, w),
           NEW wake, NEW hs, NEW p \in Profiles, NEW y, NEW o
    PROVE  LET r == SwitchProfile(s, wake, hs, p) IN
           Sound(r, r.active, y, o) /\ r.suspending = s.suspending
  <1> DEFINE u == unloadAllActiveActions(s)
             v == IF wake THEN onResumingFromIdle(u, hs) ELSE u
             t == loadAllInactiveActions(v, s.profile, p)
             k == KeyboardOnLoad(t.keyboard, s.profile, p)
             r == [t EXCEPT !.keyboard = k, !.profile = p, !.profileActive = TRUE]
  <1>1. Sound(u, {}, y, o) /\ u.active = {} /\ u.suspending = s.suspending
    BY Unloaded
  <1> HIDE DEF u
  <1>2. Sound(v, {}, y, o) /\ v.active = {} /\ v.suspending = s.suspending
    <2>1. CASE wake
      <3>1. v = onResumingFromIdle(u, hs)
        BY <2>1
      <3> HIDE DEF v
      <3> QED
        BY <1>1, <3>1, Resumed DEF SameActions
    <2>2. CASE ~wake
      BY <1>1, <2>2
    <2> QED
      BY <2>1, <2>2
  <1> HIDE DEF v
  <1>3. Sound(t, t.active, y, o) /\ t.suspending = s.suspending
    <2>1. Sound(v, v.active, y, o)
      BY <1>2
    <2> DEFINE previous == s.profile
    <2> HIDE DEF previous
    <2>2. LET z == loadAllInactiveActions(v, previous, p) IN
          Sound(z, z.active, y, o) /\ z.suspending = v.suspending
      BY <2>1, AllLoaded
    <2> QED
      BY <1>2, <2>2 DEF previous
  <1> HIDE DEF t
  <1>4. t \in Records /\ k \in Levels
    BY <1>3, KeyboardIsLevel DEF Sound, Records
  <1> HIDE DEF k
  <1>5. Sound(r, r.active, y, o) /\ r.suspending = s.suspending
    BY <1>3, <1>4 DEF Sound, Records, WillEnd, Tidy, InPlace
  <1>6. SwitchProfile(s, wake, hs, p) = r
    BY DEF SwitchProfile, k, t, v, u
  <1> HIDE DEF r
  <1> QED
    BY <1>5, <1>6

\* Loading a profile; by force, or another one, all timeouts are in place.
LEMMA ProfileLoaded ==
    ASSUME NEW x, NEW w, Sound(d, d.active, x, w), NEW wake, NEW force, NEW p \in Profiles, NEW q,
           LoadProfile(d, wake, force, p, q), NEW y, NEW o, force \/ (x = y /\ w = o)
    PROVE  Sound(d', d'.active, y, o) /\ d'.suspending = d.suspending
  <1> DEFINE hs == holders \ {"activity"}
             c == PoliciesChange(d, hs, locked)
             r == IF "activity" \in holders THEN refreshTimers(c) ELSE d
  <1>1. Sound(c, c.active, x, w) /\ c.suspending = d.suspending
    BY PoliciesChanged DEF SameActions
  <1> HIDE DEF c
  <1>2. Sound(r, r.active, x, w) /\ r.suspending = d.suspending
    <2>1. CASE "activity" \in holders
      <3>1. r = refreshTimers(c)
        BY <2>1
      <3> HIDE DEF r
      <3> QED
        BY <1>1, <3>1, Refreshed DEF SameActions
    <2>2. CASE "activity" \notin holders
      BY <2>2
    <2> QED
      BY <2>1, <2>2
  <1>3. d' = IF d.profile # p \/ force THEN SwitchProfile(r, wake, hs, p)
             ELSE IF wake THEN onResumingFromIdle(r, hs) ELSE r
    BY DEF LoadProfile, c
  <1> HIDE DEF r, hs
  <1>4. CASE d.profile # p \/ force
    <2>1. d' = SwitchProfile(r, wake, hs, p)
      BY <1>3, <1>4
    <2> QED
      BY <1>2, <2>1, Switched
  <1>5. CASE ~(d.profile # p \/ force) /\ wake
    <2>1. d' = onResumingFromIdle(r, hs)
      BY <1>3, <1>5
    <2>2. Sound(d', r.active, x, w) /\ SameActions(d', r)
      BY <1>2, <2>1, Resumed
    <2> QED
      BY <1>2, <1>5, <2>2 DEF SameActions
  <1>6. CASE ~(d.profile # p \/ force) /\ ~wake
    BY <1>2, <1>3, <1>6
  <1> QED
    BY <1>4, <1>5, <1>6

-----------------------------------------------------------------------------
(* The handlers.                                                           *)

IdleInv ==
    Sound(d, d.active, asleep \/ silent, wasLast) /\ (d.suspending => asleep)

\* What the handlers that load a profile have in common.
LEMMA LoadingKeepsInv ==
    ASSUME IdleInv, UNCHANGED <<asleep, silent>>, NEW wake, NEW force, NEW p \in Profiles, NEW q,
           LoadProfile(d, wake, force, p, q), force \/ UNCHANGED wasLast
    PROVE  IdleInv'
  <1>1. Sound(d, d.active, asleep \/ silent, wasLast) /\ (d.suspending => asleep)
    BY DEF IdleInv
  <1>2. Sound(d', d'.active, (asleep \/ silent)', wasLast') /\ d'.suspending = d.suspending
    <2> DEFINE x == asleep \/ silent
               y == (asleep \/ silent)'
    <2>1. x = y
      OBVIOUS
    <2> HIDE DEF x, y
    <2>2. Sound(d, d.active, x, wasLast)
      BY <1>1 DEF x
    <2>3. Sound(d', d'.active, y, wasLast') /\ d'.suspending = d.suspending
      BY <2>1, <2>2, ProfileLoaded
    <2> QED
      BY <2>3 DEF y
  <1> QED
    BY <1>1, <1>2 DEF IdleInv

\* And those that change the record alone.
LEMMA RecordKeepsInv ==
    ASSUME IdleInv, UNCHANGED <<asleep, silent, wasLast>>,
           Sound(d', d'.active, asleep \/ silent, wasLast), d'.suspending = d.suspending
    PROVE  IdleInv'
  BY DEF IdleInv

LEMMA TimeoutKeepsInv ==
    ASSUME IdleInv, NEW a \in Actions, onKIdleTimeoutReached(a)
    PROVE  IdleInv'
  <1> DEFINE x == asleep \/ silent
             r == [TimesOut(d, a) EXCEPT !.fired = @ \cup {a}, !.pending = @ \cup {a},
                                         !.catching = TRUE]
  <1>1. Sound(d, d.active, x, wasLast)
    BY DEF IdleInv
  <1> HIDE DEF x
  <1>2. Sound(r, d.active, x, wasLast) /\ SameActions(r, d)
    BY <1>1, TimedOut
  <1>3. d' = r /\ UNCHANGED <<asleep, silent, wasLast>>
    BY DEF onKIdleTimeoutReached, world, agent, history
  <1> HIDE DEF r
  <1> QED
    BY <1>2, <1>3, RecordKeepsInv DEF SameActions, x

LEMMA ActivityKeepsInv ==
    ASSUME IdleInv, UserActivity
    PROVE  IdleInv'
  <1> DEFINE x == asleep \/ silent
             u == simulateUserActivity(d)
  <1>1. Sound(d, d.active, x, wasLast)
    BY DEF IdleInv
  <1> HIDE DEF x
  <1>2. Sound(u, d.active, x, wasLast) /\ SameActions(u, d)
    BY <1>1, Simulated
  <1>3. d' = [u EXCEPT !.off = FALSE] /\ UNCHANGED <<asleep, silent, wasLast>>
    BY DEF UserActivity, world, agent, history
  <1> HIDE DEF u
  <1>4. Sound(d', d.active, x, wasLast) /\ SameActions(d', u)
    BY <1>2, <1>3 DEF Sound, Records, WillEnd, Tidy, InPlace, SameActions
  <1> QED
    BY <1>2, <1>3, <1>4, RecordKeepsInv DEF SameActions, x

LEMMA WakeupsKeepInv ==
    ASSUME IdleInv, ResumingFromIdle \/ wakeup
    PROVE  IdleInv'
  <1> DEFINE x == asleep \/ silent
  <1>1. Sound(d, d.active, x, wasLast) /\ UNCHANGED <<asleep, silent, wasLast>>
    BY DEF IdleInv, ResumingFromIdle, wakeup, world, agent
  <1> HIDE DEF x
  <1>2. CASE wakeup
    <2> DEFINE u == onResumingFromIdle(d, holders)
    <2>1. Sound(u, d.active, x, wasLast) /\ SameActions(u, d)
      BY <1>1, Resumed
    <2>2. d' = [u EXCEPT !.off = FALSE] \/ d' = u
      BY <1>2 DEF wakeup
    <2> HIDE DEF u
    <2>3. Sound(d', d.active, x, wasLast) /\ SameActions(d', u)
      BY <2>1, <2>2 DEF Sound, Records, WillEnd, Tidy, InPlace, SameActions
    <2> QED
      BY <1>1, <2>1, <2>3, RecordKeepsInv DEF SameActions, x
  <1>3. CASE ResumingFromIdle
    <2> DEFINE c == FALSE
               u == onResumingFromIdle([d EXCEPT !.resuming = c], holders)
    <2>1. d' = u /\ c \in BOOLEAN
      BY <1>3 DEF ResumingFromIdle
    <2> HIDE DEF c
    <2>2. Sound(u, d.active, x, wasLast) /\ SameActions(u, d)
      BY <1>1, <2>1, ResumedAs
    <2> HIDE DEF u
    <2> QED
      BY <1>1, <2>1, <2>2, RecordKeepsInv DEF SameActions, x
  <1> QED
    BY <1>2, <1>3

LEMMA RestoreKeepsInv ==
    ASSUME IdleInv, RestoreBrightness
    PROVE  IdleInv'
  <1> DEFINE x == asleep \/ silent
             u == RestoreKeyboard(d)
  <1>1. Sound(d, d.active, x, wasLast)
    BY DEF IdleInv
  <1> HIDE DEF x
  <1>2. Sound(u, d.active, x, wasLast) /\ SameActions(u, d)
    BY <1>1, KeyboardRestored
  <1>3. /\ d' = [u EXCEPT !.ratio = FALSE, !.restore = FALSE]
        /\ UNCHANGED <<asleep, silent, wasLast>>
    BY DEF RestoreBrightness, world, agent, history
  <1> HIDE DEF u
  <1>4. Sound(d', d.active, x, wasLast) /\ SameActions(d', u)
    BY <1>2, <1>3 DEF Sound, Records, WillEnd, Tidy, InPlace, SameActions
  <1> QED
    BY <1>2, <1>3, <1>4, RecordKeepsInv DEF SameActions, x

LEMMA ProfilesKeepInv ==
    ASSUME IdleInv, plugged \in BOOLEAN,
           onAcAdapterStateChanged \/ refreshStatus \/ currentActivityChanged
    PROVE  IdleInv'
  <1>1. UNCHANGED <<asleep, silent, wasLast>>
    BY DEF onAcAdapterStateChanged, refreshStatus, currentActivityChanged, world
  <1>2. \A p \in BOOLEAN : ProfileFor(p) \in Profiles
    BY Constants
  <1>3. CASE onAcAdapterStateChanged
    <2>1. /\ LoadProfile(d, TRUE, FALSE, ProfileFor(~plugged), quiet)
          /\ ProfileFor(~plugged) \in Profiles
      BY <1>2, <1>3 DEF onAcAdapterStateChanged
    <2> QED
      BY <1>1, <2>1, LoadingKeepsInv
  <1>4. CASE refreshStatus
    <2>1. /\ LoadProfile(d, FALSE, TRUE, ProfileFor(plugged), quiet)
          /\ ProfileFor(plugged) \in Profiles
      BY <1>2, <1>4 DEF refreshStatus
    <2> QED
      BY <1>1, <2>1, LoadingKeepsInv
  <1>5. CASE currentActivityChanged
    <2>1. /\ LoadProfile(d, FALSE, FALSE, ProfileFor(plugged), ~quiet)
          /\ ProfileFor(plugged) \in Profiles
      BY <1>2, <1>5 DEF currentActivityChanged
    <2> QED
      BY <1>1, <2>1, LoadingKeepsInv
  <1> QED
    BY <1>3, <1>4, <1>5

LEMMA InhibitionsKeepInv ==
    ASSUME IdleInv, InhibitionsChanged
    PROVE  IdleInv'
  <1> DEFINE x == asleep \/ silent
  <1>1. Sound(d, d.active, x, wasLast)
    BY DEF IdleInv
  <1> HIDE DEF x
  <1>2. PICK hs : HoldersChange(hs)
    BY DEF InhibitionsChanged
  <1>3. UNCHANGED <<asleep, silent, wasLast>>
    BY DEF InhibitionsChanged, world, history
  <1> DEFINE c == PoliciesChange(d, hs, locked)
             r == refreshTimers(c)
  <1>4. Sound(c, d.active, x, wasLast) /\ SameActions(c, d)
    BY <1>1, PoliciesChanged
  <1> HIDE DEF c
  <1>5. c.active = d.active
    BY <1>4 DEF SameActions
  <1>6. Sound(r, d.active, x, wasLast) /\ SameActions(r, c)
    BY <1>4, <1>5, Refreshed
  <1> HIDE DEF r
  <1>7. d' = r
    BY <1>2 DEF HoldersChange, r, c
  <1> QED
    BY <1>3, <1>4, <1>6, <1>7, RecordKeepsInv DEF SameActions, x

LEMMA LockerKeepsInv ==
    ASSUME IdleInv, locked \in BOOLEAN, onScreenLockerActiveChanged
    PROVE  IdleInv'
  <1> DEFINE x == asleep \/ silent
             l == ~locked
             u == DpmsOnLocker(d, l)
             r == PoliciesChange(u, holders, l)
  <1>1. Sound(d, d.active, x, wasLast) /\ ~d.suspending /\ l \in BOOLEAN
    BY DEF IdleInv, onScreenLockerActiveChanged
  <1>2. d' = r /\ UNCHANGED <<asleep, silent, wasLast>>
    BY DEF onScreenLockerActiveChanged, world, history
  <1> HIDE DEF x, l
  <1>3. Sound(u, d.active, x, wasLast) /\ SameActions(u, d)
    BY <1>1, DpmsLocked
  <1> HIDE DEF u
  <1>4. Sound(r, d.active, x, wasLast) /\ SameActions(r, u)
    BY <1>3, PoliciesChanged
  <1> HIDE DEF r
  <1> QED
    BY <1>2, <1>3, <1>4, RecordKeepsInv DEF SameActions, x

\* Once its session is inactive, KIdleTime knows no timeouts of the daemon's.
LEMMA SessionsKeepInv ==
    ASSUME IdleInv, plugged \in BOOLEAN, wasLast \in BOOLEAN,
           onActiveSessionChanged \/ onSessionHandlerRegistered
    PROVE  IdleInv'
  <1>1. UNCHANGED <<asleep, silent>> /\ ActiveSessionIs(activeSession)
    BY DEF onActiveSessionChanged, onSessionHandlerRegistered, world
  <1>2. CASE UNCHANGED <<wasLast, d>>
    BY <1>1, <1>2 DEF IdleInv
  <1>3. CASE LoadProfile(d, FALSE, TRUE, ProfileFor(plugged), quiet)
    <2>1. ProfileFor(plugged) \in Profiles
      BY Constants
    <2> QED
      BY <1>1, <1>3, <2>1, LoadingKeepsInv
  <1>4. CASE wasLast' = FALSE /\ SessionInactive
    <2> DEFINE x == asleep \/ silent
               r == [d EXCEPT !.registered = Nothing, !.profileActive = FALSE]
    <2>1. Sound(d, d.active, x, wasLast) /\ (d.suspending => asleep)
      BY DEF IdleInv
    <2>2. d' = r
      BY <1>4 DEF SessionInactive
    <2> HIDE DEF x
    <2>3. Nothing \in [Actions -> Nat] /\ \A a \in Actions : Nothing[a] = 0
      BY DEF Nothing
    <2> DEFINE none == Nothing
    <2>4. /\ r \in Records /\ SameActions(r, d) /\ r.registered = none /\ r.own = d.own
          /\ r.dpmsLoaded = d.dpmsLoaded /\ WillEnd(r)
      <3>1. none \in [Actions -> Nat] /\ d \in Records /\ FALSE \in BOOLEAN
        BY <2>1, <2>3 DEF Sound
      <3> HIDE DEF none
      <3>2. r = [d EXCEPT !.registered = none, !.profileActive = FALSE]
        BY DEF none
      <3> HIDE DEF r
      <3> QED
        BY <2>1, <3>1, <3>2 DEF Sound, Records, WillEnd, SameActions
    <2> HIDE DEF r
    <2>5. Sound(r, r.active, x, FALSE) /\ r.suspending = d.suspending
      BY <2>1, <2>3, <2>4 DEF Sound, Tidy, InPlace, SameActions
    <2> QED
      BY <1>1, <1>4, <2>1, <2>2, <2>5 DEF IdleInv, x
  <1> QED
    BY <1>1, <1>2, <1>3, <1>4 DEF ActiveSessionIs

LEMMA ActionsKeepInv ==
    ASSUME IdleInv, refreshActions
    PROVE  IdleInv'
  <1> DEFINE x == asleep \/ silent
  <1>1. Sound(d, d.active, x, wasLast) /\ UNCHANGED <<asleep, silent, wasLast>>
    BY DEF IdleInv, refreshActions, world, agent
  <1> HIDE DEF x
  <1>2. CASE Dpms \in d.pool /\ d' = [destroyAction(d, Dpms) EXCEPT
                     !.pool = @ \ {Dpms}, !.active = @ \ {Dpms}, !.pending = @ \ {Dpms},
                     !.dpmsLoaded = FALSE, !.activatingLock = FALSE, !.dpmsKeyboard = 0]
    <2> DEFINE t == destroyAction(d, Dpms)
    <2>1. d \in Records /\ Dpms \in Actions
      BY <1>1, Constants DEF Sound
    <2>2. /\ t = [d EXCEPT !.registered = [d.registered EXCEPT ![Dpms] = 0],
                           !.own = [d.own EXCEPT ![Dpms] = 0]]
          /\ t \in Records
      BY <2>1, Destroyed, Unregistered
    <2>3. d' = [t EXCEPT !.pool = t.pool \ {Dpms}, !.active = t.active \ {Dpms},
                         !.pending = t.pending \ {Dpms}, !.dpmsLoaded = FALSE,
                         !.activatingLock = FALSE, !.dpmsKeyboard = 0]
      BY <1>2
    <2> HIDE DEF t
    <2>4. /\ t.pool = d.pool /\ t.active = d.active /\ t.suspending = d.suspending
          /\ t.registered = [d.registered EXCEPT ![Dpms] = 0]
          /\ t.own = [d.own EXCEPT ![Dpms] = 0] /\ WillEnd(t)
      BY <1>1, <2>1, <2>2 DEF Records, Sound, WillEnd
    <2>5. /\ d' \in Records /\ d'.suspending = t.suspending /\ d'.dpmsLoaded = FALSE
          /\ d'.pool = t.pool \ {Dpms} /\ d'.active = t.active \ {Dpms}
          /\ d'.registered = t.registered /\ d'.own = t.own
      <3> DEFINE n == t.pool \ {Dpms}
                 m == t.active \ {Dpms}
                 l == t.pending \ {Dpms}
                 v == [t EXCEPT !.pool = n, !.active = m, !.pending = l]
                 c == FALSE
                 z == 0
      <3>1. n \in SUBSET Actions /\ m \in SUBSET Actions /\ l \in SUBSET Actions
        BY <2>2 DEF Records
      <3>2. c \in BOOLEAN /\ z \in Levels /\ c = FALSE
        BY Constants
      <3>3. d' = [v EXCEPT !.dpmsLoaded = c, !.activatingLock = c, !.dpmsKeyboard = z]
        BY <2>3
      <3> HIDE DEF n, m, l, c, z
      <3>4. /\ v \in Records /\ v.suspending = t.suspending /\ v.pool = n /\ v.active = m
            /\ v.registered = t.registered /\ v.own = t.own
        BY <2>2, <3>1 DEF Records
      <3> HIDE DEF v
      <3> QED
        BY <3>2, <3>3, <3>4 DEF Records, n, m
    <2>6. WillEnd(d')
      BY <2>2, <2>3, <2>4, Constants DEF Records, WillEnd
    <2>7. Tidy(d', d'.active) /\ InPlace(d', d'.active, x, wasLast)
      BY <1>1, <2>1, <2>4, <2>5 DEF Sound, Records, Tidy, InPlace
    <2> QED
      BY <1>1, <2>4, <2>5, <2>6, <2>7, RecordKeepsInv DEF Sound, x
  <1>3. CASE \E u : u = [d EXCEPT !.pool = @ \cup {Dpms}]
                /\ d' = IF d.profileActive THEN loadAllInactiveActions(u, d.profile, d.profile)
                        ELSE u
    <2> DEFINE u == [d EXCEPT !.pool = @ \cup {Dpms}]
               previous == d.profile
    <2>1. Sound(u, u.active, x, wasLast) /\ u.suspending = d.suspending /\ previous \in Profiles
      BY <1>1, Constants DEF Sound, Records, WillEnd, Tidy, InPlace
    <2>2. d' = loadAllInactiveActions(u, previous, previous) \/ d' = u
      BY <1>3
    <2> HIDE DEF u, previous
    <2>3. Sound(d', d'.active, x, wasLast) /\ d'.suspending = u.suspending
      BY <2>1, <2>2, AllLoaded
    <2> QED
      BY <1>1, <2>1, <2>3, RecordKeepsInv DEF x
  <1> QED
    BY <1>2, <1>3 DEF refreshActions

LEMMA SuspendKeepsInv ==
    ASSUME IdleInv, onAboutToSuspend
    PROVE  IdleInv'
  <1> DEFINE x == asleep \/ silent
             t == unregisterIdleTimeouts(d, Dpms)
             r == [t EXCEPT !.suspending = TRUE, !.off = TRUE]
  <1>1. /\ Sound(d, d.active, x, wasLast) /\ asleep' = TRUE /\ UNCHANGED <<silent, wasLast>>
        /\ d' = IF Dpms \in d.pool THEN r ELSE d
    BY DEF IdleInv, onAboutToSuspend, agent, history
  <1> HIDE DEF x
  <1>2. Sound(d, d.active, TRUE, wasLast)
    BY <1>1 DEF Sound, InPlace
  <1>3. d \in Records /\ Dpms \in Actions
    BY <1>1, Constants DEF Sound
  <1>4. /\ t = [d EXCEPT !.registered = [d.registered EXCEPT ![Dpms] = 0],
                         !.own = [d.own EXCEPT ![Dpms] = 0]]
        /\ t \in Records
    BY <1>3, Unregistered
  <1> HIDE DEF t
  <1>5. /\ r \in Records /\ r.pool = d.pool /\ r.active = d.active /\ WillEnd(r)
        /\ r.dpmsLoaded = d.dpmsLoaded
        /\ r.registered = [d.registered EXCEPT ![Dpms] = 0]
        /\ r.own = [d.own EXCEPT ![Dpms] = 0]
    BY <1>1, <1>3, <1>4 DEF Sound, Records, WillEnd
  <1> HIDE DEF r
  <1>6. Sound(r, r.active, TRUE, wasLast)
    BY <1>2, <1>3, <1>5 DEF Sound, Records, Tidy, InPlace
  <1>7. Sound(d', d'.active, TRUE, wasLast)
    BY <1>1, <1>2, <1>6
  <1> QED
    BY <1>1, <1>7 DEF IdleInv, Sound, InPlace

LEMMA ResumeKeepsInv ==
    ASSUME IdleInv, NEW byUser \in BOOLEAN, onResumeFromSuspend(byUser)
    PROVE  IdleInv'
  <1> DEFINE z == [d EXCEPT !.suspending = FALSE]
             u == simulateUserActivity(z)
             t == registerStandardIdleTimeout(u)
             r == [t EXCEPT !.off = FALSE]
  <1>1. /\ Sound(d, d.active, TRUE, wasLast) /\ asleep' = FALSE /\ silent' = ~byUser
        /\ wasLast' = wasLast
        /\ d' = IF byUser /\ Dpms \in d.pool THEN r ELSE u
    BY DEF IdleInv, onResumeFromSuspend, agent, Sound, InPlace
  <1>2. Sound(z, d.active, TRUE, wasLast) /\ z.active = d.active /\ z.pool = d.pool /\ ~z.suspending
    BY <1>1 DEF Sound, Records, WillEnd, Tidy, InPlace
  <1> HIDE DEF z
  <1>3. Sound(u, d.active, TRUE, wasLast) /\ SameActions(u, z)
    BY <1>2, Simulated
  <1> HIDE DEF u
  <1>4. Sound(t, d.active, FALSE, wasLast) /\ SameActions(t, u)
    BY <1>3, StandardRegistered
  <1> HIDE DEF t
  <1>5. Sound(r, d.active, FALSE, wasLast) /\ SameActions(r, t)
    BY <1>4 DEF Sound, Records, WillEnd, Tidy, InPlace, SameActions
  <1> HIDE DEF r
  <1>6. CASE ~byUser
    BY <1>1, <1>2, <1>3, <1>6 DEF IdleInv, SameActions, Sound, InPlace
  <1>7. CASE byUser /\ Dpms \in d.pool
    BY <1>1, <1>2, <1>3, <1>4, <1>5, <1>7 DEF IdleInv, SameActions, Sound, InPlace
  <1>8. CASE byUser /\ Dpms \notin d.pool
    <2>1. Dpms \notin d.active
      BY <1>1, <1>8 DEF Sound, Tidy
    <2>2. Sound(u, d.active, FALSE, wasLast)
      BY <1>3, <2>1 DEF Sound, InPlace
    <2> QED
      BY <1>1, <1>2, <1>3, <1>8, <2>2 DEF IdleInv, SameActions, Sound, InPlace
  <1> QED
    BY <1>6, <1>7, <1>8

-----------------------------------------------------------------------------
(* The brightness of the keyboard.                                         *)

\* What the keyboard would have without idleness, `bright', is what it has, or
\* an action remembers it and waits for the wakeup, or the restore is queued.
Remembers(s, bright) ==
    /\ s.keyboard # bright => \/ s.dpmsKeyboard = bright
                              \/ s.dimKeyboard = bright /\ (s.dimmed \/ s.restore)
    /\ s.keyboard \in {0, bright} /\ s.dpmsKeyboard \in {0, bright}
    /\ s.dpmsKeyboard > 0 => Dpms \in s.pending
    /\ s.dimmed \/ s.restore => s.dimKeyboard \in {0, bright}
    /\ s.dimmed => Dim \in s.pending

SameMemory(r, s) ==
    /\ r.keyboard = s.keyboard /\ r.dpmsKeyboard = s.dpmsKeyboard
    /\ r.dimKeyboard = s.dimKeyboard /\ r.dimmed = s.dimmed /\ r.restore = s.restore
    /\ r.pending = s.pending

LEMMA StillRemembers ==
    ASSUME NEW bright, NEW r, NEW s, SameMemory(r, s), Remembers(s, bright)
    PROVE  Remembers(r, bright)
  BY DEF SameMemory, Remembers

LEMMA MemorySimulated ==
    ASSUME NEW s \in Records
    PROVE  SameMemory(simulateUserActivity(s), s) /\ simulateUserActivity(s) \in Records
  <1> DEFINE b == s.resuming \/ s.catching
             r == [s EXCEPT !.fired = {}, !.resuming = b, !.catching = FALSE]
  <1>0. b \in BOOLEAN
    BY DEF Records
  <1>1. simulateUserActivity(s) = r
    BY DEF simulateUserActivity
  <1> HIDE DEF b
  <1>2. SameMemory(r, s) /\ r \in Records
    BY <1>0 DEF Records, SameMemory
  <1> QED
    BY <1>1, <1>2

LEMMA MemoryRefreshed ==
    ASSUME NEW s \in Records
    PROVE  SameMemory(refreshTimers(s), s)
  BY DEF Records, SameMemory, refreshTimers

LEMMA MemoryPolicies ==
    ASSUME NEW s \in Records, NEW hs, NEW l
    PROVE  SameMemory(PoliciesChange(s, hs, l), s)
  <1> DEFINE u == simulateUserActivity(s)
  <1>1. SameMemory(u, s) /\ SameMemory(s, s)
    BY MemorySimulated DEF SameMemory
  <1>2. PoliciesChange(s, hs, l) = s \/ PoliciesChange(s, hs, l) = u
    BY DEF PoliciesChange
  <1> HIDE DEF u
  <1> QED
    BY <1>1, <1>2

LEMMA MemoryUnregistered ==
    ASSUME NEW s \in Records, NEW a \in Actions
    PROVE  SameMemory(unregisterIdleTimeouts(s, a), s) /\ unregisterIdleTimeouts(s, a) \in Records
  <1> DEFINE r == unregisterIdleTimeouts(s, a)
  <1>1. /\ r = [s EXCEPT !.registered = [s.registered EXCEPT ![a] = 0],
                         !.own = [s.own EXCEPT ![a] = 0]]
        /\ r \in Records
    BY Unregistered
  <1> HIDE DEF r
  <1>2. SameMemory(r, s)
    BY <1>1 DEF Records, SameMemory
  <1> QED
    BY <1>1, <1>2 DEF r

LEMMA MemoryRegistered ==
    ASSUME NEW s \in Records, NEW a \in Actions
    PROVE  SameMemory(registerIdleTimeout(s, a), s) /\ registerIdleTimeout(s, a) \in Records
  <1> DEFINE r == registerIdleTimeout(s, a)
  <1>1. /\ r = [s EXCEPT !.registered = [s.registered EXCEPT ![a] = s.registered[a] + 1],
                         !.own = [s.own EXCEPT ![a] = s.own[a] + 1], !.fired = s.fired \ {a}]
        /\ r \in Records
    BY Registered
  <1> HIDE DEF r
  <1>2. SameMemory(r, s)
    BY <1>1 DEF Records, SameMemory
  <1> QED
    BY <1>1, <1>2 DEF r

\* Neither the unlocked nor the locked timeout touches the keyboard.
LEMMA MemoryAnew ==
    ASSUME NEW s \in Records, NEW b \in BOOLEAN, NEW e \in BOOLEAN
    PROVE  LET u == [unregisterIdleTimeouts(s, Dpms) EXCEPT !.activatingLock = b]
               r == IF e THEN registerIdleTimeout(u, Dpms) ELSE u
           IN  SameMemory(r, s) /\ r \in Records
  <1> DEFINE t == unregisterIdleTimeouts(s, Dpms)
             u == [t EXCEPT !.activatingLock = b]
             z == registerIdleTimeout(u, Dpms)
  <1>1. SameMemory(t, s) /\ t \in Records
    BY MemoryUnregistered, Constants
  <1> HIDE DEF t
  <1>2. SameMemory(u, t) /\ u \in Records
    BY <1>1 DEF Records, SameMemory
  <1> HIDE DEF u
  <1>3. SameMemory(z, u) /\ z \in Records
    BY <1>2, MemoryRegistered, Constants
  <1> HIDE DEF z
  <1>4. SameMemory(u, s) /\ SameMemory(z, s)
    BY <1>1, <1>2, <1>3 DEF SameMemory
  <1> QED
    BY <1>2, <1>3, <1>4 DEF z, u, t

LEMMA MemoryStandard ==
    ASSUME NEW s \in Records
    PROVE  LET r == registerStandardIdleTimeout(s) IN
           SameMemory(r, s) /\ r \in Records
  <1> DEFINE b == FALSE
             e == s.dpmsLoaded
             u == [unregisterIdleTimeouts(s, Dpms) EXCEPT !.activatingLock = b]
             r == IF e THEN registerIdleTimeout(u, Dpms) ELSE u
  <1>1. b \in BOOLEAN /\ e \in BOOLEAN
    BY DEF Records
  <1> HIDE DEF b, e
  <1>2. SameMemory(r, s) /\ r \in Records
    BY <1>1, MemoryAnew
  <1>3. registerStandardIdleTimeout(s) = r
    BY DEF registerStandardIdleTimeout, b, e
  <1> HIDE DEF r
  <1> QED
    BY <1>2, <1>3

LEMMA MemoryLocked ==
    ASSUME NEW s \in Records, NEW l \in BOOLEAN
    PROVE  SameMemory(DpmsOnLocker(s, l), s)
  <1> DEFINE b == l /\ ~s.suspending
             u == [unregisterIdleTimeouts(s, Dpms) EXCEPT !.activatingLock = b]
             e == s.dpmsLoaded /\ (u.activatingLock \/ ~l)
             r == IF e THEN registerIdleTimeout(u, Dpms) ELSE u
  <1>1. b \in BOOLEAN /\ e \in BOOLEAN
    OBVIOUS
  <1>2. DpmsOnLocker(s, l) = r
    BY DEF DpmsOnLocker
  <1> HIDE DEF b, e
  <1>3. SameMemory(r, s)
    BY <1>1, MemoryAnew
  <1> HIDE DEF r
  <1> QED
    BY <1>2, <1>3

LEMMA MemoryUnloaded ==
    ASSUME NEW s \in Records
    PROVE  SameMemory(unloadAllActiveActions(s), s)
  <1> DEFINE g == [a \in Actions |-> IF a \in s.active THEN 0 ELSE s.registered[a]]
             n == [a \in Actions |-> IF a \in s.active THEN 0 ELSE s.own[a]]
             b == s.dpmsLoaded /\ Dpms \notin s.active
             r == [s EXCEPT !.registered = g, !.own = n, !.dpmsLoaded = b, !.active = {}]
  <1>1. unloadAllActiveActions(s) = r
    BY DEF unloadAllActiveActions
  <1> HIDE DEF g, n, b
  <1>2. SameMemory(r, s)
    BY DEF Records, SameMemory
  <1> HIDE DEF r
  <1> QED
    BY <1>1, <1>2

\* Dimming and turning the screens off remember what they take.
LEMMA TimeoutRemembers ==
    ASSUME NEW bright, NEW s \in Records, NEW a \in Actions, ~s.restore, Remembers(s, bright)
    PROVE  LET r == [TimesOut(s, a) EXCEPT !.fired = @ \cup {a}, !.pending = @ \cup {a},
                                           !.catching = TRUE]
           IN  Remembers(r, bright) /\ (r.dimmed => s.dimmed \/ a = Dim)
  <1> DEFINE t == TimesOut(s, a)
             r == [t EXCEPT !.fired = @ \cup {a}, !.pending = @ \cup {a}, !.catching = TRUE]
  <1> SUFFICES Remembers(r, bright) /\ (r.dimmed => s.dimmed \/ a = Dim)
    OBVIOUS
  <1>1. t \in Records =>
            /\ r.keyboard = t.keyboard /\ r.dpmsKeyboard = t.dpmsKeyboard
            /\ r.dimKeyboard = t.dimKeyboard /\ r.dimmed = t.dimmed /\ r.restore = t.restore
            /\ r.pending = t.pending \cup {a}
    BY DEF Records
  <1>2. CASE a = Dim
    <2>1. t = DimTimesOut(s)
      BY <1>2, Constants DEF TimesOut
    <2>2. CASE s.dimmed \/ inhibitScreen
      <3>1. t = s
        BY <2>1, <2>2 DEF DimTimesOut
      <3> HIDE DEF r, t
      <3> QED
        BY <1>1, <1>2, <3>1 DEF Remembers
    <2>3. CASE ~(s.dimmed \/ inhibitScreen)
      <3>1. t = [s EXCEPT !.ratio = TRUE, !.dimKeyboard = s.keyboard, !.keyboard = 0,
                          !.dimmed = TRUE]
        BY <2>1, <2>3 DEF DimTimesOut
      <3> HIDE DEF t
      <3>2. /\ t \in Records /\ t.keyboard = 0 /\ t.dpmsKeyboard = s.dpmsKeyboard
            /\ t.dimKeyboard = s.keyboard /\ t.dimmed /\ t.restore = s.restore
            /\ t.pending = s.pending
        BY <3>1, Constants DEF Records
      <3> HIDE DEF r
      <3> QED
        BY <1>1, <1>2, <2>3, <3>2 DEF Remembers
    <2> QED
      BY <2>2, <2>3
  <1>3. CASE a = Dpms
    <2> DEFINE u == IF s.keyboard > 0 THEN [s EXCEPT !.dpmsKeyboard = s.keyboard] ELSE s
               v == IF MayChangeScreen(holders) THEN [u EXCEPT !.keyboard = 0] ELSE u
               z == [v EXCEPT !.off = TRUE]
    <2>1. t = IF inhibitScreen THEN s ELSE z
      BY <1>3, Constants DEF TimesOut, DpmsTimesOut
    <2>2. /\ u \in Records /\ u.keyboard = s.keyboard
          /\ u.dpmsKeyboard = s.dpmsKeyboard \/ u.dpmsKeyboard = s.keyboard
          /\ s.keyboard > 0 => u.dpmsKeyboard = s.keyboard
          /\ s.keyboard = 0 => u.dpmsKeyboard = s.dpmsKeyboard
          /\ u.dimKeyboard = s.dimKeyboard /\ u.dimmed = s.dimmed /\ u.restore = s.restore
          /\ u.pending = s.pending
      BY DEF Records
    <2> HIDE DEF u
    <2>3. /\ v \in Records /\ (v.keyboard = u.keyboard \/ v.keyboard = 0)
          /\ v.dpmsKeyboard = u.dpmsKeyboard
          /\ v.dimKeyboard = u.dimKeyboard /\ v.dimmed = u.dimmed /\ v.restore = u.restore
          /\ v.pending = u.pending
      BY <2>2, Constants DEF Records
    <2> HIDE DEF v
    <2>4. z \in Records /\ SameMemory(z, v)
      BY <2>3 DEF Records, SameMemory
    <2> HIDE DEF z
    <2>5. s.keyboard \in Nat
      BY IdleAssumption DEF Records, Levels
    <2> HIDE DEF r, t
    <2>6. CASE inhibitScreen
      BY <1>1, <1>3, <2>1, <2>6 DEF Remembers
    <2>7. CASE ~inhibitScreen
      <3>1. t = z
        BY <2>1, <2>7
      <3> QED
        BY <1>1, <1>3, <2>2, <2>3, <2>4, <2>5, <3>1 DEF Remembers, SameMemory
    <2> QED
      BY <2>6, <2>7
  <1>4. CASE a = Suspend
    <2>1. t = s
      BY <1>4, Constants DEF TimesOut
    <2> HIDE DEF r, t
    <2> QED
      BY <1>1, <1>4, <2>1 DEF Remembers
  <1> QED
    BY <1>2, <1>3, <1>4, Constants

LEMMA MemoryWoken ==
    ASSUME NEW s \in Records, NEW hs
    PROVE  LET r == DpmsWakes(s, hs) IN
           /\ r \in Records /\ r.dpmsKeyboard = 0
           /\ r.keyboard = s.keyboard \/ (s.dpmsKeyboard > 0 /\ r.keyboard = s.dpmsKeyboard)
           /\ r.dimKeyboard = s.dimKeyboard /\ r.dimmed = s.dimmed /\ r.restore = s.restore
           /\ r.pending = s.pending
  <1> DEFINE u == IF s.activatingLock THEN registerStandardIdleTimeout(s) ELSE s
             v == IF u.dpmsKeyboard > 0 /\ MayChangeScreen(hs)
                  THEN [u EXCEPT !.keyboard = u.dpmsKeyboard] ELSE u
             r == [v EXCEPT !.dpmsKeyboard = 0]
  <1>1. u \in Records /\ SameMemory(u, s)
    <2> DEFINE y == registerStandardIdleTimeout(s)
    <2>1. y \in Records /\ SameMemory(y, s)
      BY MemoryStandard
    <2> HIDE DEF y
    <2>2. u = y \/ u = s
      BY DEF y
    <2> QED
      BY <2>1, <2>2 DEF SameMemory
  <1> HIDE DEF u
  <1>2. /\ v \in Records
        /\ v.keyboard = u.keyboard \/ (u.dpmsKeyboard > 0 /\ v.keyboard = u.dpmsKeyboard)
        /\ v.dimKeyboard = u.dimKeyboard /\ v.dimmed = u.dimmed /\ v.restore = u.restore
        /\ v.pending = u.pending
    BY <1>1 DEF Records
  <1> HIDE DEF v
  <1>3. /\ r \in Records /\ r.dpmsKeyboard = 0 /\ r.keyboard = v.keyboard
        /\ r.dimKeyboard = v.dimKeyboard /\ r.dimmed = v.dimmed /\ r.restore = v.restore
        /\ r.pending = v.pending
    BY <1>2, Constants DEF Records
  <1> HIDE DEF r
  <1>4. DpmsWakes(s, hs) = r
    BY DEF DpmsWakes, r, v, u
  <1> QED
    BY <1>1, <1>2, <1>3, <1>4 DEF SameMemory

\* After a wakeup the two actions remember nothing; what they took is back or
\* about to be, unless a policy kept the screen-off action from it.
LEMMA MemoryResumed ==
    ASSUME NEW bright, NEW s \in Records, Remembers(s, bright), NEW hs, NEW c \in BOOLEAN
    PROVE  LET r == onResumingFromIdle([s EXCEPT !.resuming = c], hs) IN
           /\ r.pending = {} /\ ~r.dimmed /\ r.dpmsKeyboard = 0
           /\ r.restore => s.restore \/ s.dimmed
           /\ s.dpmsKeyboard = 0 => r.keyboard = s.keyboard
           /\ ~(s.dpmsKeyboard > 0 /\ r.keyboard # s.dpmsKeyboard) => Remembers(r, bright)
  <1> DEFINE z == [s EXCEPT !.resuming = c]
             u == simulateUserActivity(z)
             v == IF Dim \in u.pending THEN DimWakes(u) ELSE u
             t == IF Dpms \in v.pending THEN DpmsWakes(v, hs) ELSE v
             r == [t EXCEPT !.pending = {}]
  <1>1. z \in Records /\ SameMemory(z, s)
    BY DEF Records, SameMemory
  <1> HIDE DEF z
  <1>2. u \in Records /\ SameMemory(u, z)
    BY <1>1, MemorySimulated
  <1> HIDE DEF u
  <1>3. /\ v \in Records /\ ~v.dimmed /\ (v.restore <=> u.restore \/ u.dimmed)
        /\ v.keyboard = u.keyboard /\ v.dpmsKeyboard = u.dpmsKeyboard
        /\ v.dimKeyboard = u.dimKeyboard /\ v.pending = u.pending
    <2>1. u.dimmed => Dim \in u.pending
      BY <1>1, <1>2 DEF SameMemory, Remembers
    <2> DEFINE y == [u EXCEPT !.dimmed = FALSE, !.restore = TRUE]
    <2>2. /\ y \in Records /\ ~y.dimmed /\ y.restore /\ y.keyboard = u.keyboard
          /\ y.dpmsKeyboard = u.dpmsKeyboard /\ y.dimKeyboard = u.dimKeyboard
          /\ y.pending = u.pending
      BY <1>2 DEF Records
    <2>3. v = IF u.dimmed THEN y ELSE u
      BY <2>1 DEF DimWakes
    <2> HIDE DEF y, v
    <2>4. CASE u.dimmed
      BY <2>2, <2>3, <2>4
    <2>5. CASE ~u.dimmed
      BY <1>2, <2>3, <2>5
    <2> QED
      BY <2>4, <2>5
  <1> HIDE DEF v
  <1>4. /\ t \in Records /\ t.dpmsKeyboard = 0
        /\ t.keyboard = v.keyboard \/ (v.dpmsKeyboard > 0 /\ t.keyboard = v.dpmsKeyboard)
        /\ t.dimKeyboard = v.dimKeyboard /\ t.dimmed = v.dimmed /\ t.restore = v.restore
    <2>1. CASE Dpms \in v.pending
      <3> DEFINE y == DpmsWakes(v, hs)
      <3>1. /\ y \in Records /\ y.dpmsKeyboard = 0
            /\ y.keyboard = v.keyboard \/ (v.dpmsKeyboard > 0 /\ y.keyboard = v.dpmsKeyboard)
            /\ y.dimKeyboard = v.dimKeyboard /\ y.dimmed = v.dimmed /\ y.restore = v.restore
        BY <1>3, MemoryWoken
      <3> HIDE DEF y
      <3>2. t = y
        BY <2>1 DEF y
      <3> QED
        BY <3>1, <3>2
    <2>2. CASE Dpms \notin v.pending
      <3>1. t = v
        BY <2>2
      <3>2. v.dpmsKeyboard = 0
        <4>1. ~(v.dpmsKeyboard > 0) /\ v.dpmsKeyboard \in Levels
          BY <1>1, <1>2, <1>3, <2>2 DEF Remembers, SameMemory, Records
        <4> QED
          BY <4>1, IdleAssumption DEF Levels
      <3> HIDE DEF t
      <3> QED
        BY <1>3, <3>1, <3>2
    <2> QED
      BY <2>1, <2>2
  <1> HIDE DEF t
  <1>5. /\ r.pending = {} /\ ~r.dimmed /\ r.dpmsKeyboard = 0
        /\ r.restore <=> s.restore \/ s.dimmed
        /\ r.keyboard = s.keyboard \/ (s.dpmsKeyboard > 0 /\ r.keyboard = s.dpmsKeyboard)
        /\ r.dimKeyboard = s.dimKeyboard
    BY <1>1, <1>2, <1>3, <1>4 DEF Records, SameMemory
  <1> HIDE DEF r
  <1>6. ~(s.dpmsKeyboard > 0 /\ r.keyboard # s.dpmsKeyboard) => Remembers(r, bright)
    <2>1. s.dpmsKeyboard > 0 \/ s.dpmsKeyboard = 0
      BY IdleAssumption DEF Records, Levels
    <2> QED
      BY <1>5, <2>1 DEF Remembers
  <1>7. onResumingFromIdle(z, hs) = r
    BY DEF onResumingFromIdle, r, t, v, u
  <1> QED
    BY <1>5, <1>6, <1>7 DEF z

\* A profile that is loaded lets a dimmed keyboard be, or gives back what was
\* taken if it does not dim; with a brightness of its own it overrides that.
LEMMA MemoryDim ==
    ASSUME NEW bright, NEW s \in Records, NEW p \in Profiles
    PROVE  LET r == DimLoads(s, p) IN
           /\ r \in Records /\ r.dpmsKeyboard = s.dpmsKeyboard
           /\ r.dimmed => s.dimmed /\ Dim \in IdleActionsOf[p]
           /\ ~s.dimmed => SameMemory(r, s)
           /\ KeyboardOf[p] = Unset /\ Remembers(s, bright) => Remembers(r, bright)
  <1> DEFINE r == DimLoads(s, p)
  <1> SUFFICES
        /\ r \in Records /\ r.dpmsKeyboard = s.dpmsKeyboard
        /\ r.dimmed => s.dimmed /\ Dim \in IdleActionsOf[p]
        /\ ~s.dimmed => SameMemory(r, s)
        /\ KeyboardOf[p] = Unset /\ Remembers(s, bright) => Remembers(r, bright)
    OBVIOUS
  <1>1. CASE Dim \in IdleActionsOf[p]
    <2> DEFINE u == IF s.dimmed /\ KeyboardOf[p] # Unset
                    THEN [s EXCEPT !.dimKeyboard = KeyboardOf[p]] ELSE s
               z == registerIdleTimeout(u, Dim)
    <2>1. /\ u \in Records /\ u.dpmsKeyboard = s.dpmsKeyboard /\ u.dimmed = s.dimmed
          /\ ~s.dimmed \/ KeyboardOf[p] = Unset => SameMemory(u, s)
      <3>1. KeyboardOf[p] # Unset => KeyboardOf[p] \in Levels
        BY Constants
      <3> QED
        BY <3>1 DEF Records, SameMemory
    <2> HIDE DEF u
    <2>2. z \in Records /\ SameMemory(z, u)
      BY <2>1, MemoryRegistered, Constants
    <2> HIDE DEF z
    <2>3. r = z
      BY <1>1 DEF DimLoads, z, u
    <2> HIDE DEF r
    <2>4. ~s.dimmed \/ KeyboardOf[p] = Unset => SameMemory(r, s)
      BY <2>1, <2>2, <2>3 DEF SameMemory
    <2>5. r \in Records /\ r.dpmsKeyboard = s.dpmsKeyboard /\ r.dimmed = s.dimmed
      BY <2>1, <2>2, <2>3 DEF SameMemory
    <2> QED
      BY <1>1, <2>4, <2>5, StillRemembers
  <1>2. CASE Dim \notin IdleActionsOf[p]
    <2> DEFINE u == IF KeyboardOf[p] = Unset THEN RestoreKeyboard(s) ELSE s
               z == [u EXCEPT !.ratio = FALSE, !.dimmed = FALSE]
    <2>1. /\ u \in Records /\ u.dpmsKeyboard = s.dpmsKeyboard /\ u.restore = s.restore
          /\ u.dimKeyboard = s.dimKeyboard /\ u.pending = s.pending
          /\ KeyboardOf[p] = Unset =>
               u.keyboard = IF s.dimKeyboard > 0 THEN s.dimKeyboard ELSE s.keyboard
      BY DEF Records, RestoreKeyboard
    <2> HIDE DEF u
    <2>2. /\ z \in Records /\ z.dpmsKeyboard = u.dpmsKeyboard /\ z.restore = u.restore
          /\ z.dimKeyboard = u.dimKeyboard /\ z.pending = u.pending /\ z.keyboard = u.keyboard
          /\ ~z.dimmed
      BY <2>1 DEF Records
    <2> HIDE DEF z
    <2>3. r = IF s.dimmed THEN z ELSE s
      BY <1>2 DEF DimLoads, z, u
    <2> HIDE DEF r
    <2>4. CASE s.dimmed
      <3>1. s.dimKeyboard > 0 \/ s.dimKeyboard = 0
        BY IdleAssumption DEF Records, Levels
      <3>2. KeyboardOf[p] = Unset /\ Remembers(s, bright) => Remembers(z, bright)
        BY <2>1, <2>2, <2>4, <3>1 DEF Remembers
      <3> QED
        BY <2>1, <2>2, <2>3, <2>4, <3>2
    <2>5. CASE ~s.dimmed
      BY <2>3, <2>5 DEF SameMemory
    <2> QED
      BY <2>4, <2>5
  <1> QED
    BY <1>1, <1>2

LEMMA MemoryScreenOff ==
    ASSUME NEW s \in Records, NEW p \in Profiles
    PROVE  SameMemory(DpmsLoads(s, p), s) /\ DpmsLoads(s, p) \in Records
  <1> DEFINE u == [s EXCEPT !.dpmsLoaded = TRUE]
             v == [s EXCEPT !.dpmsLoaded = FALSE]
             z == registerStandardIdleTimeout(u)
  <1>1. u \in Records /\ SameMemory(u, s) /\ v \in Records /\ SameMemory(v, s)
    BY DEF Records, SameMemory
  <1> HIDE DEF u, v
  <1>2. z \in Records /\ SameMemory(z, u)
    BY <1>1, MemoryStandard
  <1> HIDE DEF z
  <1>3. DpmsLoads(s, p) = IF Dpms \in IdleActionsOf[p] THEN z ELSE v
    BY DEF DpmsLoads, z, u, v
  <1>4. SameMemory(z, s)
    BY <1>1, <1>2 DEF SameMemory
  <1> QED
    BY <1>1, <1>2, <1>3, <1>4

LEMMA MemoryLoaded ==
    ASSUME NEW bright, NEW s \in Records, NEW previous, NEW p \in Profiles
    PROVE  LET r == loadAllInactiveActions(s, previous, p) IN
           /\ r \in Records /\ r.dpmsKeyboard = s.dpmsKeyboard
           /\ r.dimmed => s.dimmed /\ (Dim \in s.pool \ s.active => Dim \in IdleActionsOf[p])
           /\ ~s.dimmed \/ Dim \in s.active => SameMemory(r, s)
           /\ KeyboardOf[p] = Unset /\ Remembers(s, bright) => Remembers(r, bright)
  <1> DEFINE todo == s.pool \ s.active
             s1 == IF Dim \in todo THEN DimLoads(s, p) ELSE s
             s2 == IF Dpms \in todo THEN DpmsLoads(s1, p) ELSE s1
             s3 == IF Suspend \in todo \cap IdleActionsOf[p]
                   THEN registerIdleTimeout(s2, Suspend) ELSE s2
             more == s3.active \cup (todo \cap IdleActionsOf[p])
             r == [s3 EXCEPT !.active = more]
  <1>1. /\ todo \subseteq Actions /\ IdleActionsOf[p] \subseteq Actions
        /\ Dim \in todo <=> Dim \in s.pool \ s.active
    BY Constants DEF Records
  <1> HIDE DEF todo
  <1>2. /\ s1 \in Records /\ s1.dpmsKeyboard = s.dpmsKeyboard
        /\ s1.dimmed => s.dimmed /\ (Dim \in todo => Dim \in IdleActionsOf[p])
        /\ ~s.dimmed \/ Dim \notin todo => SameMemory(s1, s)
        /\ KeyboardOf[p] = Unset /\ Remembers(s, bright) => Remembers(s1, bright)
    <2> DEFINE z == DimLoads(s, p)
    <2>1. /\ z \in Records /\ z.dpmsKeyboard = s.dpmsKeyboard
          /\ z.dimmed => s.dimmed /\ Dim \in IdleActionsOf[p]
          /\ ~s.dimmed => SameMemory(z, s)
          /\ KeyboardOf[p] = Unset /\ Remembers(s, bright) => Remembers(z, bright)
      BY MemoryDim
    <2>2. s1 = IF Dim \in todo THEN z ELSE s
      OBVIOUS
    <2> HIDE DEF z, s1
    <2>3. CASE Dim \in todo
      BY <2>1, <2>2, <2>3
    <2>4. CASE Dim \notin todo
      BY <2>2, <2>4 DEF SameMemory
    <2> QED
      BY <2>3, <2>4
  <1> HIDE DEF s1
  <1>3. s2 \in Records /\ SameMemory(s2, s1)
    <2> DEFINE z == DpmsLoads(s1, p)
    <2>1. z \in Records /\ SameMemory(z, s1)
      BY <1>2, MemoryScreenOff
    <2>2. s2 = z \/ s2 = s1
      OBVIOUS
    <2> HIDE DEF z, s2
    <2> QED
      BY <1>2, <2>1, <2>2 DEF SameMemory
  <1> HIDE DEF s2
  <1>4. s3 \in Records /\ SameMemory(s3, s2)
    <2> DEFINE z == registerIdleTimeout(s2, Suspend)
    <2>1. z \in Records /\ SameMemory(z, s2)
      BY <1>3, MemoryRegistered, Constants
    <2>2. s3 = z \/ s3 = s2
      OBVIOUS
    <2> HIDE DEF z, s3
    <2> QED
      BY <1>3, <2>1, <2>2 DEF SameMemory
  <1> HIDE DEF s3
  <1>5. more \subseteq Actions
    BY <1>1, <1>4 DEF Records
  <1> HIDE DEF more
  <1>6. r \in Records /\ SameMemory(r, s3)
    BY <1>4, <1>5 DEF Records, SameMemory
  <1> HIDE DEF r
  <1>7. SameMemory(r, s1)
    BY <1>3, <1>4, <1>6 DEF SameMemory
  <1>8. ~s.dimmed \/ Dim \notin todo => SameMemory(r, s)
    BY <1>2, <1>7 DEF SameMemory
  <1>9. r.dpmsKeyboard = s.dpmsKeyboard /\ r.dimmed = s1.dimmed
    BY <1>2, <1>7 DEF SameMemory
  <1>10. KeyboardOf[p] = Unset /\ Remembers(s, bright) => Remembers(r, bright)
    BY <1>2, <1>7, StillRemembers
  <1>11. loadAllInactiveActions(s, previous, p) = r
    BY DEF loadAllInactiveActions, r, more, s3, s2, s1, todo
  <1> QED
    BY <1>1, <1>2, <1>6, <1>8, <1>9, <1>10, <1>11

\* The screen-off action forgot a brightness without restoring it.
Forgets(s, r) == s.dpmsKeyboard > 0 /\ r.dpmsKeyboard = 0 /\ r.keyboard # s.dpmsKeyboard

LEMMA MemoryWokenUp ==
    ASSUME NEW bright, NEW x, NEW w, NEW A, NEW s, Sound(s, A, x, w), Remembers(s, bright), NEW hs
    PROVE  LET r == onResumingFromIdle(s, hs) IN
           /\ Sound(r, A, x, w) /\ SameActions(r, s)
           /\ ~r.dimmed /\ r.dpmsKeyboard = 0
           /\ r.restore => s.restore \/ s.dimmed
           /\ s.dpmsKeyboard = 0 => r.keyboard = s.keyboard
           /\ ~Forgets(s, r) => Remembers(r, bright)
  <1> DEFINE c == s.resuming
             z == [s EXCEPT !.resuming = c]
             r == onResumingFromIdle(z, hs)
  <1>1. s \in Records /\ c \in BOOLEAN /\ z = s
    BY DEF Sound, Records
  <1> HIDE DEF c
  <1>2. /\ ~r.dimmed /\ r.dpmsKeyboard = 0
        /\ r.restore => s.restore \/ s.dimmed
        /\ s.dpmsKeyboard = 0 => r.keyboard = s.keyboard
        /\ ~(s.dpmsKeyboard > 0 /\ r.keyboard # s.dpmsKeyboard) => Remembers(r, bright)
    BY <1>1, MemoryResumed
  <1>3. Sound(r, A, x, w) /\ SameActions(r, s)
    BY <1>1, ResumedAs
  <1>4. onResumingFromIdle(s, hs) = r
    BY <1>1
  <1> HIDE DEF r
  <1> QED
    BY <1>2, <1>3, <1>4 DEF Forgets

\* The keyboard has what the new profile makes of the brightness it would have
\* had, or that is remembered.
LEMMA MemorySwitched ==
    ASSUME NEW bright, NEW x, NEW w, NEW s, Sound(s, s.active, x, w), ~s.restore, Dim \in s.pool,
           Remembers(s, bright), NEW wake, NEW hs, NEW p \in Profiles
    PROVE  LET r == SwitchProfile(s, wake, hs, p) IN
           /\ r.profile = p /\ r.pool = s.pool /\ (r.dimmed => Dim \in r.active)
           /\ ~Forgets(s, r) /\ (KeyboardOf[p] # Unset => ~s.dimmed /\ ~(s.dpmsKeyboard > 0))
                => Remembers(r, KeyboardOnLoad(bright, s.profile, p))
  <1> DEFINE u == unloadAllActiveActions(s)
             v == IF wake THEN onResumingFromIdle(u, hs) ELSE u
             t == loadAllInactiveActions(v, s.profile, p)
             k == KeyboardOnLoad(t.keyboard, s.profile, p)
             m == KeyboardOnLoad(bright, s.profile, p)
             r == [t EXCEPT !.keyboard = k, !.profile = p, !.profileActive = TRUE]
  <1>1. /\ Sound(u, {}, x, w) /\ u.pool = s.pool /\ u.active = {} /\ SameMemory(u, s)
        /\ Remembers(u, bright) /\ s \in Records
    <2>1. s \in Records
      BY DEF Sound
    <2>2. SameMemory(u, s)
      BY <2>1, MemoryUnloaded
    <2>3. /\ Sound(u, {}, x, w) /\ u.pool = s.pool /\ u.active = {} /\ u.profile = s.profile
          /\ u.suspending = s.suspending
      BY Unloaded
    <2> HIDE DEF u
    <2> QED
      BY <2>1, <2>2, <2>3, StillRemembers
  <1> HIDE DEF u
  <1>2. /\ Sound(v, {}, x, w) /\ v.pool = s.pool /\ v.active = {}
        /\ Forgets(s, v) => ~v.dimmed
        /\ ~Forgets(s, v) => Remembers(v, bright)
        /\ ~s.dimmed /\ s.dpmsKeyboard = 0
             => ~v.dimmed /\ ~v.restore /\ v.dpmsKeyboard = 0 /\ v.keyboard = s.keyboard
    <2>1. CASE wake
      <3> DEFINE z == onResumingFromIdle(u, hs)
      <3>1. /\ Sound(z, {}, x, w) /\ SameActions(z, u)
            /\ ~z.dimmed /\ z.dpmsKeyboard = 0
            /\ z.restore => u.restore \/ u.dimmed
            /\ u.dpmsKeyboard = 0 => z.keyboard = u.keyboard
            /\ ~Forgets(u, z) => Remembers(z, bright)
        BY <1>1, MemoryWokenUp
      <3>2. v = z
        BY <2>1
      <3> HIDE DEF z, v
      <3>3. Forgets(u, z) <=> Forgets(s, z)
        BY <1>1 DEF Forgets, SameMemory
      <3> QED
        BY <1>1, <3>1, <3>2, <3>3 DEF SameMemory, SameActions
    <2>2. CASE ~wake
      <3>1. v = u
        BY <2>2
      <3> HIDE DEF v
      <3>2. ~Forgets(s, v)
        BY <1>1, <3>1 DEF Forgets, SameMemory
      <3> QED
        BY <1>1, <3>1, <3>2 DEF SameMemory
    <2> QED
      BY <2>1, <2>2
  <1> HIDE DEF v
  <1>3. /\ t \in Records /\ t.dpmsKeyboard = v.dpmsKeyboard /\ t.pool = s.pool
        /\ t.dimmed => Dim \in t.active
        /\ ~v.dimmed => SameMemory(t, v) /\ ~t.dimmed
        /\ KeyboardOf[p] = Unset /\ Remembers(v, bright) => Remembers(t, bright)
    <2> DEFINE previous == s.profile
               z == loadAllInactiveActions(v, previous, p)
    <2> HIDE DEF previous
    <2>1. v \in Records /\ Sound(v, v.active, x, w)
      BY <1>2 DEF Sound
    <2>2. /\ z \in Records /\ z.dpmsKeyboard = v.dpmsKeyboard
          /\ z.dimmed => v.dimmed /\ (Dim \in v.pool \ v.active => Dim \in IdleActionsOf[p])
          /\ ~v.dimmed \/ Dim \in v.active => SameMemory(z, v)
          /\ KeyboardOf[p] = Unset /\ Remembers(v, bright) => Remembers(z, bright)
      BY <2>1, MemoryLoaded
    <2>3. z.pool = v.pool /\ z.active = v.active \cup ((v.pool \ v.active) \cap IdleActionsOf[p])
      BY <2>1, AllLoaded
    <2>4. t = z
      BY DEF previous
    <2> HIDE DEF z, t
    <2> QED
      BY <1>2, <2>2, <2>3, <2>4
  <1> HIDE DEF t
  <1>4. k \in Levels
    BY <1>3, KeyboardIsLevel DEF Records
  <1> HIDE DEF k
  <1>5. /\ r.profile = p /\ r.pool = t.pool /\ r.active = t.active /\ r.dimmed = t.dimmed
        /\ r.keyboard = k /\ r.dpmsKeyboard = t.dpmsKeyboard /\ r.dimKeyboard = t.dimKeyboard
        /\ r.restore = t.restore /\ r.pending = t.pending
    BY <1>3, <1>4 DEF Records
  <1> HIDE DEF r
  <1>6. ASSUME ~Forgets(s, r), KeyboardOf[p] # Unset => ~s.dimmed /\ ~(s.dpmsKeyboard > 0)
        PROVE  Remembers(r, m)
    <2>1. CASE KeyboardOf[p] = Unset
      <3>1. k = t.keyboard /\ m = bright
        BY <2>1 DEF KeyboardOnLoad, k
      <3> HIDE DEF m
      <3>2. ~Forgets(s, v)
        BY <1>2, <1>3, <1>5, <1>6, <3>1 DEF Forgets, SameMemory
      <3>3. SameMemory(r, t) /\ Remembers(t, bright)
        BY <1>2, <1>3, <1>5, <2>1, <3>1, <3>2 DEF SameMemory
      <3> QED
        BY <3>1, <3>3, StillRemembers
    <2>2. CASE KeyboardOf[p] # Unset
      <3>1. s.dpmsKeyboard = 0 /\ ~s.dimmed
        <4>1. s.dpmsKeyboard > 0 \/ s.dpmsKeyboard = 0
          BY <1>1, IdleAssumption DEF Records, Levels
        <4> QED
          BY <1>6, <2>2, <4>1
      <3>2. s.keyboard = bright
        BY <3>1 DEF Remembers
      <3>3. t.keyboard = bright /\ t.dpmsKeyboard = 0 /\ ~t.dimmed /\ ~t.restore
        BY <1>2, <1>3, <3>1, <3>2 DEF SameMemory
      <3>4. k = m
        BY <3>3 DEF k
      <3> HIDE DEF m
      <3> QED
        BY <1>5, <3>3, <3>4 DEF Remembers
    <2> QED
      BY <2>1, <2>2
  <1>7. SwitchProfile(s, wake, hs, p) = r
    BY DEF SwitchProfile, r, k, t, v, u
  <1> HIDE DEF m
  <1> QED
    BY <1>3, <1>5, <1>6, <1>7 DEF m

-----------------------------------------------------------------------------
(* The brightness of the keyboard and the handlers.                        *)

Kept(s, bright) ==
    Remembers(s, bright) /\ (s.dimmed => Dim \in s.active) /\ Dim \in s.pool

KeyboardInv == ~spoiled => Kept(d, wanted)

LEMMA Tracked ==
    ASSUME NEW before, NEW after, NEW force, Track(before, after, force), ~spoiled'
    PROVE  /\ ~spoiled /\ ~Forgets(before, after)
           /\ before.profile # after.profile \/ force =>
                /\ wanted' = KeyboardOnLoad(wanted, before.profile, after.profile)
                /\ KeyboardOf[after.profile] # Unset
                     => ~before.dimmed /\ ~(before.dpmsKeyboard > 0)
           /\ ~(before.profile # after.profile \/ force) => wanted' = wanted
  BY Zenon DEF Track, Forgets

\* What touches neither memory nor actions.
LEMMA MemoryKeepsInv ==
    ASSUME KeyboardInv, UNCHANGED <<wanted, spoiled>>, SameMemory(d', d),
           d'.pool = d.pool, Dim \in d.active => Dim \in d'.active
    PROVE  KeyboardInv'
  <1> SUFFICES ASSUME ~spoiled' PROVE Kept(d', wanted')
    BY DEF KeyboardInv
  <1>1. Kept(d, wanted) /\ wanted' = wanted
    BY DEF KeyboardInv
  <1> QED
    BY <1>1, StillRemembers DEF Kept, SameMemory

LEMMA ProfileKeepsKeyboard ==
    ASSUME IdleInv, KeyboardInv, ~d.restore, NEW wake, NEW force, NEW p \in Profiles, NEW q,
           LoadProfile(d, wake, force, p, q), Track(d, d', force)
    PROVE  KeyboardInv'
  <1> SUFFICES ASSUME ~spoiled' PROVE Kept(d', wanted')
    BY DEF KeyboardInv
  <1> DEFINE x == asleep \/ silent
             hs == holders \ {"activity"}
             c == PoliciesChange(d, hs, locked)
             r == IF "activity" \in holders THEN refreshTimers(c) ELSE d
             loads == d.profile # d'.profile \/ force
  <1>1. Sound(d, d.active, x, wasLast) /\ d \in Records
    BY DEF IdleInv, Sound
  <1> HIDE DEF x
  <1>2. /\ ~spoiled /\ ~Forgets(d, d')
        /\ loads => /\ wanted' = KeyboardOnLoad(wanted, d.profile, d'.profile)
                    /\ KeyboardOf[d'.profile] # Unset => ~d.dimmed /\ ~(d.dpmsKeyboard > 0)
        /\ ~loads => wanted' = wanted
    <2> DEFINE e == d'
    <2>1. Track(d, e, force)
      OBVIOUS
    <2> HIDE DEF e
    <2>2. /\ ~spoiled /\ ~Forgets(d, e)
          /\ d.profile # e.profile \/ force =>
               /\ wanted' = KeyboardOnLoad(wanted, d.profile, e.profile)
               /\ KeyboardOf[e.profile] # Unset => ~d.dimmed /\ ~(d.dpmsKeyboard > 0)
          /\ ~(d.profile # e.profile \/ force) => wanted' = wanted
      BY <2>1, Tracked
    <2> QED
      BY <2>2 DEF e
  <1>3. Kept(d, wanted)
    BY <1>2 DEF KeyboardInv
  <1>4. Sound(c, c.active, x, wasLast) /\ SameActions(c, d) /\ SameMemory(c, d) /\ c \in Records
    <2>1. Sound(c, d.active, x, wasLast) /\ SameActions(c, d)
      BY <1>1, PoliciesChanged
    <2>2. SameMemory(c, d)
      BY <1>1, MemoryPolicies
    <2> HIDE DEF c
    <2> QED
      BY <2>1, <2>2 DEF SameActions, Sound
  <1> HIDE DEF c
  <1>5. Sound(r, r.active, x, wasLast) /\ SameActions(r, d) /\ SameMemory(r, d)
    <2>1. CASE "activity" \in holders
      <3> DEFINE z == refreshTimers(c)
      <3>1. Sound(z, c.active, x, wasLast) /\ SameActions(z, c)
        BY <1>4, Refreshed
      <3>2. SameMemory(z, c)
        BY <1>4, MemoryRefreshed
      <3>3. r = z
        BY <2>1
      <3> HIDE DEF r, z
      <3> QED
        BY <1>4, <3>1, <3>2, <3>3 DEF SameActions, SameMemory
    <2>2. CASE "activity" \notin holders
      BY <1>1, <2>2 DEF SameActions, SameMemory
    <2> QED
      BY <2>1, <2>2
  <1>6. d' = IF d.profile # p \/ force THEN SwitchProfile(r, wake, hs, p)
             ELSE IF wake THEN onResumingFromIdle(r, hs) ELSE r
    BY DEF LoadProfile, c
  <1> HIDE DEF r, hs
  <1>7. Remembers(r, wanted) /\ ~r.restore /\ Dim \in r.pool /\ (r.dimmed => Dim \in r.active)
    BY <1>3, <1>5, StillRemembers DEF Kept, SameActions, SameMemory
  <1>8. CASE d.profile # p \/ force
    <2> DEFINE z == SwitchProfile(r, wake, hs, p)
               m == KeyboardOnLoad(wanted, r.profile, p)
    <2>1. /\ z.profile = p /\ z.pool = r.pool /\ (z.dimmed => Dim \in z.active)
          /\ ~Forgets(r, z) /\ (KeyboardOf[p] # Unset => ~r.dimmed /\ ~(r.dpmsKeyboard > 0))
               => Remembers(z, m)
      BY <1>5, <1>7, MemorySwitched
    <2>2. d' = z
      BY <1>6, <1>8
    <2> HIDE DEF z
    <2>3. wanted' = m
      BY <1>2, <1>5, <1>8, <2>1, <2>2 DEF SameActions
    <2> HIDE DEF m
    <2>4. ~Forgets(r, z) /\ (KeyboardOf[p] # Unset => ~r.dimmed /\ ~(r.dpmsKeyboard > 0))
      BY <1>2, <1>5, <1>8, <2>1, <2>2 DEF Forgets, SameMemory
    <2> QED
      BY <1>7, <2>1, <2>2, <2>3, <2>4 DEF Kept
  <1>9. CASE ~(d.profile # p \/ force) /\ wake
    <2> DEFINE z == onResumingFromIdle(r, hs)
    <2>1. SameActions(z, r) /\ ~z.dimmed /\ (~Forgets(r, z) => Remembers(z, wanted))
      BY <1>5, <1>7, MemoryWokenUp
    <2>2. d' = z
      BY <1>6, <1>9
    <2> HIDE DEF z
    <2>3. wanted' = wanted /\ ~Forgets(r, z)
      BY <1>2, <1>5, <1>9, <2>1, <2>2 DEF Forgets, SameMemory, SameActions
    <2> QED
      BY <1>7, <2>1, <2>2, <2>3 DEF Kept, SameActions
  <1>10. CASE ~(d.profile # p \/ force) /\ ~wake
    <2>1. d' = r /\ wanted' = wanted
      BY <1>2, <1>5, <1>6, <1>10 DEF SameActions
    <2> QED
      BY <1>7, <2>1 DEF Kept
  <1> QED
    BY <1>8, <1>9, <1>10

LEMMA TimeoutKeepsKeyboard ==
    ASSUME IdleInv, KeyboardInv, NEW a \in Actions, onKIdleTimeoutReached(a)
    PROVE  KeyboardInv'
  <1> DEFINE x == asleep \/ silent
             r == [TimesOut(d, a) EXCEPT !.fired = @ \cup {a}, !.pending = @ \cup {a},
                                         !.catching = TRUE]
  <1> SUFFICES ASSUME ~spoiled' PROVE Kept(d', wanted')
    BY DEF KeyboardInv
  <1>1. Sound(d, d.active, x, wasLast) /\ d \in Records
    BY DEF IdleInv, Sound
  <1>2. /\ d' = r /\ wanted' = wanted /\ spoiled' = spoiled
        /\ ~d.restore /\ d.registered[a] > 0
    BY DEF onKIdleTimeoutReached, history
  <1> HIDE DEF x
  <1>3. Kept(d, wanted)
    BY <1>2 DEF KeyboardInv
  <1>4. SameActions(r, d)
    BY <1>1, TimedOut
  <1>5. Remembers(r, wanted) /\ (r.dimmed => d.dimmed \/ a = Dim)
    BY <1>1, <1>2, <1>3, TimeoutRemembers DEF Kept
  <1>6. a \in d.active
    BY <1>1, <1>2 DEF Sound, Tidy
  <1> HIDE DEF r
  <1> QED
    BY <1>2, <1>3, <1>4, <1>5, <1>6 DEF Kept, SameActions

LEMMA ActivityKeepsKeyboard ==
    ASSUME IdleInv, KeyboardInv, UserActivity
    PROVE  KeyboardInv'
  <1> DEFINE x == asleep \/ silent
             u == simulateUserActivity(d)
  <1>1. Sound(d, d.active, x, wasLast) /\ d \in Records
    BY DEF IdleInv, Sound
  <1> HIDE DEF x
  <1>2. Sound(u, d.active, x, wasLast) /\ SameActions(u, d)
    BY <1>1, Simulated
  <1>3. SameMemory(u, d) /\ u \in Records
    BY <1>1, MemorySimulated
  <1>4. d' = [u EXCEPT !.off = FALSE] /\ UNCHANGED <<wanted, spoiled>>
    BY DEF UserActivity, history
  <1> HIDE DEF u
  <1>5. SameMemory(d', u) /\ SameActions(d', u)
    BY <1>3, <1>4 DEF Records, SameMemory, SameActions
  <1>6. SameMemory(d', d) /\ d'.pool = d.pool /\ d'.active = d.active
    BY <1>2, <1>3, <1>5 DEF SameMemory, SameActions
  <1> QED
    BY <1>4, <1>6, MemoryKeepsInv

LEMMA WakeupsKeepKeyboard ==
    ASSUME IdleInv, KeyboardInv, ResumingFromIdle \/ wakeup
    PROVE  KeyboardInv'
  <1> DEFINE x == asleep \/ silent
  <1> SUFFICES ASSUME ~spoiled' PROVE Kept(d', wanted')
    BY DEF KeyboardInv
  <1>1. Sound(d, d.active, x, wasLast) /\ d \in Records
    BY DEF IdleInv, Sound
  <1> HIDE DEF x
  <1>2. ASSUME NEW u, SameActions(u, d), Track(d, u, FALSE)
        PROVE  Kept(d, wanted) /\ wanted' = wanted /\ ~Forgets(d, u)
    <2>1. ~spoiled /\ ~Forgets(d, u) /\ (d.profile = u.profile => wanted' = wanted)
      BY <1>2, Tracked
    <2> QED
      BY <1>2, <2>1 DEF KeyboardInv, SameActions
  <1>3. ASSUME NEW u, SameActions(u, d), SameActions(d', u), SameMemory(d', u), ~u.dimmed,
               Remembers(u, wanted), Kept(d, wanted), wanted' = wanted
        PROVE  Kept(d', wanted')
    BY <1>3, StillRemembers DEF Kept, SameActions, SameMemory
  <1>4. CASE wakeup
    <2> DEFINE u == onResumingFromIdle(d, holders)
    <2>1. /\ d' = [u EXCEPT !.off = FALSE] \/ d' = u
          /\ Track(d, u, FALSE)
      BY <1>4 DEF wakeup
    <2>2. Sound(u, d.active, x, wasLast) /\ SameActions(u, d)
      BY <1>1, Resumed
    <2>3. Kept(d, wanted) => ~u.dimmed /\ (~Forgets(d, u) => Remembers(u, wanted))
      BY <1>1, MemoryWokenUp DEF Kept
    <2> HIDE DEF u
    <2>4. SameMemory(d', u) /\ SameActions(d', u)
      BY <2>1, <2>2 DEF Sound, Records, SameMemory, SameActions
    <2> QED
      BY <1>2, <1>3, <2>1, <2>2, <2>3, <2>4
  <1>5. CASE ResumingFromIdle
    <2> DEFINE c == FALSE
               u == onResumingFromIdle([d EXCEPT !.resuming = c], holders)
    <2>1. d' = u /\ c \in BOOLEAN /\ Track(d, u, FALSE)
      BY <1>5 DEF ResumingFromIdle
    <2> HIDE DEF c
    <2>2. SameActions(u, d)
      BY <1>1, <2>1, ResumedAs
    <2>3. Kept(d, wanted) => ~u.dimmed /\ u.dpmsKeyboard = 0
                    /\ (~(d.dpmsKeyboard > 0 /\ u.keyboard # d.dpmsKeyboard)
                         => Remembers(u, wanted))
      BY <1>1, <2>1, MemoryResumed DEF Kept
    <2> HIDE DEF u
    <2>4. SameMemory(d', u) /\ SameActions(d', u)
      BY <2>1 DEF SameMemory, SameActions
    <2>5. Kept(d, wanted) /\ wanted' = wanted /\ ~Forgets(d, u)
      BY <1>2, <2>1, <2>2
    <2> QED
      BY <1>3, <2>2, <2>3, <2>4, <2>5 DEF Forgets
  <1> QED
    BY <1>4, <1>5

LEMMA RestoreKeepsKeyboard ==
    ASSUME IdleInv, KeyboardInv, RestoreBrightness
    PROVE  KeyboardInv'
  <1> DEFINE u == RestoreKeyboard(d)
  <1> SUFFICES ASSUME ~spoiled' PROVE Kept(d', wanted')
    BY DEF KeyboardInv
  <1>1. d \in Records
    BY DEF IdleInv, Sound
  <1>2. /\ d' = [u EXCEPT !.ratio = FALSE, !.restore = FALSE] /\ d.restore
        /\ UNCHANGED <<wanted, spoiled>>
    BY DEF RestoreBrightness, history
  <1>3. Kept(d, wanted)
    BY <1>2 DEF KeyboardInv
  <1>4. /\ u \in Records /\ u.dpmsKeyboard = d.dpmsKeyboard /\ u.dimKeyboard = d.dimKeyboard
        /\ u.dimmed = d.dimmed /\ u.pending = d.pending /\ SameActions(u, d)
        /\ u.keyboard = IF d.dimKeyboard > 0 THEN d.dimKeyboard ELSE d.keyboard
    BY <1>1 DEF Records, RestoreKeyboard, SameActions
  <1> HIDE DEF u
  <1>5. /\ d'.dpmsKeyboard = u.dpmsKeyboard /\ d'.dimKeyboard = u.dimKeyboard
        /\ d'.dimmed = u.dimmed /\ d'.pending = u.pending /\ SameActions(d', u)
        /\ d'.keyboard = u.keyboard /\ ~d'.restore
    BY <1>2, <1>4 DEF Records, SameActions
  <1>6. d.dimKeyboard > 0 \/ d.dimKeyboard = 0
    BY <1>1, IdleAssumption DEF Records, Levels
  <1>7. Remembers(d', wanted)
    BY <1>2, <1>3, <1>4, <1>5, <1>6 DEF Remembers, Kept
  <1> QED
    BY <1>2, <1>3, <1>4, <1>5, <1>7 DEF Kept, SameActions

LEMMA ProfilesKeepKeyboard ==
    ASSUME IdleInv, KeyboardInv, plugged \in BOOLEAN,
           onAcAdapterStateChanged \/ refreshStatus \/ currentActivityChanged
    PROVE  KeyboardInv'
  <1>1. ProfileFor(plugged) \in Profiles /\ ProfileFor(~plugged) \in Profiles
    BY Constants
  <1>2. CASE onAcAdapterStateChanged
    <2>1. /\ LoadProfile(d, TRUE, FALSE, ProfileFor(~plugged), quiet)
          /\ Track(d, d', FALSE) /\ ~d.restore
      BY <1>2 DEF onAcAdapterStateChanged
    <2> QED
      BY <1>1, <2>1, ProfileKeepsKeyboard
  <1>3. CASE refreshStatus
    <2>1. /\ LoadProfile(d, FALSE, TRUE, ProfileFor(plugged), quiet)
          /\ Track(d, d', TRUE) /\ ~d.restore
      BY <1>3 DEF refreshStatus
    <2> QED
      BY <1>1, <2>1, ProfileKeepsKeyboard
  <1>4. CASE currentActivityChanged
    <2>1. /\ LoadProfile(d, FALSE, FALSE, ProfileFor(plugged), ~quiet)
          /\ Track(d, d', FALSE) /\ ~d.restore
      BY <1>4 DEF currentActivityChanged
    <2> QED
      BY <1>1, <2>1, ProfileKeepsKeyboard
  <1> QED
    BY <1>2, <1>3, <1>4

LEMMA InhibitionsKeepKeyboard ==
    ASSUME IdleInv, KeyboardInv, InhibitionsChanged
    PROVE  KeyboardInv'
  <1> DEFINE x == asleep \/ silent
  <1>1. Sound(d, d.active, x, wasLast) /\ d \in Records
    BY DEF IdleInv, Sound
  <1> HIDE DEF x
  <1>2. PICK hs : HoldersChange(hs)
    BY DEF InhibitionsChanged
  <1>3. UNCHANGED <<wanted, spoiled>>
    BY DEF InhibitionsChanged, history
  <1> DEFINE c == PoliciesChange(d, hs, locked)
             r == refreshTimers(c)
  <1>4. /\ Sound(c, d.active, x, wasLast) /\ SameActions(c, d) /\ SameMemory(c, d)
    BY <1>1, PoliciesChanged, MemoryPolicies
  <1> HIDE DEF c
  <1>5. c.active = d.active /\ c \in Records
    BY <1>4 DEF SameActions, Sound
  <1>6. SameActions(r, c) /\ SameMemory(r, c)
    BY <1>4, <1>5, Refreshed, MemoryRefreshed
  <1> HIDE DEF r
  <1>7. d' = r
    BY <1>2 DEF HoldersChange, r, c
  <1>8. SameMemory(d', d) /\ d'.pool = d.pool /\ d'.active = d.active
    BY <1>4, <1>6, <1>7 DEF SameMemory, SameActions
  <1> QED
    BY <1>3, <1>8, MemoryKeepsInv

LEMMA LockerKeepsKeyboard ==
    ASSUME IdleInv, KeyboardInv, locked \in BOOLEAN, onScreenLockerActiveChanged
    PROVE  KeyboardInv'
  <1> DEFINE x == asleep \/ silent
             l == ~locked
             u == DpmsOnLocker(d, l)
             r == PoliciesChange(u, holders, l)
  <1>1. Sound(d, d.active, x, wasLast) /\ ~d.suspending /\ l \in BOOLEAN /\ d \in Records
    BY DEF IdleInv, Sound, onScreenLockerActiveChanged
  <1>2. d' = r /\ UNCHANGED <<wanted, spoiled>>
    BY DEF onScreenLockerActiveChanged, history
  <1> HIDE DEF x, l
  <1>3. Sound(u, d.active, x, wasLast) /\ SameActions(u, d) /\ SameMemory(u, d)
    BY <1>1, DpmsLocked, MemoryLocked
  <1> HIDE DEF u
  <1>4. SameActions(r, u) /\ SameMemory(r, u)
    <2>1. u \in Records
      BY <1>3 DEF Sound
    <2> QED
      BY <1>3, <2>1, PoliciesChanged, MemoryPolicies
  <1> HIDE DEF r
  <1>5. SameMemory(d', d) /\ d'.pool = d.pool /\ d'.active = d.active
    BY <1>2, <1>3, <1>4 DEF SameMemory, SameActions
  <1> QED
    BY <1>2, <1>5, MemoryKeepsInv

LEMMA SessionsKeepKeyboard ==
    ASSUME IdleInv, KeyboardInv, plugged \in BOOLEAN,
           onActiveSessionChanged \/ onSessionHandlerRegistered
    PROVE  KeyboardInv'
  <1>1. ~d.restore /\ ActiveSessionIs(activeSession)
    BY DEF onActiveSessionChanged, onSessionHandlerRegistered
  <1>2. CASE UNCHANGED <<d, wanted, spoiled>>
    BY <1>2, Zenon DEF KeyboardInv
  <1>3. CASE LoadProfile(d, FALSE, TRUE, ProfileFor(plugged), quiet) /\ Track(d, d', TRUE)
    <2>1. ProfileFor(plugged) \in Profiles
      BY Constants
    <2> QED
      BY <1>1, <1>3, <2>1, ProfileKeepsKeyboard
  <1>4. CASE SessionInactive
    <2> DEFINE none == Nothing
    <2>1. d' = [d EXCEPT !.registered = none, !.profileActive = FALSE]
      BY <1>4 DEF SessionInactive
    <2>2. d \in Records /\ UNCHANGED <<wanted, spoiled>>
      BY <1>4 DEF IdleInv, Sound, SessionInactive
    <2> HIDE DEF none
    <2>3. SameMemory(d', d) /\ d'.pool = d.pool /\ d'.active = d.active
      BY <2>1, <2>2 DEF Records, SameMemory
    <2> QED
      BY <2>2, <2>3, MemoryKeepsInv
  <1> QED
    BY <1>1, <1>2, <1>3, <1>4 DEF ActiveSessionIs

\* Screens that are lost take the remembered brightness with them.
LEMMA ActionsKeepKeyboard ==
    ASSUME IdleInv, KeyboardInv, refreshActions
    PROVE  KeyboardInv'
  <1> SUFFICES ASSUME ~spoiled' PROVE Kept(d', wanted')
    BY DEF KeyboardInv
  <1> DEFINE x == asleep \/ silent
  <1>1. Sound(d, d.active, x, wasLast) /\ d \in Records /\ Track(d, d', FALSE)
    BY DEF IdleInv, Sound, refreshActions
  <1> HIDE DEF x
  <1>2. ~spoiled /\ ~Forgets(d, d') /\ (d'.profile = d.profile => wanted' = wanted)
    <2> DEFINE e == d'
    <2>1. Track(d, e, FALSE)
      BY <1>1
    <2> HIDE DEF e
    <2>2. ~spoiled /\ ~Forgets(d, e) /\ (e.profile = d.profile => wanted' = wanted)
      BY <2>1, Tracked
    <2> QED
      BY <2>2 DEF e
  <1>3. Kept(d, wanted)
    BY <1>2 DEF KeyboardInv
  <1>4. CASE d' = [destroyAction(d, Dpms) EXCEPT
                     !.pool = @ \ {Dpms}, !.active = @ \ {Dpms}, !.pending = @ \ {Dpms},
                     !.dpmsLoaded = FALSE, !.activatingLock = FALSE, !.dpmsKeyboard = 0]
    <2> DEFINE t == destroyAction(d, Dpms)
               n == t.pool \ {Dpms}
               m == t.active \ {Dpms}
               l == t.pending \ {Dpms}
               z == 0
               r == [t EXCEPT !.pool = n, !.active = m, !.pending = l, !.dpmsLoaded = FALSE,
                              !.activatingLock = FALSE, !.dpmsKeyboard = z]
    <2>1. d' = r /\ z = 0
      BY <1>4
    <2>2. t \in Records /\ SameMemory(t, d) /\ SameActions(t, d)
      <3>1. t \in Records /\ SameMemory(t, d)
        BY <1>1, Destroyed, MemoryUnregistered, Constants
      <3>2. t = [d EXCEPT !.registered = [d.registered EXCEPT ![Dpms] = 0],
                          !.own = [d.own EXCEPT ![Dpms] = 0]]
        BY <1>1, Destroyed, Unregistered, Constants
      <3> HIDE DEF t
      <3> QED
        BY <1>1, <3>1, <3>2 DEF Records, SameActions
    <2> HIDE DEF t, n, m, l, z
    <2>3. /\ r.pool = n /\ r.active = m /\ r.pending = l /\ r.dpmsKeyboard = 0
          /\ r.keyboard = t.keyboard /\ r.dimKeyboard = t.dimKeyboard /\ r.dimmed = t.dimmed
          /\ r.restore = t.restore /\ r.profile = t.profile
      BY <2>1, <2>2 DEF Records
    <2> HIDE DEF r
    <2>4. /\ Dim \in d.pool => Dim \in n
          /\ Dim \in d.active => Dim \in m
          /\ Dim \in d.pending => Dim \in l
      BY <2>2, Constants DEF n, m, l, SameActions, SameMemory
    <2>5. wanted' = wanted /\ ~Forgets(d, r)
      BY <1>2, <2>1, <2>2, <2>3 DEF SameActions
    <2>6. d.dpmsKeyboard > 0 \/ d.dpmsKeyboard = 0
      BY <1>1, IdleAssumption DEF Records, Levels
    <2>7. Remembers(r, wanted)
      <3> HIDE DEF Dim, Dpms
      <3> QED
        BY <1>3, <2>2, <2>3, <2>4, <2>5, <2>6 DEF Kept, Remembers, Forgets, SameMemory
    <2> QED
      BY <1>3, <2>1, <2>2, <2>3, <2>4, <2>5, <2>7 DEF Kept, SameMemory
  <1>5. CASE \E u : u = [d EXCEPT !.pool = @ \cup {Dpms}]
                /\ d' = IF d.profileActive THEN loadAllInactiveActions(u, d.profile, d.profile)
                        ELSE u
    <2> DEFINE u == [d EXCEPT !.pool = @ \cup {Dpms}]
               previous == d.profile
               z == loadAllInactiveActions(u, previous, previous)
    <2>1. /\ Sound(u, u.active, x, wasLast) /\ u \in Records /\ previous \in Profiles
          /\ SameMemory(u, d) /\ u.active = d.active /\ u.profile = d.profile
          /\ Dim \in d.pool => Dim \in u.pool
      BY <1>1, Constants DEF Sound, Records, WillEnd, Tidy, InPlace, SameMemory
    <2>2. d' = z \/ d' = u
      BY <1>5
    <2> HIDE DEF u, previous
    <2>3. /\ Sound(z, z.active, x, wasLast) /\ z.suspending = u.suspending
          /\ z.profile = u.profile /\ z.pool = u.pool
          /\ z.active = u.active \cup ((u.pool \ u.active) \cap IdleActionsOf[previous])
      BY <2>1, AllLoaded
    <2>4. ~u.dimmed \/ Dim \in u.active => SameMemory(z, u)
      BY <2>1, MemoryLoaded
    <2> HIDE DEF z
    <2>5. ~u.dimmed \/ Dim \in u.active
      BY <1>3, <2>1 DEF Kept, SameMemory
    <2>6. /\ SameMemory(d', d) /\ d'.profile = d.profile /\ (Dim \in d.pool => Dim \in d'.pool)
          /\ Dim \in d.active => Dim \in d'.active
      BY <2>1, <2>2, <2>3, <2>4, <2>5 DEF SameMemory
    <2> QED
      BY <1>2, <1>3, <2>6, StillRemembers DEF Kept, SameMemory
  <1> QED
    BY <1>4, <1>5 DEF refreshActions

LEMMA SuspendKeepsKeyboard ==
    ASSUME IdleInv, KeyboardInv, onAboutToSuspend
    PROVE  KeyboardInv'
  <1> DEFINE t == unregisterIdleTimeouts(d, Dpms)
             r == [t EXCEPT !.suspending = TRUE, !.off = TRUE]
  <1>1. d \in Records /\ (d' = r \/ d' = d) /\ UNCHANGED <<wanted, spoiled>>
    BY DEF IdleInv, Sound, onAboutToSuspend, history
  <1>2. t \in Records /\ SameMemory(t, d)
    BY <1>1, MemoryUnregistered, Constants
  <1>3. t = [d EXCEPT !.registered = [d.registered EXCEPT ![Dpms] = 0],
                      !.own = [d.own EXCEPT ![Dpms] = 0]]
    BY <1>1, Unregistered, Constants
  <1> HIDE DEF t
  <1>4. t.pool = d.pool /\ t.active = d.active
    BY <1>1, <1>3 DEF Records
  <1>5. SameMemory(r, t) /\ r.pool = t.pool /\ r.active = t.active
    BY <1>2 DEF Records, SameMemory
  <1> HIDE DEF r
  <1>6. SameMemory(d', d) /\ d'.pool = d.pool /\ d'.active = d.active
    BY <1>1, <1>2, <1>4, <1>5 DEF SameMemory
  <1> QED
    BY <1>1, <1>6, MemoryKeepsInv

LEMMA ResumeKeepsKeyboard ==
    ASSUME IdleInv, KeyboardInv, NEW byUser \in BOOLEAN, onResumeFromSuspend(byUser)
    PROVE  KeyboardInv'
  <1> DEFINE x == asleep \/ silent
             z == [d EXCEPT !.suspending = FALSE]
             u == simulateUserActivity(z)
             t == registerStandardIdleTimeout(u)
             r == [t EXCEPT !.off = FALSE]
  <1>1. /\ Sound(d, d.active, x, wasLast) /\ d \in Records /\ (d' = r \/ d' = u)
        /\ UNCHANGED <<wanted, spoiled>>
    BY DEF IdleInv, Sound, onResumeFromSuspend
  <1> HIDE DEF x
  <1>2. /\ Sound(z, d.active, x, wasLast) /\ z \in Records /\ SameMemory(z, d)
        /\ z.pool = d.pool /\ z.active = d.active
    BY <1>1 DEF Sound, Records, WillEnd, Tidy, InPlace, SameMemory
  <1> HIDE DEF z
  <1>3. /\ Sound(u, d.active, x, wasLast) /\ SameActions(u, z) /\ u \in Records
        /\ SameMemory(u, z)
    BY <1>2, Simulated, MemorySimulated
  <1> HIDE DEF u
  <1>4. SameActions(t, u) /\ SameMemory(t, u) /\ t \in Records
    <2>1. SameActions(t, u)
      BY <1>3, StandardRegistered
    <2> QED
      BY <1>3, <2>1, MemoryStandard
  <1> HIDE DEF t
  <1>5. SameActions(r, t) /\ SameMemory(r, t)
    BY <1>4 DEF Records, SameActions, SameMemory
  <1> HIDE DEF r
  <1>6. SameMemory(d', d) /\ d'.pool = d.pool /\ d'.active = d.active
    BY <1>1, <1>2, <1>3, <1>4, <1>5 DEF SameMemory, SameActions
  <1> QED
    BY <1>1, <1>6, MemoryKeepsInv

-----------------------------------------------------------------------------
(* The theorems.                                                           *)

IdleTypes == plugged \in BOOLEAN /\ locked \in BOOLEAN /\ wasLast \in BOOLEAN

LEMMA TypesKept == IdleTypes /\ [Next]_vars => IdleTypes'
  <1> SUFFICES ASSUME IdleTypes, [Next]_vars PROVE IdleTypes'
    OBVIOUS
  <1>1. plugged' \in BOOLEAN
    <2>1. plugged' = plugged \/ plugged' = ~plugged
      BY DEF Next, vars, world, onKIdleTimeoutReached, UserActivity, ResumingFromIdle,
             RestoreBrightness, wakeup, onAcAdapterStateChanged, refreshStatus,
             currentActivityChanged, InhibitionsChanged, onScreenLockerActiveChanged,
             SwitchSession, onActiveSessionChanged, onSessionHandlerUnregistered,
             onSessionHandlerRegistered, refreshActions, onAboutToSuspend, onResumeFromSuspend
    <2> QED
      BY <2>1, Zenon DEF IdleTypes
  <1>2. locked' \in BOOLEAN
    <2>1. locked' = locked \/ locked' = ~locked
      BY DEF Next, vars, agent, onKIdleTimeoutReached, UserActivity, ResumingFromIdle,
             RestoreBrightness, wakeup, onAcAdapterStateChanged, refreshStatus,
             currentActivityChanged, InhibitionsChanged, onScreenLockerActiveChanged,
             SwitchSession, onActiveSessionChanged, onSessionHandlerUnregistered,
             onSessionHandlerRegistered, refreshActions, onAboutToSuspend, onResumeFromSuspend
    <2> QED
      BY <2>1, Zenon DEF IdleTypes
  <1>3. wasLast' \in BOOLEAN
    <2>1. wasLast' = wasLast \/ wasLast' = TRUE \/ wasLast' = FALSE
      BY DEF Next, vars, agent, onKIdleTimeoutReached, UserActivity, ResumingFromIdle,
             RestoreBrightness, wakeup, onAcAdapterStateChanged, refreshStatus,
             currentActivityChanged, InhibitionsChanged, onScreenLockerActiveChanged,
             SwitchSession, onActiveSessionChanged, onSessionHandlerUnregistered,
             onSessionHandlerRegistered, refreshActions, onAboutToSuspend, onResumeFromSuspend,
             ActiveSessionIs
    <2> QED
      BY <2>1, Zenon DEF IdleTypes
  <1> QED
    BY <1>1, <1>2, <1>3 DEF IdleTypes

LEMMA NextIdle == IdleInv /\ IdleTypes /\ [Next]_vars => IdleInv'
  <1> SUFFICES ASSUME IdleInv, IdleTypes, [Next]_vars PROVE IdleInv'
    OBVIOUS
  <1>1. CASE UNCHANGED <<asleep, silent, wasLast, d>>
    BY <1>1 DEF IdleInv
  <1>2. (\E to \in {"ours", "other", "none"} : SwitchSession(to)) \/ onSessionHandlerUnregistered
            \/ UNCHANGED vars
        => UNCHANGED <<asleep, silent, wasLast, d>>
    BY DEF SwitchSession, onSessionHandlerUnregistered, vars, world, agent, history
  <1> QED
    BY <1>1, <1>2, TimeoutKeepsInv, ActivityKeepsInv, WakeupsKeepInv, RestoreKeepsInv,
       ProfilesKeepInv, InhibitionsKeepInv, LockerKeepsInv, SessionsKeepInv, ActionsKeepInv,
       SuspendKeepsInv, ResumeKeepsInv
       DEF Next, IdleTypes

LEMMA NextKeyboard == IdleInv /\ IdleTypes /\ KeyboardInv /\ [Next]_vars => KeyboardInv'
  <1> SUFFICES ASSUME IdleInv, IdleTypes, KeyboardInv, [Next]_vars PROVE KeyboardInv'
    OBVIOUS
  <1>1. CASE UNCHANGED <<d, wanted, spoiled>>
    BY <1>1, Zenon DEF KeyboardInv
  <1>2. (\E to \in {"ours", "other", "none"} : SwitchSession(to)) \/ onSessionHandlerUnregistered
            \/ UNCHANGED vars
        => UNCHANGED <<d, wanted, spoiled>>
    BY DEF SwitchSession, onSessionHandlerUnregistered, vars, history
  <1> QED
    BY <1>1, <1>2, TimeoutKeepsKeyboard, ActivityKeepsKeyboard, WakeupsKeepKeyboard,
       RestoreKeepsKeyboard, ProfilesKeepKeyboard, InhibitionsKeepKeyboard, LockerKeepsKeyboard,
       SessionsKeepKeyboard, ActionsKeepKeyboard, SuspendKeepsKeyboard, ResumeKeepsKeyboard
       DEF Next, IdleTypes

LEMMA InitIdle == Init => IdleInv /\ IdleTypes /\ KeyboardInv
  <1> SUFFICES ASSUME Init PROVE IdleInv /\ IdleTypes /\ KeyboardInv
    OBVIOUS
  <1>1. PICK pool \in {Actions, Actions \ {Dpms}} :
       d = loadAllInactiveActions(
             [registered |-> Nothing, own |-> Nothing, fired |-> {}, pending |-> {},
              catching |-> FALSE, resuming |-> FALSE,
              pool |-> pool, active |-> {}, profile |-> "AC", profileActive |-> TRUE,
              dimmed |-> FALSE, dimKeyboard |-> 0, restore |-> FALSE, ratio |-> FALSE,
              dpmsLoaded |-> FALSE, activatingLock |-> FALSE, suspending |-> FALSE,
              dpmsKeyboard |-> 0, off |-> FALSE,
              keyboard |-> IF KeyboardOf["AC"] = Unset THEN KeyboardMax ELSE KeyboardOf["AC"]],
             "AC", "AC")
    BY Zenon DEF Init
  <1> DEFINE k == IF KeyboardOf["AC"] = Unset THEN KeyboardMax ELSE KeyboardOf["AC"]
             none == Nothing
             s == [registered |-> none, own |-> none, fired |-> {}, pending |-> {},
                   catching |-> FALSE, resuming |-> FALSE,
                   pool |-> pool, active |-> {}, profile |-> "AC", profileActive |-> TRUE,
                   dimmed |-> FALSE, dimKeyboard |-> 0, restore |-> FALSE, ratio |-> FALSE,
                   dpmsLoaded |-> FALSE, activatingLock |-> FALSE, suspending |-> FALSE,
                   dpmsKeyboard |-> 0, off |-> FALSE, keyboard |-> k]
  <1>2. /\ "AC" \in Profiles /\ k \in Levels /\ 0 \in Levels /\ pool \in SUBSET Actions
        /\ none \in [Actions -> Nat] /\ \A a \in Actions : none[a] = 0
    BY Constants DEF Profiles, Nothing
  <1> HIDE DEF k, none
  <1>3. s \in Records
    BY <1>2 DEF Records
  <1>4. /\ s.active = {} /\ s.pool = pool /\ s.registered = none /\ s.own = none
        /\ s.dpmsLoaded = FALSE /\ s.ratio = FALSE /\ s.suspending = FALSE
    OBVIOUS
  <1>5. d = loadAllInactiveActions(s, "AC", "AC")
    BY <1>1, Zenon DEF k, none
  <1>6. /\ s.keyboard = k /\ s.dimmed = FALSE /\ s.restore = FALSE /\ s.dpmsKeyboard = 0
        /\ Dim \in s.pool
    BY <1>2, <1>4, Constants DEF k
  <1> HIDE DEF s
  <1> DEFINE x == asleep \/ silent
  <1> HIDE DEF x
  <1>7. Sound(s, s.active, x, wasLast)
    BY <1>2, <1>3, <1>4 DEF Sound, WillEnd, Tidy, InPlace
  <1>8. /\ Sound(d, d.active, x, wasLast) /\ d.suspending = s.suspending
        /\ d.profile = s.profile /\ d.pool = s.pool
        /\ d.active = s.active \cup ((s.pool \ s.active) \cap IdleActionsOf["AC"])
    <2> DEFINE p == "AC"
               z == loadAllInactiveActions(s, p, p)
    <2>1. p \in Profiles
      BY <1>2
    <2> HIDE DEF p
    <2>2. /\ Sound(z, z.active, x, wasLast) /\ z.suspending = s.suspending
          /\ z.profile = s.profile /\ z.pool = s.pool
          /\ z.active = s.active \cup ((s.pool \ s.active) \cap IdleActionsOf[p])
      BY <1>7, <2>1, AllLoaded
    <2> QED
      BY <1>5, <2>2 DEF z, p
  <1>9. IdleInv
    BY <1>4, <1>8 DEF IdleInv, x
  <1>10. IdleTypes
    BY DEF Init, IdleTypes
  <1>11. SameMemory(d, s)
    BY <1>2, <1>3, <1>5, <1>6, MemoryLoaded
  <1>12. KeyboardInv
    <2>1. wanted = d.keyboard
      BY DEF Init
    <2> QED
      BY <1>6, <1>8, <1>11, <2>1 DEF KeyboardInv, Kept, Remembers, SameMemory
  <1> QED
    BY <1>9, <1>10, <1>12

\* The record of what the daemon keeps is sound after every handler: types,
\* timeouts, dimming and the keyboard.
THEOREM IdleCorrect == Spec => [](IdleInv /\ IdleTypes /\ KeyboardInv)
  <1>1. IdleInv /\ IdleTypes /\ KeyboardInv /\ [Next]_vars
            => (IdleInv /\ IdleTypes /\ KeyboardInv)'
    BY NextIdle, TypesKept, NextKeyboard
  <1> QED
    BY <1>1, InitIdle, PTL DEF Spec

\* DimDisplay always restores what it dimmed: the action or the zero timer
\* will, whatever profiles, sessions, policies and suspends come between.
THEOREM DimmingAlwaysEnds == Spec => []DimmingWillEnd
  <1>1. IdleInv => DimmingWillEnd
    BY DEF IdleInv, Sound, WillEnd, DimmingWillEnd
  <1> QED
    BY <1>1, IdleCorrect, PTL

\* Core never registers a timeout twice, and in the active session every
\* loaded action has its timeout with KIdleTime, for any profiles.
THEOREM AlwaysTimeoutsInPlace == Spec => []TimeoutsInPlace
  <1>1. IdleInv => TimeoutsInPlace
    BY DEF IdleInv, Sound, Tidy, InPlace, TimeoutsInPlace
  <1> QED
    BY <1>1, IdleCorrect, PTL

\* Once all wakeups are delivered the keyboard is as bright as the user and the
\* profiles want it, however dimming, the screen-off action, profiles and
\* suspends took turns, unless a policy or a profile forbade the restore.
THEOREM AlwaysKeyboardComesBack == Spec => []KeyboardComesBack
  <1>1. IdleInv /\ KeyboardInv => KeyboardComesBack
    <2> SUFFICES ASSUME IdleInv, KeyboardInv, d.pending = {}, ~d.restore, ~spoiled
                 PROVE  d.keyboard = wanted
      BY DEF KeyboardComesBack
    <2>1. Remembers(d, wanted) /\ d \in Records
      BY DEF KeyboardInv, Kept, IdleInv, Sound
    <2>2. d.dpmsKeyboard > 0 \/ d.dpmsKeyboard = 0
      BY <2>1, IdleAssumption DEF Records, Levels
    <2> QED
      BY <2>1, <2>2 DEF Remembers
  <1> QED
    BY <1>1, IdleCorrect, PTL
=============================================================================
