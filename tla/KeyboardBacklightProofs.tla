------------------------ MODULE KeyboardBacklightProofs ------------------------
(***************************************************************************)
(* Theorems about the keyboard's backlight, for any number of levels and   *)
(* any number of keys, lid movements, profiles, suspends and changes by    *)
(* the firmware.                                                           *)
(***************************************************************************)
EXTENDS KeyboardBacklight, TLAPS

BrightnessSignals == [what : {"BrightnessChanged"}, value : Values]
LidSignals == [what : {"LidIsClosed"}, closed : BOOLEAN]
Signals == BrightnessSignals \cup LidSignals
Calls == [what : {"get"}] \cup [what : {"set"}, value : Values]
Messages == [what : {"reply", "changed"}, value : Values]

TypeOK ==
    /\ kbdBrightness \in Values /\ cachedBrightness \in Values
    /\ brightnessBeforeTogglingOff \in Values
    /\ lastKeyboardBrightness \in Values /\ oldKeyboardBrightness \in Values
    /\ lidClosed \in BOOLEAN /\ isLidClosed \in BOOLEAN /\ resumed \in BOOLEAN
    /\ signals \in Seq(Signals) /\ calls \in Seq(Calls) /\ bus \in Seq(Messages)
    /\ initialized \in BOOLEAN /\ connected \in BOOLEAN /\ appletBrightness \in Values
    /\ leftAt \in Values \cup {NoBrightness, Untracked}
    /\ unheard \in BOOLEAN /\ missed \in BOOLEAN /\ events \in Nat

IsLid(signal) == signal.what = "LidIsClosed"
Closes(signal) == IsLid(signal) /\ signal.closed

-----------------------------------------------------------------------------
\* What is announced last is the brightness: the last signal about it has the
\* value, and without one the controller knows it.
LastIsActual ==
    \/ /\ \A i \in DOMAIN signals : IsLid(signals[i])
       /\ cachedBrightness = kbdBrightness
    \/ \E i \in DOMAIN signals :
           /\ ~IsLid(signals[i]) /\ signals[i].value = kbdBrightness
           /\ \A j \in DOMAIN signals : j > i => IsLid(signals[j])

-----------------------------------------------------------------------------
(* The lid.                                                                *)

\* The signals q tell in turn of a lid that the controller takes to be closed
\* if known and that is closed if actual: without one both are the same, the
\* last one tells the truth, and an opening is followed by a closing before
\* anything else, if not by the end.
InTurn(q, known, actual) ==
    /\ (\A i \in DOMAIN q : ~IsLid(q[i])) => known = actual
    /\ \A i \in DOMAIN q :
           IsLid(q[i]) /\ (\A j \in DOMAIN q : j > i => ~IsLid(q[j])) => q[i].closed = actual
    /\ ~known /\ (\E i \in DOMAIN q : IsLid(q[i])) => \E j \in DOMAIN q : Closes(q[j])
    /\ \A i, k \in DOMAIN q :
           IsLid(q[i]) /\ ~q[i].closed /\ k > i /\ IsLid(q[k])
               => \E j \in DOMAIN q : j > i /\ Closes(q[j])

\* The controller learns of every movement, in turn.
LidSignalsInTurn == InTurn(signals, isLidClosed, lidClosed)

\* The brightness to be restored is the one known, or will be when the
\* signals have been read.
OldWillBeKnown ==
    \/ oldKeyboardBrightness = cachedBrightness
    \/ \E i \in DOMAIN signals : ~IsLid(signals[i]) /\ signals[i].value # cachedBrightness

\* So is the brightness to be restored after a suspend.
LastWillBeKnown ==
    \/ lastKeyboardBrightness \in {0, cachedBrightness}
    \/ \E i \in DOMAIN signals : ~IsLid(signals[i]) /\ signals[i].value # cachedBrightness

\* Somebody has changed the brightness with the lid open.
OpenAndChanged ==
    leftAt = NoBrightness =>
        /\ ~lidClosed
        /\ ~unheard => LastWillBeKnown
        /\ ~unheard /\ (\A i \in DOMAIN signals : ~IsLid(signals[i])) => OldWillBeKnown
        /\ (\E i \in DOMAIN signals : IsLid(signals[i])) =>
               \/ \E i \in DOMAIN signals : Closes(signals[i])
               \/ \E i \in DOMAIN signals : /\ ~IsLid(signals[i]) /\ signals[i].value = 0
                                            /\ \A j \in DOMAIN signals : IsLid(signals[j]) => j < i

\* The only movement of the lid that is not read comes first.
LidFirst ==
    /\ signals # <<>> /\ IsLid(signals[1]) /\ signals[1].closed = lidClosed
    /\ \A i \in DOMAIN signals : i > 1 => ~IsLid(signals[i])

\* From closing the lid with everything read until somebody interferes, the
\* values that occur are 0 and the one to be restored.
LeftAlone ==
    leftAt \in Values =>
        /\ kbdBrightness \in {0, leftAt} /\ lastKeyboardBrightness \in {0, leftAt}
        /\ \A i \in DOMAIN signals : ~IsLid(signals[i]) => signals[i].value \in {0, leftAt}
        /\ \/ lidClosed /\ oldKeyboardBrightness = leftAt
              /\ (isLidClosed => \A i \in DOMAIN signals : ~IsLid(signals[i]))
              /\ (~isLidClosed => LidFirst)
           \/ ~lidClosed /\ isLidClosed /\ LidFirst /\ oldKeyboardBrightness = leftAt
           \/ ~lidClosed /\ ~isLidClosed /\ (\A i \in DOMAIN signals : ~IsLid(signals[i]))
              /\ kbdBrightness = leftAt /\ (~unheard => OldWillBeKnown)

LidInv == OpenAndChanged /\ LeftAlone

-----------------------------------------------------------------------------
(* The applet.                                                             *)

\* What the applet will show when it has read everything from the bus.
Heard == IF bus = <<>> THEN appletBrightness ELSE bus[Len(bus)].value

\* The value is the brightness the controller knows, or is being announced.
Announced(value) ==
    \/ missed \/ value = cachedBrightness
    \/ \E i \in DOMAIN signals : ~IsLid(signals[i]) /\ signals[i].value = value

AppletInv ==
    /\ ~initialized => ~connected /\ calls = <<>> /\ bus = <<>>
    /\ initialized /\ ~connected =>
           \/ calls = <<[what |-> "get"]>> /\ bus = <<>>
           \/ calls = <<>> /\ Len(bus) = 1 /\ bus[1].what = "reply"
              /\ Announced(bus[1].value)
    /\ connected =>
           /\ \A i \in DOMAIN calls : calls[i].what = "set"
           /\ \A i \in DOMAIN bus : bus[i].what = "changed"
           /\ \/ Announced(Heard)
              \/ \E i \in DOMAIN calls : calls[i].value = Heard

-----------------------------------------------------------------------------
(* The brightness keys.                                                    *)

LEMMA StepIsValue ==
    ASSUME NEW step \in Int, NEW steps \in Nat \ {0}
    PROVE  stepToValue(step, 0, MaxBrightness, steps) \in Values
  <1>1. Rounded(step * MaxBrightness, steps) \in Int
    <2> DEFINE a == 2 * (step * MaxBrightness) + steps
               b == 2 * steps
    <2>1. a \in Int /\ b \in Nat \ {0}
      BY KeyboardAssumption
    <2>2. a \div b \in Int
      <3> HIDE DEF a, b
      <3> QED
        BY <2>1
    <2> QED
      BY <2>2 DEF Rounded
  <1> QED
    BY <1>1, KeyboardAssumption DEF stepToValue, Bound, Values

LEMMA KeyboardStepsPositive == KeyboardSteps(MaxBrightness) \in Nat \ {0}
  <1>1. CASE MaxBrightness <= 7
    BY <1>1, KeyboardAssumption DEF KeyboardSteps
  <1>2. CASE MaxBrightness > 7 /\ (Divides(5, MaxBrightness) \/ MaxBrightness >= 80)
    BY <1>2, KeyboardAssumption DEF KeyboardSteps
  <1>3. CASE MaxBrightness > 7 /\ ~(Divides(5, MaxBrightness) \/ MaxBrightness >= 80)
    <2> DEFINE even == {k \in {4, 6, 3} : Divides(k, MaxBrightness)}
    <2>1. KeyboardSteps(MaxBrightness) =
              IF even = {} THEN 5 ELSE IF 4 \in even THEN 4 ELSE IF 6 \in even THEN 6 ELSE 3
      BY <1>3, KeyboardAssumption DEF KeyboardSteps
    <2> QED
      BY <2>1
  <1> QED
    BY <1>1, <1>2, <1>3, KeyboardAssumption

\* A key press asks for a brightness that the keyboard has.
LEMMA NextStepIsValue ==
    ASSUME kbdBrightness \in Values, NEW adjustment \in {"Increase", "Decrease"}
    PROVE  NextStep(adjustment) \in Values
  <1> DEFINE max == MaxBrightness
             steps == KeyboardSteps(max)
             up == steps - ((max - kbdBrightness - 1) * steps) \div max
             down == ((kbdBrightness - 1) * steps) \div max
  <1>1. steps \in Nat \ {0} /\ max \in Nat \ {0}
    BY KeyboardStepsPositive, KeyboardAssumption
  <1>2. up \in Int /\ down \in Int
    <2>1. (max - kbdBrightness - 1) * steps \in Int /\ (kbdBrightness - 1) * steps \in Int
      BY <1>1 DEF Values
    <2> DEFINE a == (max - kbdBrightness - 1) * steps
               b == (kbdBrightness - 1) * steps
    <2>2. a \div max \in Int /\ b \div max \in Int
      <3> HIDE DEF a, b, max
      <3> QED
        BY <1>1, <2>1 DEF a, b
    <2> QED
      BY <1>1, <2>2
  <1>3. /\ stepToValue(up, 0, max, steps) \in Values
        /\ stepToValue(up + 1, 0, max, steps) \in Values
        /\ stepToValue(down, 0, max, steps) \in Values
        /\ stepToValue(down - 1, 0, max, steps) \in Values
    BY <1>1, <1>2, StepIsValue
  <1>4. max \in Values /\ 0 \in Values
    BY <1>1 DEF Values
  <1>5. increased(kbdBrightness, 0, max, steps) \in Values
    BY <1>3, <1>4 DEF increased
  <1>6. decreased(kbdBrightness, 0, max, steps) \in Values
    BY <1>3, <1>4 DEF decreased
  <1> QED
    BY <1>5, <1>6 DEF NextStep, adjusted

-----------------------------------------------------------------------------
(* Messages.                                                               *)

LEMMA SignalFields ==
    /\ \A s \in Signals : \/ s.what = "BrightnessChanged" /\ s.value \in Values
                          \/ s.what = "LidIsClosed" /\ s.closed \in BOOLEAN
    /\ \A v \in Values : /\ Changed(v) \in Signals /\ Changed(v).value = v
                         /\ Changed(v).what = "BrightnessChanged"
    /\ \A c \in BOOLEAN : [what |-> "LidIsClosed", closed |-> c] \in Signals
  BY DEF Signals, BrightnessSignals, LidSignals, Changed

\* What a sequence is after a message has been sent, and after one is read.
LEMMA Sent ==
    ASSUME NEW S, NEW q \in Seq(S), NEW e \in S
    PROVE  /\ Append(q, e) \in Seq(S)
           /\ DOMAIN Append(q, e) = 1 .. Len(q) + 1 /\ Len(Append(q, e)) = Len(q) + 1
           /\ \A i \in 1 .. Len(q) : Append(q, e)[i] = q[i]
           /\ Append(q, e)[Len(q) + 1] = e
  OBVIOUS

LEMMA Read ==
    ASSUME NEW S, NEW q \in Seq(S), q # <<>>
    PROVE  /\ q[1] \in S /\ 1 \in 1 .. Len(q)
           /\ Tail(q) \in Seq(S)
           /\ DOMAIN Tail(q) = 1 .. Len(q) - 1 /\ Len(Tail(q)) = Len(q) - 1
           /\ \A i \in 1 .. Len(q) - 1 : Tail(q)[i] = q[i + 1]
  OBVIOUS

\* What is assumed of a message that the handlers read.
LEMMA CallFields ==
    /\ \A c \in Calls : c.what # "get" => c.what = "set" /\ c.value \in Values
    /\ [what |-> "get"] \in Calls
    /\ \A v \in Values : /\ [what |-> "set", value |-> v] \in Calls
                         /\ [what |-> "set", value |-> v].value = v
    /\ \A m \in Messages : m.what \in {"reply", "changed"} /\ m.value \in Values
    /\ \A v \in Values : /\ [what |-> "reply", value |-> v] \in Messages
                         /\ [what |-> "changed", value |-> v] \in Messages
  <1>1. \A c \in Calls : c.what # "get" => c.what = "set" /\ c.value \in Values
    BY DEF Calls
  <1>2. \A m \in Messages : m.what \in {"reply", "changed"} /\ m.value \in Values
    BY DEF Messages
  <1>3. [what |-> "get"] \in Calls
    BY DEF Calls
  <1>4. \A v \in Values : [what |-> "set", value |-> v] \in Calls
    BY DEF Calls
  <1>5. \A v \in Values : /\ [what |-> "reply", value |-> v] \in Messages
                          /\ [what |-> "changed", value |-> v] \in Messages
    BY DEF Messages
  <1> QED
    BY <1>1, <1>2, <1>3, <1>4, <1>5

-----------------------------------------------------------------------------
(* Types.                                                                  *)

LEMMA InitType == Init => TypeOK
  <1> SUFFICES ASSUME Init PROVE TypeOK
    OBVIOUS
  <1>1. 0 \in Values /\ 0 \in Nat
    BY KeyboardAssumption DEF Values
  <1>2. <<>> \in Seq(Signals) /\ <<>> \in Seq(Calls) /\ <<>> \in Seq(Messages)
    OBVIOUS
  <1> QED
    BY <1>1, <1>2 DEF Init, TypeOK

LEMMA SetsType ==
    ASSUME TypeOK, NEW value \in Values, UPowerSets(value)
    PROVE  kbdBrightness' \in Values /\ signals' \in Seq(Signals)
  BY SignalFields, Sent DEF UPowerSets, TypeOK

LEMMA ChosenType ==
    ASSUME TypeOK, NEW value \in Values, Chosen(value)
    PROVE  leftAt' \in Values \cup {NoBrightness, Untracked}
  BY DEF Chosen

LEMMA ToggledIsValue == TypeOK => Toggled \in Values
  BY KeyboardAssumption DEF TypeOK, Toggled, Values

LEMMA UserType ==
    ASSUME TypeOK, User
    PROVE  TypeOK'
  <1> USE DEF hardware, caches, applet, untouched
  <1>0. Happens => events' \in Nat
    BY DEF Happens, TypeOK
  <1>1. ASSUME NEW value \in Values, KeyPressed(value)
        PROVE  TypeOK'
    <2>1. CASE kbdBrightness # cachedBrightness
      BY <1>0, <1>1, <2>1 DEF KeyPressed, TypeOK
    <2>2. CASE kbdBrightness = cachedBrightness
      BY <1>0, <1>1, <2>2, SetsType, ChosenType
         DEF KeyPressed, TypeOK, Sets, setBrightness, Cached
    <2> QED
      BY <2>1, <2>2
  <1>2. CASE LidMoves
    <2>1. lidClosed' \in BOOLEAN
      BY <1>2 DEF LidMoves
    <2>2. [what |-> "LidIsClosed", closed |-> lidClosed'] \in Signals
      BY <2>1, SignalFields
    <2>3. 0 \in Values
      BY KeyboardAssumption DEF Values
    <2> DEFINE told == Append(signals, [what |-> "LidIsClosed", closed |-> lidClosed'])
    <2>6. told \in Seq(Signals) /\ Append(told, Changed(0)) \in Seq(Signals)
      <3>1. told \in Seq(Signals)
        BY <2>2, Sent DEF TypeOK
      <3>2. Changed(0) \in Signals
        BY <2>3, SignalFields
      <3> HIDE DEF told
      <3> QED
        BY <3>1, <3>2, Sent
    <2>4. signals' \in Seq(Signals) /\ kbdBrightness' \in Values
      BY <1>2, <2>3, <2>6 DEF LidMoves, TypeOK
    <2>5. leftAt' \in Values \cup {NoBrightness, Untracked}
      BY <1>2 DEF LidMoves, TypeOK
    <2> QED
      BY <1>0, <1>2, <2>1, <2>4, <2>5 DEF LidMoves, TypeOK
  <1>3. ASSUME NEW value \in Values, AppletSets(value)
        PROVE  TypeOK'
    <2>1. calls' \in Seq(Calls)
      BY <1>3, CallFields, Sent DEF AppletSets, TypeOK
    <2> QED
      BY <1>0, <1>3, <2>1 DEF AppletSets, TypeOK, daemon
  <1>4. ASSUME NEW value \in Values, NEW more \in BOOLEAN, onProfileLoad(value, more)
        PROVE  TypeOK'
    BY <1>0, <1>4, SetsType, ChosenType
       DEF onProfileLoad, TypeOK, Sets, setBrightness, Cached
  <1>5. kbdBrightness \in Values
    BY DEF TypeOK
  <1> QED
    BY <1>1, <1>2, <1>3, <1>4, <1>5, NextStepIsValue, ToggledIsValue DEF User

LEMMA WorldType ==
    ASSUME TypeOK, World
    PROVE  TypeOK'
  <1> USE DEF hardware, caches, applet
  <1>0. Happens => events' \in Nat
    BY DEF Happens, TypeOK
  <1>1. CASE Sleeps
    <2>1. 0 \in Values
      BY KeyboardAssumption DEF Values
    <2> QED
      BY <1>0, <1>1, <2>1, SetsType DEF Sleeps, TypeOK
  <1>2. ASSUME NEW value \in Values, BrightnessChanges(value)
        PROVE  TypeOK'
    BY <1>0, <1>2, SetsType, ChosenType DEF BrightnessChanges, TypeOK
  <1> QED
    BY <1>1, <1>2 DEF World

LEMMA ReadSignalType ==
    ASSUME TypeOK, ReadSignal
    PROVE  TypeOK'
  <1> USE DEF hardware, caches, applet
  <1>1. /\ signals[1] \in Signals /\ Tail(signals) \in Seq(Signals)
    BY Read DEF ReadSignal, TypeOK
  <1>2. CASE signals[1].what = "BrightnessChanged" /\ onBrightnessChanged(signals[1].value)
             /\ signals' = Tail(signals)
    <2>1. signals[1].value \in Values
      BY <1>1, <1>2, SignalFields
    <2>2. bus' \in Seq(Messages)
      <3> DEFINE message == [what |-> "changed", value |-> signals[1].value]
      <3>1. message \in Messages
        BY <2>1, CallFields
      <3>2. Append(bus, message) \in Seq(Messages)
        BY <3>1, Sent DEF TypeOK
      <3> QED
        BY <1>2, <3>2 DEF onBrightnessChanged, TypeOK
    <2> QED
      BY <1>1, <1>2, <2>1, <2>2
         DEF ReadSignal, onBrightnessChanged, Remembered, OldBrightness, TypeOK
  <1>3. CASE signals[1].what = "LidIsClosed" /\ onLidClosedChanged(signals[1].closed)
             /\ signals' = IF signals[1].closed \/ oldKeyboardBrightness > 0
                           THEN Append(Tail(signals), Changed(kbdBrightness')) ELSE Tail(signals)
    <2>1. signals[1].closed \in BOOLEAN
      BY <1>1, <1>3, SignalFields
    <2>2. kbdBrightness' \in Values /\ brightnessBeforeTogglingOff' \in Values
          /\ cachedBrightness' \in Values
      BY <1>3, KeyboardAssumption DEF onLidClosedChanged, Cached, TypeOK, Values
    <2>3. signals' \in Seq(Signals)
      BY <1>1, <1>3, <2>2, SignalFields, Sent
    <2> QED
      BY <1>3, <2>1, <2>2, <2>3 DEF ReadSignal, onLidClosedChanged, TypeOK
  <1> QED
    BY <1>2, <1>3 DEF ReadSignal

LEMMA DaemonType ==
    ASSUME TypeOK, Daemon
    PROVE  TypeOK'
  <1> USE DEF hardware, caches, applet, untouched, daemon
  <1>1. CASE ReadResume
    BY <1>1, SetsType DEF ReadResume, Sets, setBrightness, Cached, TypeOK
  <1>2. CASE ServeGet
    <2>1. calls' \in Seq(Calls)
      BY <1>2, Read DEF ServeGet, TypeOK
    <2>2. bus' \in Seq(Messages)
      BY <1>2, CallFields, Sent DEF ServeGet, TypeOK
    <2> QED
      BY <1>2, <2>1, <2>2 DEF ServeGet, TypeOK
  <1>3. CASE ServeSet
    <2>1. calls' \in Seq(Calls) /\ calls[1] \in Calls
      BY <1>3, Read DEF ServeSet, TypeOK
    <2>2. calls[1].value \in Values
      BY <1>3, <2>1, CallFields DEF ServeSet
    <2> QED
      BY <1>3, <2>1, <2>2, SetsType, ChosenType
         DEF ServeSet, Sets, setBrightness, Cached, TypeOK
  <1> QED
    BY <1>1, <1>2, <1>3, ReadSignalType DEF Daemon

LEMMA AppletType ==
    ASSUME TypeOK, Applet
    PROVE  TypeOK'
  <1> USE DEF hardware, caches, applet, daemon
  <1>1. CASE AppletStarts
    <2>1. calls' \in Seq(Calls)
      BY <1>1, CallFields, Sent DEF AppletStarts, TypeOK
    <2> QED
      BY <1>1, <2>1 DEF AppletStarts, TypeOK
  <1>2. CASE AppletConnects \/ AppletHears
    <2>1. bus' \in Seq(Messages) /\ bus[1] \in Messages
      BY <1>2, Read DEF AppletConnects, AppletHears, TypeOK
    <2>2. bus[1].value \in Values
      BY <2>1, CallFields
    <2> QED
      BY <1>2, <2>1, <2>2 DEF AppletConnects, AppletHears, TypeOK
  <1> QED
    BY <1>1, <1>2 DEF Applet

LEMMA NextType == TypeOK /\ [Next]_vars => TypeOK'
  <1>1. TypeOK /\ UNCHANGED vars => TypeOK'
    BY DEF vars, hardware, caches, applet, TypeOK
  <1> QED
    BY <1>1, UserType, WorldType, DaemonType, AppletType DEF Next

\* Every variable stays in its range: no key, profile or slider asks for a
\* brightness that the keyboard does not have.
THEOREM TypeCorrect == Spec => []TypeOK
  BY InitType, NextType, PTL DEF Spec

-----------------------------------------------------------------------------
(* What is announced last is the brightness.                               *)

\* Whoever sets the brightness announces it.
LEMMA SetKeepsLast ==
    ASSUME TypeOK, NEW value \in Values, UPowerSets(value)
    PROVE  LastIsActual'
  <1> DEFINE n == Len(signals) + 1
  <1>1. /\ DOMAIN signals' = 1 .. n /\ n \in 1 .. n
        /\ signals'[n] = Changed(value) /\ kbdBrightness' = value
    BY SignalFields, Sent DEF UPowerSets, TypeOK
  <1>2. ~IsLid(signals'[n]) /\ signals'[n].value = kbdBrightness'
    BY <1>1, SignalFields DEF IsLid
  <1>3. \A j \in DOMAIN signals' : j > n => IsLid(signals'[j])
    BY <1>1
  <1> QED
    BY <1>1, <1>2, <1>3 DEF LastIsActual

LEMMA QuietKeepsLast ==
    ASSUME LastIsActual, UNCHANGED hardware, cachedBrightness' \in {cachedBrightness, kbdBrightness}
    PROVE  LastIsActual'
  BY DEF LastIsActual, hardware, IsLid

\* The lid is announced without a change of the brightness.
LEMMA LidKeepsLast ==
    ASSUME TypeOK, LastIsActual, NEW closed \in BOOLEAN,
           signals' = Append(signals, [what |-> "LidIsClosed", closed |-> closed]),
           UNCHANGED <<kbdBrightness, cachedBrightness>>
    PROVE  LastIsActual'
  <1> DEFINE n == Len(signals) + 1
  <1>1. /\ DOMAIN signals = 1 .. Len(signals) /\ DOMAIN signals' = 1 .. n
        /\ \A i \in 1 .. Len(signals) : signals'[i] = signals[i]
        /\ signals'[n] = [what |-> "LidIsClosed", closed |-> closed]
        /\ Len(signals) \in Nat
    BY SignalFields, Sent DEF TypeOK
  <1>2. IsLid(signals'[n]) /\ \A i \in 1 .. Len(signals) : IsLid(signals'[i]) <=> IsLid(signals[i])
    BY <1>1 DEF IsLid
  <1>3. CASE \A i \in DOMAIN signals : IsLid(signals[i])
    <2>1. \A i \in DOMAIN signals' : IsLid(signals'[i])
      BY <1>1, <1>2, <1>3
    <2>2. cachedBrightness = kbdBrightness
      BY <1>3 DEF LastIsActual
    <2> QED
      BY <2>1, <2>2 DEF LastIsActual
  <1>4. CASE ~ \A i \in DOMAIN signals : IsLid(signals[i])
    <2>1. PICK i \in DOMAIN signals :
              /\ ~IsLid(signals[i]) /\ signals[i].value = kbdBrightness
              /\ \A j \in DOMAIN signals : j > i => IsLid(signals[j])
      BY <1>4 DEF LastIsActual
    <2>2. i \in DOMAIN signals' /\ ~IsLid(signals'[i]) /\ signals'[i].value = kbdBrightness'
      BY <1>1, <1>2, <2>1
    <2>3. \A j \in DOMAIN signals' : j > i => IsLid(signals'[j])
      BY <1>1, <1>2, <2>1
    <2> QED
      BY <2>2, <2>3 DEF LastIsActual
  <1> QED
    BY <1>3, <1>4

\* A signal is read: one of the lid, or the value that the controller then knows.
LEMMA ReadKeepsLast ==
    ASSUME TypeOK, LastIsActual, signals # <<>>, signals' = Tail(signals),
           UNCHANGED kbdBrightness,
           IF IsLid(signals[1]) THEN UNCHANGED cachedBrightness ELSE cachedBrightness' = signals[1].value
    PROVE  LastIsActual'
  <1> DEFINE n == Len(signals)
  <1>1. /\ DOMAIN signals = 1 .. n /\ DOMAIN signals' = 1 .. n - 1
        /\ \A i \in 1 .. n - 1 : signals'[i] = signals[i + 1]
        /\ n \in Nat /\ 1 \in 1 .. n
    BY Read DEF TypeOK
  <1>2. \A i \in 1 .. n - 1 : IsLid(signals'[i]) <=> IsLid(signals[i + 1])
    BY <1>1 DEF IsLid
  <1>3. CASE \A i \in DOMAIN signals : IsLid(signals[i])
    <2>1. \A i \in DOMAIN signals' : IsLid(signals'[i])
      BY <1>1, <1>2, <1>3
    <2>2. cachedBrightness' = kbdBrightness'
      BY <1>1, <1>3 DEF LastIsActual
    <2> QED
      BY <2>1, <2>2 DEF LastIsActual
  <1>4. CASE ~ \A i \in DOMAIN signals : IsLid(signals[i])
    <2>1. PICK i \in DOMAIN signals :
              /\ ~IsLid(signals[i]) /\ signals[i].value = kbdBrightness
              /\ \A j \in DOMAIN signals : j > i => IsLid(signals[j])
      BY <1>4 DEF LastIsActual
    <2>2. CASE i = 1
      <3>1. \A j \in DOMAIN signals' : IsLid(signals'[j])
        BY <1>1, <1>2, <2>1, <2>2
      <3> QED
        BY <2>1, <2>2, <3>1 DEF LastIsActual
    <2>3. CASE i # 1
      <3>1. /\ i - 1 \in DOMAIN signals' /\ ~IsLid(signals'[i - 1])
            /\ signals'[i - 1].value = kbdBrightness'
        BY <1>1, <1>2, <2>1, <2>3
      <3>2. \A j \in DOMAIN signals' : j > i - 1 => IsLid(signals'[j])
        BY <1>1, <1>2, <2>1, <2>3
      <3> QED
        BY <3>1, <3>2 DEF LastIsActual
    <2> QED
      BY <2>2, <2>3
  <1> QED
    BY <1>3, <1>4

-----------------------------------------------------------------------------
(* What the steps do to the brightness and the lid.                        *)

tracked == <<caches, lidClosed, isLidClosed, unheard>>

SomebodySets == UNCHANGED tracked /\ \E value \in Values : UPowerSets(value) /\ Chosen(value)

FirmwareTurnsOff ==
    /\ UNCHANGED tracked /\ kbdBrightness > 0 /\ UPowerSets(0)
    /\ leftAt' = IF lidClosed THEN leftAt ELSE NoBrightness

DaemonRestores ==
    /\ UNCHANGED tracked /\ UPowerSets(lastKeyboardBrightness)
    /\ lastKeyboardBrightness > 0 /\ leftAt' = leftAt

NothingNew ==
    /\ UNCHANGED <<hardware, lidClosed, isLidClosed, lastKeyboardBrightness, oldKeyboardBrightness,
                   leftAt>>
    /\ unheard => unheard'
    /\ \/ UNCHANGED cachedBrightness
       \/ cachedBrightness' = kbdBrightness /\ unheard'

LEMMA StepKinds ==
    ASSUME TypeOK, [Next]_vars
    PROVE  \/ SomebodySets \/ FirmwareTurnsOff \/ DaemonRestores
           \/ LidMoves \/ ReadSignal \/ NothingNew
  <1> USE DEF hardware, caches, applet, untouched, daemon, tracked
  <1>1. ASSUME NEW value \in Values, KeyPressed(value)
        PROVE  SomebodySets \/ NothingNew
    <2>1. CASE kbdBrightness # cachedBrightness
      BY <1>1, <2>1 DEF KeyPressed, NothingNew
    <2>2. CASE kbdBrightness = cachedBrightness
      BY <1>1, <2>2 DEF KeyPressed, Sets, setBrightness, Cached, SomebodySets
    <2> QED
      BY <2>1, <2>2
  <1>2. ASSUME NEW value \in Values, NEW more \in BOOLEAN, onProfileLoad(value, more)
        PROVE  SomebodySets
    BY <1>2 DEF onProfileLoad, Sets, setBrightness, Cached, SomebodySets
  <1>3. ASSUME NEW value \in Values, AppletSets(value)
        PROVE  NothingNew
    BY <1>3 DEF AppletSets, NothingNew
  <1>4. ASSUME User
        PROVE  SomebodySets \/ LidMoves \/ NothingNew
    <2>1. kbdBrightness \in Values
      BY DEF TypeOK
    <2> QED
      BY <1>1, <1>2, <1>3, <1>4, <2>1, NextStepIsValue, ToggledIsValue DEF User
  <1>5. ASSUME World
        PROVE  SomebodySets \/ FirmwareTurnsOff \/ NothingNew
    <2>1. CASE Sleeps
      BY <2>1 DEF Sleeps, FirmwareTurnsOff, NothingNew
    <2>2. ASSUME NEW value \in Values, BrightnessChanges(value)
          PROVE  SomebodySets
      BY <2>2 DEF BrightnessChanges, SomebodySets
    <2> QED
      BY <1>5, <2>1, <2>2 DEF World
  <1>6. ASSUME ReadResume
        PROVE  DaemonRestores \/ NothingNew
    BY <1>6 DEF ReadResume, Sets, setBrightness, Cached, DaemonRestores, NothingNew
  <1>7. ASSUME ServeSet
        PROVE  SomebodySets
    <2>1. calls[1] \in Calls
      BY <1>7, Read DEF ServeSet, TypeOK
    <2>2. calls[1].value \in Values
      BY <1>7, <2>1, CallFields DEF ServeSet
    <2>3. UPowerSets(calls[1].value) /\ Chosen(calls[1].value)
      BY <1>7 DEF ServeSet, Sets, setBrightness
    <2>4. UNCHANGED tracked
      BY <1>7 DEF ServeSet, Sets, setBrightness, Cached
    <2> QED
      BY <2>2, <2>3, <2>4 DEF SomebodySets
  <1>8. ASSUME ServeGet \/ Applet
        PROVE  NothingNew
    <2>1. CASE ServeGet
      BY <2>1 DEF ServeGet, NothingNew
    <2>2. CASE Applet
      BY <2>2 DEF Applet, AppletStarts, AppletConnects, AppletHears, NothingNew
    <2> QED
      BY <1>8, <2>1, <2>2
  <1>9. UNCHANGED vars => NothingNew
    BY DEF vars, NothingNew
  <1> QED
    BY <1>4, <1>5, <1>6, <1>7, <1>8, <1>9 DEF Next, Daemon

-----------------------------------------------------------------------------
LEMMA InitLast == Init => LastIsActual
  BY DEF Init, LastIsActual

LEMMA LidMovesKeepsLast ==
    ASSUME TypeOK, LastIsActual, LidMoves
    PROVE  LastIsActual'
  <1> DEFINE lid == [what |-> "LidIsClosed", closed |-> lidClosed']
             told == Append(signals, lid)
  <1>1. lidClosed' \in BOOLEAN /\ UNCHANGED cachedBrightness
    BY DEF LidMoves, TypeOK, caches
  <1>2. CASE signals' = told /\ UNCHANGED kbdBrightness
    BY <1>1, <1>2, LidKeepsLast
  <1>3. CASE kbdBrightness' = 0 /\ signals' = Append(told, Changed(0))
    <2> DEFINE n == Len(told) + 1
    <2>1. lid \in Signals /\ 0 \in Values
      BY <1>1, SignalFields, KeyboardAssumption DEF Values
    <2>2. told \in Seq(Signals)
      BY <2>1, Sent DEF TypeOK
    <2>3. /\ DOMAIN signals' = 1 .. n /\ n \in 1 .. n /\ signals'[n] = Changed(0)
      <3> HIDE DEF told
      <3> QED
        BY <1>3, <2>1, <2>2, SignalFields, Sent
    <2>4. ~IsLid(signals'[n]) /\ signals'[n].value = kbdBrightness'
      BY <1>3, <2>1, <2>3, SignalFields DEF IsLid
    <2>5. \A j \in DOMAIN signals' : j > n => IsLid(signals'[j])
      BY <2>3
    <2> QED
      BY <2>3, <2>4, <2>5 DEF LastIsActual
  <1> QED
    BY <1>2, <1>3 DEF LidMoves

LEMMA ReadSignalKeepsLast ==
    ASSUME TypeOK, LastIsActual, ReadSignal
    PROVE  LastIsActual'
  <1>1. signals[1] \in Signals /\ Tail(signals) \in Seq(Signals) /\ signals # <<>>
    BY Read DEF ReadSignal, TypeOK
  <1>2. CASE signals[1].what = "BrightnessChanged" /\ onBrightnessChanged(signals[1].value)
             /\ signals' = Tail(signals)
    BY <1>1, <1>2, ReadKeepsLast DEF onBrightnessChanged, Remembered, IsLid, caches
  <1>3. CASE signals[1].what = "LidIsClosed" /\ onLidClosedChanged(signals[1].closed)
             /\ signals' = IF signals[1].closed \/ oldKeyboardBrightness > 0
                           THEN Append(Tail(signals), Changed(kbdBrightness')) ELSE Tail(signals)
    <2>1. CASE signals[1].closed \/ oldKeyboardBrightness > 0
      <3> DEFINE n == Len(Tail(signals)) + 1
      <3>1. kbdBrightness' \in Values
        BY <1>3, KeyboardAssumption DEF onLidClosedChanged, TypeOK, Values
      <3>2. /\ DOMAIN signals' = 1 .. n /\ n \in 1 .. n /\ signals'[n] = Changed(kbdBrightness')
        BY <1>1, <1>3, <2>1, <3>1, SignalFields, Sent
      <3>3. ~IsLid(signals'[n]) /\ signals'[n].value = kbdBrightness'
        BY <3>1, <3>2, SignalFields DEF IsLid
      <3>4. \A j \in DOMAIN signals' : j > n => IsLid(signals'[j])
        BY <3>2
      <3> QED
        BY <3>2, <3>3, <3>4 DEF LastIsActual
    <2>2. CASE ~(signals[1].closed \/ oldKeyboardBrightness > 0)
      BY <1>1, <1>3, <2>2, ReadKeepsLast DEF onLidClosedChanged, IsLid
    <2> QED
      BY <2>1, <2>2
  <1> QED
    BY <1>2, <1>3 DEF ReadSignal

LEMMA NextKeepsLast == TypeOK /\ LastIsActual /\ [Next]_vars => LastIsActual'
  <1> SUFFICES ASSUME TypeOK, LastIsActual, [Next]_vars PROVE LastIsActual'
    OBVIOUS
  <1>1. ASSUME SomebodySets \/ FirmwareTurnsOff \/ DaemonRestores
        PROVE  LastIsActual'
    <2>1. 0 \in Values /\ lastKeyboardBrightness \in Values
      BY KeyboardAssumption DEF TypeOK, Values
    <2> QED
      BY <1>1, <2>1, SetKeepsLast DEF SomebodySets, FirmwareTurnsOff, DaemonRestores
  <1>2. NothingNew => LastIsActual'
    BY QuietKeepsLast DEF NothingNew
  <1> QED
    BY <1>1, <1>2, StepKinds, LidMovesKeepsLast, ReadSignalKeepsLast

\* A key press is never taken for a change that the firmware has made, once the
\* daemon has read what UPower told it: keyboardBrightnessKeyPressed steps then.
THEOREM AlwaysKeysAreObeyed == Spec => []KeysAreObeyed
  <1>1. LastIsActual => KeysAreObeyed
    BY DEF LastIsActual, KeysAreObeyed
  <1> QED
    BY <1>1, TypeCorrect, InitLast, NextKeepsLast, PTL DEF Spec

-----------------------------------------------------------------------------
(* The lid's signals.                                                      *)

LEMMA BrightnessKeepsTurn ==
    ASSUME NEW q \in Seq(Signals), NEW s \in Signals, ~IsLid(s), NEW known, NEW actual,
           InTurn(q, known, actual)
    PROVE  InTurn(Append(q, s), known, actual)
  <1> DEFINE n == Len(q)
             r == Append(q, s)
  <1>1. /\ DOMAIN q = 1 .. n /\ DOMAIN r = 1 .. n + 1 /\ n \in Nat
        /\ \A i \in 1 .. n : r[i] = q[i]
        /\ ~IsLid(r[n + 1])
    BY Sent
  <1> HIDE DEF r, n
  <1>2. (\A i \in DOMAIN r : ~IsLid(r[i])) => known = actual
    BY <1>1 DEF InTurn
  <1>3. ASSUME NEW i \in DOMAIN r, IsLid(r[i]), \A j \in DOMAIN r : j > i => ~IsLid(r[j])
        PROVE  r[i].closed = actual
    <2>1. i \in DOMAIN q /\ IsLid(q[i]) /\ r[i] = q[i]
      BY <1>1, <1>3
    <2>2. \A j \in DOMAIN q : j > i => ~IsLid(q[j])
      BY <1>1, <1>3
    <2> QED
      BY <2>1, <2>2 DEF InTurn
  <1>4. ASSUME ~known, NEW i \in DOMAIN r, IsLid(r[i])
        PROVE  \E j \in DOMAIN r : Closes(r[j])
    <2>1. i \in DOMAIN q /\ IsLid(q[i])
      BY <1>1, <1>4
    <2>2. PICK j \in DOMAIN q : Closes(q[j])
      BY <1>4, <2>1 DEF InTurn
    <2> QED
      BY <1>1, <2>2
  <1>5. ASSUME NEW i \in DOMAIN r, NEW k \in DOMAIN r, IsLid(r[i]), ~r[i].closed, k > i, IsLid(r[k])
        PROVE  \E j \in DOMAIN r : j > i /\ Closes(r[j])
    <2>1. i \in DOMAIN q /\ k \in DOMAIN q /\ r[i] = q[i] /\ r[k] = q[k]
      BY <1>1, <1>5
    <2>2. PICK j \in DOMAIN q : j > i /\ Closes(q[j])
      BY <1>5, <2>1 DEF InTurn
    <2> QED
      BY <1>1, <2>2
  <1> QED
    BY <1>2, <1>3, <1>4, <1>5 DEF InTurn, r

LEMMA LidKeepsTurn ==
    ASSUME NEW q \in Seq(Signals), NEW s \in Signals, IsLid(s),
           NEW known \in BOOLEAN, NEW actual \in BOOLEAN, s.closed = ~actual,
           InTurn(q, known, actual)
    PROVE  InTurn(Append(q, s), known, s.closed)
  <1> DEFINE n == Len(q)
             r == Append(q, s)
  <1>1. /\ DOMAIN q = 1 .. n /\ DOMAIN r = 1 .. n + 1 /\ n \in Nat
        /\ \A i \in 1 .. n : r[i] = q[i]
        /\ r[n + 1] = s
    BY Sent
  <1> HIDE DEF r, n
  <1>2. ~ \A i \in DOMAIN r : ~IsLid(r[i])
    BY <1>1
  <1>3. ASSUME NEW i \in DOMAIN r, IsLid(r[i]), \A j \in DOMAIN r : j > i => ~IsLid(r[j])
        PROVE  r[i].closed = s.closed
    <2>1. i = n + 1
      BY <1>1, <1>3
    <2> QED
      BY <1>1, <2>1
  <1>4. ASSUME ~known
        PROVE  \E j \in DOMAIN r : Closes(r[j])
    <2>1. CASE s.closed
      BY <1>1, <2>1 DEF Closes
    <2>2. CASE actual
      <3>1. \E i \in DOMAIN q : IsLid(q[i])
        BY <1>4, <2>2 DEF InTurn
      <3>2. PICK j \in DOMAIN q : Closes(q[j])
        BY <1>4, <3>1 DEF InTurn
      <3> QED
        BY <1>1, <3>2
    <2> QED
      BY <2>1, <2>2
  <1>5. ASSUME NEW i \in DOMAIN r, NEW k \in DOMAIN r, IsLid(r[i]), ~r[i].closed, k > i, IsLid(r[k])
        PROVE  \E j \in DOMAIN r : j > i /\ Closes(r[j])
    <2>1. CASE s.closed
      <3>1. n + 1 \in DOMAIN r /\ n + 1 > i /\ Closes(r[n + 1])
        BY <1>1, <1>5, <2>1 DEF Closes
      <3> QED
        BY <3>1
    <2>2. CASE actual
      <3>1. i \in DOMAIN q /\ r[i] = q[i]
        BY <1>1, <1>5
      <3>2. ~ \A j \in DOMAIN q : j > i => ~IsLid(q[j])
        BY <1>5, <2>2, <3>1 DEF InTurn
      <3>3. PICK j \in DOMAIN q : j > i /\ Closes(q[j])
        BY <1>5, <3>1, <3>2 DEF InTurn
      <3> QED
        BY <1>1, <3>3
    <2> QED
      BY <2>1, <2>2
  <1> QED
    BY <1>2, <1>3, <1>4, <1>5 DEF InTurn, r

LEMMA ReadingKeepsTurn ==
    ASSUME NEW q \in Seq(Signals), q # <<>>, NEW known, NEW actual, InTurn(q, known, actual)
    PROVE  InTurn(Tail(q), IF IsLid(q[1]) THEN q[1].closed ELSE known, actual)
  <1> DEFINE n == Len(q)
             r == Tail(q)
             next == IF IsLid(q[1]) THEN q[1].closed ELSE known
  <1>1. /\ DOMAIN q = 1 .. n /\ DOMAIN r = 1 .. n - 1 /\ n \in Nat /\ 1 \in DOMAIN q
        /\ \A i \in 1 .. n - 1 : r[i] = q[i + 1]
    BY Read
  <1>2. \A j \in DOMAIN q : j # 1 => j - 1 \in DOMAIN r /\ r[j - 1] = q[j]
    BY <1>1
  <1>3. \A j \in DOMAIN r : j + 1 \in DOMAIN q /\ j + 1 > 1 /\ r[j] = q[j + 1]
    BY <1>1
  <1> HIDE DEF r, n
  <1>4. ASSUME \A i \in DOMAIN r : ~IsLid(r[i])
        PROVE  next = actual
    <2>1. \A i \in DOMAIN q : i # 1 => ~IsLid(q[i])
      BY <1>2, <1>4
    <2>2. CASE IsLid(q[1])
      <3>1. \A j \in DOMAIN q : j > 1 => ~IsLid(q[j])
        BY <1>1, <2>1
      <3> QED
        BY <1>1, <2>2, <3>1 DEF InTurn
    <2>3. CASE ~IsLid(q[1])
      BY <2>1, <2>3 DEF InTurn
    <2> QED
      BY <2>2, <2>3
  <1>5. ASSUME NEW i \in DOMAIN r, IsLid(r[i]), \A j \in DOMAIN r : j > i => ~IsLid(r[j])
        PROVE  r[i].closed = actual
    <2>1. i + 1 \in DOMAIN q /\ IsLid(q[i + 1]) /\ r[i] = q[i + 1]
      BY <1>3, <1>5
    <2>2. ASSUME NEW j \in DOMAIN q, j > i + 1
          PROVE  ~IsLid(q[j])
      <3>1. j \in Int /\ i \in Int /\ j # 1
        BY <1>1, <2>2
      <3>2. j - 1 \in DOMAIN r /\ r[j - 1] = q[j]
        BY <1>2, <3>1
      <3>3. j - 1 > i
        BY <2>2, <3>1
      <3> QED
        BY <1>5, <3>2, <3>3
    <2> QED
      BY <2>1, <2>2 DEF InTurn
  <1>6. ASSUME ~next, NEW i \in DOMAIN r, IsLid(r[i])
        PROVE  \E j \in DOMAIN r : Closes(r[j])
    <2>1. i + 1 \in DOMAIN q /\ IsLid(q[i + 1]) /\ i + 1 > 1
      BY <1>3, <1>6
    <2>2. \E j \in DOMAIN q : j # 1 /\ Closes(q[j])
      <3>1. CASE IsLid(q[1])
        <4>1. \E j \in DOMAIN q : j > 1 /\ Closes(q[j])
          BY <1>1, <1>6, <2>1, <3>1 DEF InTurn
        <4> QED
          BY <4>1, <1>1
      <3>2. CASE ~IsLid(q[1])
        BY <1>6, <2>1, <3>2 DEF InTurn, Closes
      <3> QED
        BY <3>1, <3>2
    <2> QED
      BY <1>2, <2>2
  <1>7. ASSUME NEW i \in DOMAIN r, NEW k \in DOMAIN r, IsLid(r[i]), ~r[i].closed, k > i, IsLid(r[k])
        PROVE  \E j \in DOMAIN r : j > i /\ Closes(r[j])
    <2>1. /\ i + 1 \in DOMAIN q /\ k + 1 \in DOMAIN q /\ k + 1 > i + 1
          /\ r[i] = q[i + 1] /\ r[k] = q[k + 1]
      BY <1>1, <1>3, <1>7
    <2>2. PICK j \in DOMAIN q : j > i + 1 /\ Closes(q[j])
      BY <1>7, <2>1 DEF InTurn
    <2>3. j \in Int /\ i \in Int /\ j # 1
      BY <1>1, <2>2
    <2>4. j - 1 \in DOMAIN r /\ Closes(r[j - 1])
      BY <1>2, <2>2, <2>3
    <2> QED
      BY <2>2, <2>3, <2>4
  <1> QED
    BY <1>4, <1>5, <1>6, <1>7 DEF InTurn, r

LEMMA InitTurn == Init => LidSignalsInTurn
  <1> SUFFICES ASSUME Init PROVE LidSignalsInTurn
    OBVIOUS
  <1>1. signals = <<>> /\ isLidClosed = lidClosed
    BY DEF Init
  <1>2. \A i \in DOMAIN signals : FALSE
    BY <1>1
  <1>3. InTurn(signals, isLidClosed, lidClosed)
    BY <1>1, <1>2, Zenon DEF InTurn
  <1> QED
    BY <1>3 DEF LidSignalsInTurn

LEMMA NextKeepsTurn == TypeOK /\ LidSignalsInTurn /\ [Next]_vars => LidSignalsInTurn'
  <1> SUFFICES ASSUME TypeOK, LidSignalsInTurn, [Next]_vars PROVE LidSignalsInTurn'
    OBVIOUS
  <1> USE DEF LidSignalsInTurn
  <1>1. /\ signals \in Seq(Signals) /\ lidClosed \in BOOLEAN /\ isLidClosed \in BOOLEAN
        /\ kbdBrightness \in Values /\ oldKeyboardBrightness \in Values
        /\ lastKeyboardBrightness \in Values /\ 0 \in Values
    BY KeyboardAssumption DEF TypeOK, Values
  <1>2. \A v \in Values : Changed(v) \in Signals /\ ~IsLid(Changed(v))
    BY SignalFields DEF IsLid
  <1>3. ASSUME SomebodySets \/ FirmwareTurnsOff \/ DaemonRestores
        PROVE  LidSignalsInTurn'
    <2>1. PICK v \in Values : signals' = Append(signals, Changed(v))
      BY <1>1, <1>3 DEF SomebodySets, FirmwareTurnsOff, DaemonRestores, UPowerSets
    <2>2. UNCHANGED <<lidClosed, isLidClosed>>
      BY <1>3 DEF SomebodySets, FirmwareTurnsOff, DaemonRestores, tracked
    <2>3. InTurn(Append(signals, Changed(v)), isLidClosed, lidClosed)
      BY <1>1, <1>2, BrightnessKeepsTurn
    <2> QED
      BY <2>1, <2>2, <2>3
  <1>4. ASSUME LidMoves
        PROVE  LidSignalsInTurn'
    <2> DEFINE lid == [what |-> "LidIsClosed", closed |-> lidClosed']
               told == Append(signals, lid)
    <2>1. /\ lidClosed' \in BOOLEAN /\ lidClosed' = ~lidClosed /\ UNCHANGED isLidClosed
          /\ signals' \in {told, Append(told, Changed(0))}
      BY <1>1, <1>4 DEF LidMoves
    <2>2. lid \in Signals /\ IsLid(lid) /\ lid.closed = lidClosed'
      BY <2>1, SignalFields DEF IsLid
    <2> HIDE DEF lid
    <2>3. told \in Seq(Signals) /\ InTurn(told, isLidClosed, lid.closed)
      BY <1>1, <2>1, <2>2, Sent, LidKeepsTurn
    <2> HIDE DEF told
    <2>4. InTurn(Append(told, Changed(0)), isLidClosed, lid.closed)
      BY <1>1, <1>2, <2>3, BrightnessKeepsTurn
    <2> QED
      BY <2>1, <2>2, <2>3, <2>4
  <1>5. ASSUME ReadSignal
        PROVE  LidSignalsInTurn'
    <2> DEFINE known == IF IsLid(signals[1]) THEN signals[1].closed ELSE isLidClosed
    <2>1. signals # <<>> /\ Tail(signals) \in Seq(Signals) /\ UNCHANGED lidClosed
      BY <1>1, <1>5, Read DEF ReadSignal
    <2>2. InTurn(Tail(signals), known, lidClosed)
      BY <1>1, <2>1, ReadingKeepsTurn
    <2>3. isLidClosed' = known
      BY <1>5 DEF ReadSignal, onBrightnessChanged, onLidClosedChanged, IsLid
    <2>4. \/ signals' = Tail(signals)
          \/ signals' = Append(Tail(signals), Changed(kbdBrightness'))
      BY <1>5 DEF ReadSignal
    <2>5. kbdBrightness' \in Values
      BY <1>1, <1>5 DEF ReadSignal, onBrightnessChanged, onLidClosedChanged
    <2>6. InTurn(Append(Tail(signals), Changed(kbdBrightness')), known, lidClosed)
      <3> HIDE DEF known
      <3> QED
        BY <1>2, <2>1, <2>2, <2>5, BrightnessKeepsTurn
    <2> QED
      BY <2>1, <2>2, <2>3, <2>4, <2>6
  <1>6. NothingNew => LidSignalsInTurn'
    BY DEF NothingNew, hardware
  <1> QED
    BY <1>3, <1>4, <1>5, <1>6, StepKinds

-----------------------------------------------------------------------------
(* What is restored when the lid opens.                                    *)

\* What a new value at the end changes of what is said about the signals.
LEMMA AfterSet ==
    ASSUME TypeOK, NEW v \in Values, signals' = Append(signals, Changed(v)),
           UNCHANGED <<cachedBrightness, oldKeyboardBrightness, lastKeyboardBrightness, lidClosed>>
    PROVE  /\ (\A i \in DOMAIN signals' : ~IsLid(signals'[i]))
                  <=> \A i \in DOMAIN signals : ~IsLid(signals[i])
           /\ OldWillBeKnown => OldWillBeKnown'
           /\ LastWillBeKnown => LastWillBeKnown'
           /\ v # cachedBrightness => OldWillBeKnown' /\ LastWillBeKnown'
           /\ (\E i \in DOMAIN signals : Closes(signals[i]))
                  => \E i \in DOMAIN signals' : Closes(signals'[i])
           /\ LidFirst => LidFirst'
  <1> DEFINE n == Len(signals)
  <1>1. /\ DOMAIN signals = 1 .. n /\ DOMAIN signals' = 1 .. n + 1 /\ n \in Nat
        /\ \A i \in 1 .. n : signals'[i] = signals[i]
        /\ signals'[n + 1] = Changed(v)
    BY SignalFields, Sent DEF TypeOK
  <1>2. ~IsLid(signals'[n + 1]) /\ signals'[n + 1].value = v
    BY <1>1, SignalFields DEF IsLid
  <1>3. \A i \in DOMAIN signals : i \in DOMAIN signals' /\ signals'[i] = signals[i]
    BY <1>1
  <1>4. n + 1 \in DOMAIN signals' /\ \A i \in DOMAIN signals' : i = n + 1 \/ i \in DOMAIN signals
    BY <1>1
  <1> HIDE DEF n
  <1>5. (\A i \in DOMAIN signals' : ~IsLid(signals'[i]))
            <=> \A i \in DOMAIN signals : ~IsLid(signals[i])
    BY <1>2, <1>3, <1>4
  <1>6. /\ OldWillBeKnown => OldWillBeKnown'
        /\ LastWillBeKnown => LastWillBeKnown'
    BY <1>3 DEF OldWillBeKnown, LastWillBeKnown
  <1>7. v # cachedBrightness => OldWillBeKnown' /\ LastWillBeKnown'
    BY <1>2, <1>4 DEF OldWillBeKnown, LastWillBeKnown
  <1>8. (\E i \in DOMAIN signals : Closes(signals[i]))
            => \E i \in DOMAIN signals' : Closes(signals'[i])
    BY <1>3
  <1>9. LidFirst => LidFirst'
    <2> SUFFICES ASSUME LidFirst PROVE LidFirst'
      OBVIOUS
    <2>1. 1 \in DOMAIN signals /\ signals'[1] = signals[1] /\ signals' # <<>>
      BY <1>1 DEF LidFirst, TypeOK
    <2>2. \A i \in DOMAIN signals' : i > 1 => ~IsLid(signals'[i])
      BY <1>2, <1>3, <1>4 DEF LidFirst
    <2> QED
      BY <2>1, <2>2 DEF LidFirst
  <1> QED
    BY <1>5, <1>6, <1>7, <1>8, <1>9

LEMMA AfterSetValues ==
    ASSUME TypeOK, NEW v \in Values, signals' = Append(signals, Changed(v)),
           NEW w \in Values, v \in {0, w},
           \A i \in DOMAIN signals : ~IsLid(signals[i]) => signals[i].value \in {0, w}
    PROVE  \A i \in DOMAIN signals' : ~IsLid(signals'[i]) => signals'[i].value \in {0, w}
  <1> DEFINE n == Len(signals)
  <1>1. /\ DOMAIN signals = 1 .. n /\ DOMAIN signals' = 1 .. n + 1
        /\ \A i \in 1 .. n : signals'[i] = signals[i]
        /\ signals'[n + 1].value = v
    BY SignalFields, Sent DEF TypeOK
  <1> QED
    BY <1>1

LidIInv == TypeOK /\ LastIsActual /\ LidSignalsInTurn /\ LidInv

\* Whoever sets the brightness with the lid open, what is known then is known
\* to be tracked.
LEMMA SetWhileOpen ==
    ASSUME LidIInv, ~unheard, ~lidClosed, NEW v \in Values, UPowerSets(v),
           UNCHANGED tracked, leftAt # Untracked \/ v # kbdBrightness,
           ~isLidClosed \/ kbdBrightness # 0
    PROVE  /\ LastWillBeKnown'
           /\ (\A i \in DOMAIN signals' : ~IsLid(signals'[i])) => OldWillBeKnown'
  <1>1. /\ OldWillBeKnown => OldWillBeKnown'
        /\ LastWillBeKnown => LastWillBeKnown'
        /\ v # cachedBrightness => OldWillBeKnown' /\ LastWillBeKnown'
        /\ (\A i \in DOMAIN signals' : ~IsLid(signals'[i]))
               <=> \A i \in DOMAIN signals : ~IsLid(signals[i])
    BY AfterSet DEF LidIInv, UPowerSets, tracked, caches
  <1>2. kbdBrightness # cachedBrightness => OldWillBeKnown /\ LastWillBeKnown
    BY DEF LidIInv, LastIsActual, OldWillBeKnown, LastWillBeKnown
  <1>3. CASE leftAt = NoBrightness
    BY <1>1, <1>3 DEF LidIInv, LidInv, OpenAndChanged
  <1>4. CASE leftAt \in Values
    <2>1. kbdBrightness = leftAt /\ lastKeyboardBrightness \in {0, leftAt}
      BY <1>4 DEF LidIInv, LidInv, LeftAlone
    <2>2. LastWillBeKnown
      <3>1. CASE kbdBrightness = cachedBrightness
        BY <2>1, <3>1 DEF LastWillBeKnown
      <3> QED
        BY <1>2, <3>1
    <2>3. ASSUME \A i \in DOMAIN signals : ~IsLid(signals[i])
          PROVE  OldWillBeKnown
      <3>1. signals # <<>> => 1 \in DOMAIN signals
        BY Read DEF LidIInv, TypeOK
      <3>2. ~LidFirst
        BY <2>3, <3>1 DEF LidFirst
      <3> QED
        BY <1>4, <3>2 DEF LidIInv, LidInv, LeftAlone
    <2> QED
      BY <1>1, <2>2, <2>3
  <1>5. CASE leftAt = Untracked
    BY <1>1, <1>2, <1>5
  <1> QED
    BY <1>3, <1>4, <1>5 DEF LidIInv, TypeOK

LEMMA SomebodySetsKeepsLidInv ==
    ASSUME LidIInv, SomebodySets
    PROVE  LidInv'
  <1>1. PICK v \in Values : UPowerSets(v) /\ Chosen(v)
    BY DEF SomebodySets
  <1>3. leftAt' \notin Values
    BY <1>1, KeyboardAssumption DEF Chosen, Values, NoBrightness, Untracked
  <1>4. CASE leftAt' = Untracked
    <2>1. leftAt' # NoBrightness
      BY <1>4, KeyboardAssumption DEF NoBrightness, Untracked
    <2> QED
      BY <1>3, <2>1 DEF LidInv, OpenAndChanged, LeftAlone
  <1>5. CASE ~lidClosed /\ ~isLidClosed /\ (leftAt # Untracked \/ v # kbdBrightness)
    <2>1. ~unheard' =>
              /\ LastWillBeKnown'
              /\ (\A i \in DOMAIN signals' : ~IsLid(signals'[i])) => OldWillBeKnown'
      BY <1>1, <1>5, SetWhileOpen DEF SomebodySets, tracked
    <2>2. (\E i \in DOMAIN signals' : IsLid(signals'[i]))
              => \E i \in DOMAIN signals' : Closes(signals'[i])
      BY <1>1, <1>5, AfterSet
         DEF LidIInv, LidSignalsInTurn, InTurn, UPowerSets, SomebodySets, tracked, caches
    <2>3. ~lidClosed'
      BY <1>5 DEF SomebodySets, tracked
    <2> QED
      BY <1>3, <2>1, <2>2, <2>3 DEF LidInv, OpenAndChanged, LeftAlone
  <1> QED
    BY <1>1, <1>4, <1>5 DEF Chosen

LEMMA FirmwareTurnsOffKeepsLidInv ==
    ASSUME LidIInv, FirmwareTurnsOff
    PROVE  LidInv'
  <1>1. /\ 0 \in Values /\ kbdBrightness' = 0 /\ signals' = Append(signals, Changed(0))
        /\ UNCHANGED <<caches, cachedBrightness, lastKeyboardBrightness, oldKeyboardBrightness,
                       lidClosed, isLidClosed, unheard>>
    BY KeyboardAssumption DEF FirmwareTurnsOff, UPowerSets, tracked, caches, Values
  <1>3. CASE lidClosed
    <2>1. leftAt' = leftAt /\ leftAt # NoBrightness
      BY <1>3 DEF FirmwareTurnsOff, LidIInv, LidInv, OpenAndChanged
    <2>2. ASSUME leftAt \in Values
          PROVE  LeftAlone'
      <3>1. /\ lastKeyboardBrightness \in {0, leftAt} /\ oldKeyboardBrightness = leftAt
            /\ \A i \in DOMAIN signals : ~IsLid(signals[i]) => signals[i].value \in {0, leftAt}
            /\ isLidClosed => \A i \in DOMAIN signals : ~IsLid(signals[i])
            /\ ~isLidClosed => LidFirst
        BY <1>3, <2>2 DEF LidIInv, LidInv, LeftAlone
      <3>2. \A i \in DOMAIN signals' : ~IsLid(signals'[i]) => signals'[i].value \in {0, leftAt}
        <4>1. /\ 0 \in {0, leftAt} /\ TypeOK
              /\ 0 \in Values /\ signals' = Append(signals, Changed(0))
          BY <1>1 DEF LidIInv
        <4>2. \A i \in DOMAIN signals : ~IsLid(signals[i]) => signals[i].value \in {0, leftAt}
          BY <3>1
        <4> QED
          BY <2>2, <4>1, <4>2, AfterSetValues
      <3>3. /\ isLidClosed => \A i \in DOMAIN signals' : ~IsLid(signals'[i])
            /\ ~isLidClosed => LidFirst'
        BY <1>1, <3>1, AfterSet DEF LidIInv
      <3> QED
        BY <1>1, <1>3, <2>1, <3>1, <3>2, <3>3 DEF LeftAlone
    <2> QED
      BY <2>1, <2>2 DEF LidInv, OpenAndChanged, LeftAlone
  <1>4. CASE ~lidClosed
    <2>1. leftAt' = NoBrightness /\ leftAt' \notin Values
      BY <1>4, KeyboardAssumption DEF FirmwareTurnsOff, Values, NoBrightness
    <2>2. kbdBrightness # 0
      BY DEF FirmwareTurnsOff
    <2>3. ~unheard' =>
              /\ LastWillBeKnown'
              /\ (\A i \in DOMAIN signals' : ~IsLid(signals'[i])) => OldWillBeKnown'
      BY <1>1, <1>4, <2>2, SetWhileOpen DEF FirmwareTurnsOff
    <2>4. \E i \in DOMAIN signals' : /\ ~IsLid(signals'[i]) /\ signals'[i].value = 0
                                     /\ \A j \in DOMAIN signals' : IsLid(signals'[j]) => j < i
      <3> DEFINE n == Len(signals) + 1
      <3>1. DOMAIN signals' = 1 .. n /\ signals'[n] = Changed(0) /\ n \in 1 .. n
        BY <1>1, SignalFields, Sent DEF LidIInv, TypeOK
      <3>2. ~IsLid(signals'[n]) /\ signals'[n].value = 0
        BY <1>1, <3>1, SignalFields DEF IsLid
      <3>3. \A j \in DOMAIN signals' : IsLid(signals'[j]) => j < n
        BY <3>1, <3>2
      <3> QED
        BY <3>1, <3>2, <3>3
    <2> QED
      BY <1>1, <1>4, <2>1, <2>3, <2>4 DEF LidInv, OpenAndChanged, LeftAlone
  <1> QED
    BY <1>3, <1>4

LEMMA DaemonRestoresKeepsLidInv ==
    ASSUME LidIInv, DaemonRestores
    PROVE  LidInv'
  <1> DEFINE last == lastKeyboardBrightness
  <1>1. /\ last \in Values /\ last # 0 /\ kbdBrightness' = last /\ leftAt' = leftAt
        /\ signals' = Append(signals, Changed(last))
        /\ UNCHANGED <<cachedBrightness, lastKeyboardBrightness, oldKeyboardBrightness,
                       lidClosed, isLidClosed, unheard>>
    BY DEF DaemonRestores, UPowerSets, tracked, caches, LidIInv, TypeOK
  <1>3. ASSUME leftAt = NoBrightness
        PROVE  OpenAndChanged'
    <2>1. /\ ~lidClosed
          /\ ~unheard => LastWillBeKnown
          /\ ~unheard /\ (\A i \in DOMAIN signals : ~IsLid(signals[i])) => OldWillBeKnown
          /\ (\E i \in DOMAIN signals : IsLid(signals[i])) =>
                 \/ \E i \in DOMAIN signals : Closes(signals[i])
                 \/ \E i \in DOMAIN signals :
                        /\ ~IsLid(signals[i]) /\ signals[i].value = 0
                        /\ \A j \in DOMAIN signals : IsLid(signals[j]) => j < i
      BY <1>3 DEF LidIInv, LidInv, OpenAndChanged
    <2>2. ~unheard' =>
              /\ LastWillBeKnown'
              /\ (\A i \in DOMAIN signals' : ~IsLid(signals'[i])) => OldWillBeKnown'
      BY <1>1, <2>1, AfterSet DEF LidIInv
    <2>3. ASSUME NEW i \in DOMAIN signals, ~IsLid(signals[i]), signals[i].value = 0,
                 \A j \in DOMAIN signals : IsLid(signals[j]) => j < i
          PROVE  \E k \in DOMAIN signals' :
                     /\ ~IsLid(signals'[k]) /\ signals'[k].value = 0
                     /\ \A j \in DOMAIN signals' : IsLid(signals'[j]) => j < k
      <3> DEFINE n == Len(signals)
      <3>1. /\ DOMAIN signals = 1 .. n /\ DOMAIN signals' = 1 .. n + 1
            /\ \A j \in 1 .. n : signals'[j] = signals[j]
            /\ ~IsLid(signals'[n + 1])
        BY <1>1, SignalFields, Sent DEF LidIInv, TypeOK, IsLid
      <3>2. i \in DOMAIN signals' /\ signals'[i] = signals[i]
        BY <3>1
      <3>3. \A j \in DOMAIN signals' : IsLid(signals'[j]) => j < i
        BY <2>3, <3>1
      <3> QED
        BY <2>3, <3>2, <3>3
    <2>4. (\E i \in DOMAIN signals : Closes(signals[i]))
              => \E i \in DOMAIN signals' : Closes(signals'[i])
      BY <1>1, AfterSet DEF LidIInv
    <2>5. (\E i \in DOMAIN signals' : IsLid(signals'[i])) => \E i \in DOMAIN signals : IsLid(signals[i])
      BY <1>1, AfterSet DEF LidIInv
    <2> QED
      BY <1>1, <2>1, <2>2, <2>3, <2>4, <2>5 DEF OpenAndChanged
  <1>4. ASSUME leftAt \in Values
        PROVE  LeftAlone'
    <2>1. LeftAlone
      BY DEF LidIInv, LidInv
    <2>2. last = leftAt
      BY <1>1, <1>4, <2>1 DEF LeftAlone
    <2>3. \A i \in DOMAIN signals' : ~IsLid(signals'[i]) => signals'[i].value \in {0, leftAt}
      <3>1. \A i \in DOMAIN signals : ~IsLid(signals[i]) => signals[i].value \in {0, leftAt}
        BY <1>4, <2>1 DEF LeftAlone
      <3>2. leftAt \in Values /\ signals' = Append(signals, Changed(leftAt)) /\ TypeOK
        BY <1>1, <1>4, <2>2 DEF LidIInv
      <3> QED
        BY <3>1, <3>2, AfterSetValues
    <2>4. /\ LidFirst => LidFirst'
          /\ OldWillBeKnown => OldWillBeKnown'
          /\ (\A i \in DOMAIN signals : ~IsLid(signals[i]))
                 => \A i \in DOMAIN signals' : ~IsLid(signals'[i])
      BY <1>1, AfterSet DEF LidIInv
    <2> QED
      BY <1>1, <1>4, <2>1, <2>2, <2>3, <2>4 DEF LeftAlone
  <1> QED
    BY <1>1, <1>3, <1>4 DEF LidInv, OpenAndChanged, LeftAlone

LEMMA LidMovesKeepsLidInv ==
    ASSUME LidIInv, LidMoves
    PROVE  LidInv'
  <1>1. /\ UNCHANGED <<cachedBrightness, lastKeyboardBrightness, oldKeyboardBrightness, isLidClosed,
                       unheard>>
        /\ lidClosed' = ~lidClosed /\ lidClosed' \in BOOLEAN
    BY DEF LidMoves, caches, LidIInv, TypeOK
  <1>3. CASE leftAt' = Untracked
    <2>1. leftAt' # NoBrightness /\ leftAt' \notin Values
      BY <1>3, KeyboardAssumption DEF NoBrightness, Untracked, Values
    <2> QED
      BY <2>1 DEF LidInv, OpenAndChanged, LeftAlone
  <1>4. CASE signals = <<>>
    <2>1. cachedBrightness = kbdBrightness
      BY <1>4 DEF LidIInv, LastIsActual
    <2>2. isLidClosed = lidClosed
      BY <1>4 DEF LidIInv, LidSignalsInTurn, InTurn
    <2>3. /\ ~LidFirst
          /\ OldWillBeKnown => oldKeyboardBrightness = cachedBrightness
          /\ LastWillBeKnown => lastKeyboardBrightness \in {0, cachedBrightness}
      BY <1>4 DEF LidFirst, OldWillBeKnown, LastWillBeKnown
    <2>4. kbdBrightness \in Values /\ NoBrightness \notin Values
      BY KeyboardAssumption DEF LidIInv, TypeOK, NoBrightness, Values
    <2> DEFINE lid == [what |-> "LidIsClosed", closed |-> lidClosed']
    <2>5. /\ LidFirst'
          /\ \/ signals' = <<lid>> /\ kbdBrightness' = kbdBrightness
             \/ signals' = <<lid, Changed(0)>> /\ kbdBrightness' = 0 /\ lidClosed'
      <3>1. \/ signals' = <<lid>> /\ kbdBrightness' = kbdBrightness
            \/ signals' = <<lid, Changed(0)>> /\ kbdBrightness' = 0 /\ lidClosed'
        BY <1>4 DEF LidMoves
      <3> QED
        BY <3>1 DEF LidFirst, IsLid, Changed
    <2>6. \A w : \A i \in DOMAIN signals' : ~IsLid(signals'[i]) => signals'[i].value \in {0, w}
      BY <2>5 DEF IsLid, Changed
    <2> HIDE DEF lid
    <2>7. CASE lidClosed'
      <3>0. CASE unheard
        <4>1. leftAt' = Untracked
          BY <2>7, <3>0 DEF LidMoves
        <4> QED
          BY <1>3, <4>1
      <3>1. CASE leftAt = NoBrightness /\ ~unheard
        <4>1. leftAt' = kbdBrightness \/ leftAt' = Untracked
          BY <2>7, <3>1 DEF LidMoves
        <4>2. /\ oldKeyboardBrightness = cachedBrightness
              /\ lastKeyboardBrightness \in {0, cachedBrightness}
          BY <1>4, <2>3, <3>1 DEF LidIInv, LidInv, OpenAndChanged
        <4> QED
          BY <1>1, <1>3, <2>1, <2>2, <2>4, <2>5, <2>6, <2>7, <4>1, <4>2
             DEF LidInv, OpenAndChanged, LeftAlone
      <3>2. CASE leftAt \in Values /\ ~unheard
        <4>1. leftAt' = leftAt \/ leftAt' = Untracked
          BY <2>4, <3>2 DEF LidMoves
        <4>2. /\ kbdBrightness = leftAt /\ oldKeyboardBrightness = leftAt
              /\ lastKeyboardBrightness \in {0, leftAt}
          BY <1>1, <2>1, <2>2, <2>3, <2>7, <3>2 DEF LidIInv, LidInv, LeftAlone
        <4> QED
          BY <1>1, <1>3, <2>1, <2>2, <2>4, <2>5, <2>6, <2>7, <4>1, <4>2
             DEF LidInv, OpenAndChanged, LeftAlone
      <3>3. CASE leftAt = Untracked
        <4>0. Untracked # NoBrightness
          BY KeyboardAssumption DEF NoBrightness, Untracked
        <4>1. leftAt' = Untracked
          BY <3>3, <4>0 DEF LidMoves
        <4> QED
          BY <1>3, <4>1
      <3> QED
        BY <3>0, <3>1, <3>2, <3>3 DEF LidIInv, TypeOK
    <2>8. CASE ~lidClosed'
      <3>1. leftAt # NoBrightness /\ leftAt' \in {leftAt, Untracked}
        BY <1>1, <2>8 DEF LidMoves, LidIInv, LidInv, OpenAndChanged
      <3>2. CASE leftAt' \in Values
        <4>1. leftAt' = leftAt /\ leftAt \in Values
          BY <3>1, <3>2, KeyboardAssumption DEF Untracked, Values
        <4>2. oldKeyboardBrightness = leftAt /\ kbdBrightness \in {0, leftAt}
          BY <1>1, <2>2, <2>8, <4>1 DEF LidIInv, LidInv, LeftAlone
        <4>3. lastKeyboardBrightness \in {0, leftAt}
          BY <4>1 DEF LidIInv, LidInv, LeftAlone
        <4> QED
          BY <1>1, <2>2, <2>4, <2>5, <2>6, <2>8, <4>1, <4>2, <4>3
             DEF LidInv, OpenAndChanged, LeftAlone
      <3>3. CASE leftAt' \notin Values
        <4>1. leftAt' = Untracked
          BY <3>1, <3>3 DEF LidIInv, TypeOK
        <4> QED
          BY <1>3, <4>1
      <3> QED
        BY <3>2, <3>3
    <2> QED
      BY <2>7, <2>8
  <1> QED
    BY <1>3, <1>4 DEF LidMoves

\* The first signal is read, the others move up.
LEMMA MovedUp ==
    ASSUME TypeOK, signals # <<>>, signals' = Tail(signals)
    PROVE  /\ 1 \in DOMAIN signals
           /\ \A i \in DOMAIN signals :
                  i # 1 => i > 1 /\ i - 1 \in DOMAIN signals' /\ signals'[i - 1] = signals[i]
           /\ \A i \in DOMAIN signals' :
                  i + 1 \in DOMAIN signals /\ i + 1 > 1 /\ signals'[i] = signals[i + 1]
  <1> DEFINE n == Len(signals)
  <1>1. /\ DOMAIN signals = 1 .. n /\ DOMAIN signals' = 1 .. n - 1 /\ n \in Nat
        /\ \A i \in 1 .. n - 1 : signals'[i] = signals[i + 1]
        /\ 1 \in 1 .. n
    BY Read DEF TypeOK
  <1> QED
    BY <1>1

LEMMA BrightnessReadKeepsLidInv ==
    ASSUME LidIInv, ReadSignal, ~IsLid(signals[1])
    PROVE  LidInv'
  <1> DEFINE v == signals[1].value
  <1>1. /\ signals # <<>> /\ signals' = Tail(signals) /\ v \in Values
        /\ onBrightnessChanged(v)
        /\ UNCHANGED <<lidClosed, isLidClosed, leftAt, kbdBrightness>>
    <2>1. signals # <<>> /\ signals[1].what # "LidIsClosed"
      BY DEF ReadSignal, IsLid
    <2>2. signals[1] \in Signals
      BY <2>1, Read DEF LidIInv, TypeOK
    <2> QED
      BY <2>1, <2>2, SignalFields DEF ReadSignal, onBrightnessChanged
  <1>2. \/ v = cachedBrightness /\ UNCHANGED <<caches, unheard>>
        \/ /\ v # cachedBrightness /\ cachedBrightness' = v /\ lastKeyboardBrightness' = v
           /\ oldKeyboardBrightness' = (IF isLidClosed THEN oldKeyboardBrightness ELSE v)
           /\ unheard' = (unheard /\ isLidClosed)
    <2>1. CASE v = cachedBrightness
      BY <1>1, <2>1 DEF onBrightnessChanged
    <2>2. CASE v # cachedBrightness
      BY <1>1, <2>2 DEF onBrightnessChanged, Remembered, OldBrightness
    <2> QED
      BY <2>1, <2>2
  <1>3. v # cachedBrightness => LastWillBeKnown' /\ (~isLidClosed => OldWillBeKnown')
    BY <1>2 DEF LastWillBeKnown, OldWillBeKnown
  <1>4. /\ 1 \in DOMAIN signals
        /\ \A i \in DOMAIN signals :
               i # 1 => i > 1 /\ i - 1 \in DOMAIN signals' /\ signals'[i - 1] = signals[i]
        /\ \A i \in DOMAIN signals' :
               i + 1 \in DOMAIN signals /\ i + 1 > 1 /\ signals'[i] = signals[i + 1]
    BY <1>1, MovedUp DEF LidIInv
  <1>5. (\A i \in DOMAIN signals' : ~IsLid(signals'[i]))
            => \A i \in DOMAIN signals : ~IsLid(signals[i])
    BY <1>4
  <1>6. ASSUME v = cachedBrightness
        PROVE  /\ unheard' = unheard
               /\ LastWillBeKnown => LastWillBeKnown'
               /\ OldWillBeKnown => OldWillBeKnown'
    <2>1. /\ UNCHANGED <<cachedBrightness, oldKeyboardBrightness, lastKeyboardBrightness>>
          /\ unheard' = unheard
      BY <1>2, <1>6 DEF caches
    <2>2. ASSUME NEW i \in DOMAIN signals, ~IsLid(signals[i]), signals[i].value # cachedBrightness
          PROVE  \E j \in DOMAIN signals' : ~IsLid(signals'[j]) /\ signals'[j].value # cachedBrightness
      <3>1. i - 1 \in DOMAIN signals' /\ signals'[i - 1] = signals[i]
        BY <1>4, <1>6, <2>2
      <3> QED
        BY <2>2, <3>1
    <2> QED
      BY <2>1, <2>2 DEF OldWillBeKnown, LastWillBeKnown
  <1>7. ASSUME leftAt = NoBrightness
        PROVE  OpenAndChanged'
    <2>1. OpenAndChanged /\ ~lidClosed
      BY <1>7 DEF LidIInv, LidInv, OpenAndChanged
    <2>2. ASSUME ~unheard', \A i \in DOMAIN signals' : ~IsLid(signals'[i])
          PROVE  OldWillBeKnown'
      <3>1. ~isLidClosed
        BY <1>5, <2>1, <2>2 DEF LidIInv, LidSignalsInTurn, InTurn
      <3> QED
        BY <1>3, <1>5, <1>6, <1>7, <2>1, <2>2, <3>1 DEF OpenAndChanged
    <2>4. ~unheard' => LastWillBeKnown'
      BY <1>3, <1>6, <1>7, <2>1 DEF OpenAndChanged
    <2>3. ASSUME \E i \in DOMAIN signals' : IsLid(signals'[i])
          PROVE  \/ \E i \in DOMAIN signals' : Closes(signals'[i])
                 \/ \E i \in DOMAIN signals' :
                        /\ ~IsLid(signals'[i]) /\ signals'[i].value = 0
                        /\ \A j \in DOMAIN signals' : IsLid(signals'[j]) => j < i
      <3>1. PICK k \in DOMAIN signals : IsLid(signals[k]) /\ k > 1
        BY <1>4, <2>3
      <3>2. CASE \E i \in DOMAIN signals : Closes(signals[i])
        <4>1. PICK i \in DOMAIN signals : Closes(signals[i])
          BY <3>2
        <4>2. i - 1 \in DOMAIN signals' /\ signals'[i - 1] = signals[i]
          BY <1>4, <4>1 DEF Closes
        <4> QED
          BY <4>1, <4>2
      <3>3. ASSUME NEW i \in DOMAIN signals, ~IsLid(signals[i]), signals[i].value = 0,
                   \A j \in DOMAIN signals : IsLid(signals[j]) => j < i
            PROVE  \E m \in DOMAIN signals' :
                        /\ ~IsLid(signals'[m]) /\ signals'[m].value = 0
                        /\ \A j \in DOMAIN signals' : IsLid(signals'[j]) => j < m
        <4>1. k < i
          BY <3>1, <3>3
        <4>2. DOMAIN signals \subseteq Int /\ DOMAIN signals' \subseteq Int
          BY <1>1, Read DEF LidIInv, TypeOK
        <4>3. i - 1 \in DOMAIN signals' /\ signals'[i - 1] = signals[i]
          BY <1>4, <3>1, <4>1, <4>2
        <4>4. \A j \in DOMAIN signals' : IsLid(signals'[j]) => j < i - 1
          BY <1>4, <3>3, <4>2
        <4> QED
          BY <3>3, <4>3, <4>4
      <3> QED
        BY <1>7, <2>1, <3>1, <3>2, <3>3 DEF OpenAndChanged
    <2> QED
      BY <1>1, <2>1, <2>2, <2>3, <2>4 DEF OpenAndChanged
  <1>8. ASSUME leftAt \in Values
        PROVE  LeftAlone'
    <2>1. LeftAlone /\ ~LidFirst
      BY DEF LidIInv, LidInv, LidFirst
    <2>2. /\ v \in {0, leftAt}
          /\ \A i \in DOMAIN signals' : ~IsLid(signals'[i]) => signals'[i].value \in {0, leftAt}
      BY <1>4, <1>8, <2>1 DEF LeftAlone
    <2>3. lastKeyboardBrightness' \in {0, leftAt}
      BY <1>2, <1>8, <2>1, <2>2 DEF LeftAlone, caches
    <2>4. CASE lidClosed /\ isLidClosed
      <3>1. UNCHANGED oldKeyboardBrightness
        BY <1>2, <2>4 DEF caches
      <3>2. \A i \in DOMAIN signals' : ~IsLid(signals'[i])
        BY <1>4, <1>8, <2>1, <2>4 DEF LeftAlone
      <3> QED
        BY <1>1, <1>8, <2>1, <2>2, <2>3, <2>4, <3>1, <3>2 DEF LeftAlone
    <2>5. CASE ~lidClosed /\ ~isLidClosed
      <3>1. (~unheard' => OldWillBeKnown') /\ kbdBrightness = leftAt
        BY <1>3, <1>6, <1>8, <2>1, <2>5 DEF LeftAlone
      <3>2. \A i \in DOMAIN signals' : ~IsLid(signals'[i])
        BY <1>4, <1>8, <2>1, <2>5 DEF LeftAlone
      <3> QED
        BY <1>1, <1>8, <2>2, <2>3, <2>5, <3>1, <3>2 DEF LeftAlone
    <2> QED
      BY <1>8, <2>1, <2>4, <2>5 DEF LeftAlone
  <1> QED
    BY <1>1, <1>7, <1>8 DEF LidInv, OpenAndChanged, LeftAlone

\* A movement of the lid is read: the brightness is turned off or restored, and
\* that is announced, unless there is nothing to restore.
LEMMA LidIsRead ==
    ASSUME LidIInv, ReadSignal, IsLid(signals[1])
    PROVE  /\ signals # <<>> /\ 1 \in DOMAIN signals
           /\ isLidClosed' = signals[1].closed /\ signals[1].closed \in BOOLEAN
           /\ UNCHANGED <<lidClosed, leftAt, lastKeyboardBrightness, oldKeyboardBrightness,
                          cachedBrightness, unheard>>
           /\ DOMAIN signals \subseteq Int /\ DOMAIN signals' \subseteq Int
           /\ \A i \in DOMAIN signals :
                  i # 1 => i > 1 /\ i - 1 \in DOMAIN signals' /\ signals'[i - 1] = signals[i]
           /\ IF signals[1].closed \/ oldKeyboardBrightness > 0
              THEN /\ kbdBrightness' = IF signals[1].closed THEN 0 ELSE oldKeyboardBrightness
                   /\ Len(signals) \in DOMAIN signals'
                   /\ ~IsLid(signals'[Len(signals)])
                   /\ signals'[Len(signals)].value = kbdBrightness'
                   /\ \A i \in DOMAIN signals' :
                          \/ i = Len(signals)
                          \/ /\ i < Len(signals) /\ i + 1 \in DOMAIN signals
                             /\ i + 1 > 1 /\ signals'[i] = signals[i + 1]
              ELSE /\ kbdBrightness' = kbdBrightness
                   /\ \A i \in DOMAIN signals' :
                          i + 1 \in DOMAIN signals /\ i + 1 > 1 /\ signals'[i] = signals[i + 1]
  <1> DEFINE n == Len(signals)
             on == signals[1].closed \/ oldKeyboardBrightness > 0
  <1>1. signals # <<>> /\ signals \in Seq(Signals) /\ signals[1].what = "LidIsClosed"
    BY DEF ReadSignal, LidIInv, TypeOK, IsLid
  <1>2. /\ onLidClosedChanged(signals[1].closed)
        /\ signals' = IF on THEN Append(Tail(signals), Changed(kbdBrightness')) ELSE Tail(signals)
        /\ UNCHANGED <<lidClosed, leftAt>>
    BY <1>1 DEF ReadSignal
  <1>3. signals[1].closed \in BOOLEAN
    <2>1. signals[1] \in Signals
      BY <1>1, Read
    <2> QED
      BY <1>1, <2>1, SignalFields
  <1>4. /\ isLidClosed' = signals[1].closed
        /\ kbdBrightness' = IF signals[1].closed THEN 0
                            ELSE IF oldKeyboardBrightness > 0 THEN oldKeyboardBrightness
                            ELSE kbdBrightness
        /\ UNCHANGED <<lastKeyboardBrightness, oldKeyboardBrightness, cachedBrightness, unheard>>
    BY <1>2, <1>3 DEF onLidClosedChanged, Cached
  <1>5. kbdBrightness' \in Values
    BY <1>4, KeyboardAssumption DEF LidIInv, TypeOK, Values
  <1>6. /\ DOMAIN signals = 1 .. n /\ n \in Nat /\ 1 \in DOMAIN signals
        /\ Tail(signals) \in Seq(Signals) /\ Len(Tail(signals)) = n - 1
        /\ DOMAIN Tail(signals) = 1 .. n - 1
        /\ \A i \in 1 .. n - 1 : Tail(signals)[i] = signals[i + 1]
    BY <1>1, Read
  <1>7. CASE on
    <2>1. /\ DOMAIN signals' = 1 .. n
          /\ \A i \in 1 .. n - 1 : signals'[i] = signals[i + 1]
          /\ signals'[n] = Changed(kbdBrightness')
      <3>1. Changed(kbdBrightness') \in Signals
        BY <1>5, SignalFields
      <3>2. signals' = Append(Tail(signals), Changed(kbdBrightness'))
        BY <1>2, <1>7
      <3> QED
        BY <1>6, <3>1, <3>2, Sent
    <2>2. ~IsLid(signals'[n]) /\ signals'[n].value = kbdBrightness'
      BY <1>5, <2>1, SignalFields DEF IsLid
    <2> QED
      BY <1>1, <1>2, <1>3, <1>4, <1>6, <1>7, <2>1, <2>2
  <1>8. CASE ~on
    <2>1. /\ DOMAIN signals' = 1 .. n - 1
          /\ \A i \in 1 .. n - 1 : signals'[i] = signals[i + 1]
      BY <1>2, <1>6, <1>8
    <2> QED
      BY <1>1, <1>2, <1>3, <1>4, <1>6, <1>8, <2>1
  <1> QED
    BY <1>7, <1>8

LEMMA LidReadKeepsOpenAndChanged ==
    ASSUME LidIInv, leftAt = NoBrightness, ReadSignal, IsLid(signals[1])
    PROVE  OpenAndChanged'
  <1> DEFINE n == Len(signals)
             closed == signals[1].closed
  <1>0. lidClosed' = FALSE /\ OpenAndChanged /\ LidSignalsInTurn /\ ~lidClosed
    BY LidIsRead DEF LidIInv, LidInv, OpenAndChanged, TypeOK
  <1>1. \/ \E i \in DOMAIN signals : Closes(signals[i])
        \/ \E i \in DOMAIN signals : /\ ~IsLid(signals[i]) /\ signals[i].value = 0
                                     /\ \A j \in DOMAIN signals : IsLid(signals[j]) => j < i
    BY <1>0, LidIsRead DEF OpenAndChanged
  <1>2. ASSUME \A i \in DOMAIN signals' : ~IsLid(signals'[i])
        PROVE  OldWillBeKnown'
    <2>1. \A i \in DOMAIN signals : i # 1 => ~IsLid(signals[i])
      BY <1>2, LidIsRead
    <2>2. ~closed
      BY <1>0, <2>1, LidIsRead DEF LidSignalsInTurn, InTurn
    <2>3. PICK i \in DOMAIN signals : ~IsLid(signals[i]) /\ signals[i].value = 0
      BY <1>1, <2>1, <2>2 DEF Closes
    <2>4. i - 1 \in DOMAIN signals' /\ signals'[i - 1] = signals[i]
      BY <2>3, LidIsRead
    <2>5. UNCHANGED <<oldKeyboardBrightness, cachedBrightness>>
      BY LidIsRead
    <2>6. CASE cachedBrightness # 0
      BY <2>3, <2>4, <2>5, <2>6 DEF OldWillBeKnown
    <2>7. CASE cachedBrightness = 0
      <3>1. CASE oldKeyboardBrightness = 0
        BY <2>5, <2>7, <3>1 DEF OldWillBeKnown
      <3>2. CASE oldKeyboardBrightness > 0
        <4>1. /\ n \in DOMAIN signals' /\ ~IsLid(signals'[n])
              /\ signals'[n].value = oldKeyboardBrightness
          BY <2>2, <3>2, LidIsRead
        <4>2. oldKeyboardBrightness # 0
          BY <3>2
        <4> HIDE DEF n
        <4> QED
          BY <2>5, <2>7, <4>1, <4>2 DEF OldWillBeKnown
      <3> QED
        BY <3>1, <3>2 DEF LidIInv, TypeOK, Values
    <2> QED
      BY <2>6, <2>7
  <1>3. ASSUME NEW k \in DOMAIN signals', IsLid(signals'[k])
        PROVE  \/ \E i \in DOMAIN signals' : Closes(signals'[i])
               \/ \E i \in DOMAIN signals' :
                      /\ ~IsLid(signals'[i]) /\ signals'[i].value = 0
                      /\ \A j \in DOMAIN signals' : IsLid(signals'[j]) => j < i
    <2>1. k + 1 \in DOMAIN signals /\ k + 1 > 1 /\ IsLid(signals[k + 1])
      BY <1>3, LidIsRead
    <2>2. CASE closed
      <3>1. /\ n \in DOMAIN signals' /\ ~IsLid(signals'[n]) /\ signals'[n].value = 0
            /\ \A j \in DOMAIN signals' : IsLid(signals'[j]) => j < n
        BY <2>2, LidIsRead
      <3> HIDE DEF n
      <3> QED
        BY <3>1
    <2>3. ASSUME ~closed, NEW i \in DOMAIN signals, Closes(signals[i])
          PROVE  \E m \in DOMAIN signals' : Closes(signals'[m])
      <3>1. i # 1
        BY <2>3 DEF Closes
      <3> QED
        BY <2>3, <3>1, LidIsRead
    <2>4. ASSUME NEW i \in DOMAIN signals, ~IsLid(signals[i]), signals[i].value = 0,
                 \A j \in DOMAIN signals : IsLid(signals[j]) => j < i
          PROVE  \E m \in DOMAIN signals' :
                     /\ ~IsLid(signals'[m]) /\ signals'[m].value = 0
                     /\ \A j \in DOMAIN signals' : IsLid(signals'[j]) => j < m
      <3>1. i \in Int /\ i # 1
        BY <2>4, LidIsRead
      <3>2. i - 1 \in DOMAIN signals' /\ signals'[i - 1] = signals[i]
        BY <3>1, LidIsRead
      <3>3. \A j \in DOMAIN signals' : IsLid(signals'[j]) =>
                j \in Int /\ j + 1 \in DOMAIN signals /\ signals'[j] = signals[j + 1]
        BY LidIsRead
      <3>4. \A j \in DOMAIN signals' : IsLid(signals'[j]) => j < i - 1
        BY <2>4, <3>1, <3>3
      <3> QED
        BY <2>4, <3>2, <3>4
    <2> QED
      BY <1>1, <2>2, <2>3, <2>4
  <1>4. ~unheard' => LastWillBeKnown'
    <2>1. /\ UNCHANGED <<cachedBrightness, lastKeyboardBrightness, unheard>>
          /\ \A i \in DOMAIN signals : ~IsLid(signals[i]) =>
                 i - 1 \in DOMAIN signals' /\ signals'[i - 1] = signals[i]
      BY LidIsRead
    <2>2. LastWillBeKnown => LastWillBeKnown'
      BY <2>1 DEF LastWillBeKnown
    <2> QED
      BY <1>0, <2>1, <2>2 DEF OpenAndChanged
  <1> QED
    BY <1>0, <1>2, <1>3, <1>4 DEF OpenAndChanged

LEMMA LidReadKeepsLeftAlone ==
    ASSUME LidIInv, leftAt \in Values, ReadSignal, IsLid(signals[1])
    PROVE  LeftAlone'
  <1> DEFINE n == Len(signals)
             closed == signals[1].closed
  <1>1. LeftAlone /\ 1 \in DOMAIN signals
    BY LidIsRead DEF LidIInv, LidInv
  <1>2. /\ LidFirst /\ oldKeyboardBrightness = leftAt
        /\ \/ lidClosed /\ ~isLidClosed
           \/ ~lidClosed /\ isLidClosed
    BY <1>1 DEF LeftAlone
  <1>3. \A i \in DOMAIN signals : i # 1 => ~IsLid(signals[i])
    BY <1>2, LidIsRead DEF LidFirst
  <1>4. \A i \in DOMAIN signals' : ~IsLid(signals'[i])
    BY <1>3, LidIsRead
  <1>5. closed = lidClosed /\ isLidClosed' = closed
    BY <1>2, LidIsRead DEF LidFirst
  <1>6. \A i \in DOMAIN signals : ~IsLid(signals[i]) => signals[i].value \in {0, leftAt}
    BY <1>1 DEF LeftAlone
  <1>7. lastKeyboardBrightness \in {0, leftAt} /\ kbdBrightness \in {0, leftAt}
    BY <1>1 DEF LeftAlone
  <1>8. UNCHANGED <<lidClosed, leftAt, lastKeyboardBrightness, oldKeyboardBrightness,
                    cachedBrightness>>
    BY LidIsRead
  <1>9. kbdBrightness' = IF closed THEN 0 ELSE leftAt
    BY <1>2, <1>7, LidIsRead DEF Values
  <1>10. \A i \in DOMAIN signals' : signals'[i].value \in {0, leftAt}
    BY <1>3, <1>6, <1>9, LidIsRead
  <1>11. CASE closed
    <2>1. lidClosed' /\ isLidClosed'
      BY <1>5, <1>8, <1>11
    <2> QED
      BY <1>2, <1>4, <1>7, <1>8, <1>9, <1>10, <1>11, <2>1 DEF LeftAlone
  <1>12. CASE ~closed
    <2>1. ~lidClosed' /\ ~isLidClosed'
      BY <1>5, <1>8, <1>12
    <2>2. OldWillBeKnown'
      <3>1. CASE oldKeyboardBrightness = cachedBrightness
        BY <1>8, <3>1 DEF OldWillBeKnown
      <3>2. CASE oldKeyboardBrightness # cachedBrightness /\ oldKeyboardBrightness > 0
        <4>1. /\ n \in DOMAIN signals' /\ ~IsLid(signals'[n])
              /\ signals'[n].value = oldKeyboardBrightness
          BY <1>12, <3>2, LidIsRead
        <4> HIDE DEF n
        <4> QED
          BY <1>8, <3>2, <4>1 DEF OldWillBeKnown
      <3>3. CASE oldKeyboardBrightness # cachedBrightness /\ oldKeyboardBrightness = 0
        <4>1. kbdBrightness = 0
          BY <1>2, <1>7, <3>3
        <4>2. PICK i \in DOMAIN signals : ~IsLid(signals[i]) /\ signals[i].value = 0
          BY <3>3, <4>1 DEF LidIInv, LastIsActual
        <4>3. i - 1 \in DOMAIN signals' /\ signals'[i - 1] = signals[i]
          BY <4>2, LidIsRead
        <4> QED
          BY <1>8, <3>3, <4>2, <4>3 DEF OldWillBeKnown
      <3> QED
        BY <3>1, <3>2, <3>3 DEF LidIInv, TypeOK, Values
    <2> QED
      BY <1>4, <1>7, <1>8, <1>9, <1>10, <1>12, <2>1, <2>2 DEF LeftAlone
  <1> QED
    BY <1>11, <1>12

LEMMA ReadSignalKeepsLidInv ==
    ASSUME LidIInv, ReadSignal
    PROVE  LidInv'
  <1>1. CASE IsLid(signals[1])
    <2>2. leftAt' = leftAt
      BY <1>1, LidIsRead
    <2>3. OpenAndChanged'
      BY <1>1, <2>2, LidReadKeepsOpenAndChanged DEF OpenAndChanged
    <2>4. LeftAlone'
      BY <1>1, <2>2, LidReadKeepsLeftAlone DEF LeftAlone
    <2> QED
      BY <2>3, <2>4 DEF LidInv
  <1>2. CASE ~IsLid(signals[1])
    BY <1>2, BrightnessReadKeepsLidInv
  <1> QED
    BY <1>1, <1>2

LEMMA NothingNewKeepsLidInv ==
    ASSUME LidIInv, NothingNew
    PROVE  LidInv'
  BY DEF NothingNew, LidIInv, LidInv, OpenAndChanged, LeftAlone, LidFirst,
         OldWillBeKnown, LastWillBeKnown, hardware

LEMMA InitLidInv == Init => LidInv
  <1> SUFFICES ASSUME Init PROVE LidInv
    OBVIOUS
  <1>1. leftAt = NoBrightness /\ leftAt \notin Values
    BY KeyboardAssumption DEF Init, NoBrightness, Values
  <1>2. \A i \in DOMAIN signals : FALSE
    BY DEF Init
  <1>3. OldWillBeKnown /\ LastWillBeKnown /\ ~lidClosed
    BY DEF Init, OldWillBeKnown, LastWillBeKnown
  <1> QED
    BY <1>1, <1>2, <1>3 DEF LidInv, OpenAndChanged, LeftAlone

LEMMA NextKeepsLidIInv == LidIInv /\ [Next]_vars => LidIInv'
  <1> SUFFICES ASSUME LidIInv, [Next]_vars PROVE LidIInv'
    OBVIOUS
  <1>1. TypeOK' /\ LastIsActual' /\ LidSignalsInTurn'
    BY NextType, NextKeepsLast, NextKeepsTurn DEF LidIInv
  <1>2. LidInv'
    BY StepKinds, SomebodySetsKeepsLidInv, FirmwareTurnsOffKeepsLidInv,
       DaemonRestoresKeepsLidInv, LidMovesKeepsLidInv, ReadSignalKeepsLidInv,
       NothingNewKeepsLidInv DEF LidIInv
  <1> QED
    BY <1>1, <1>2 DEF LidIInv

\* HandleButtonEvents restores the brightness that the lid was closed with,
\* however the signals of UPower, resumes, profiles and keys come in between.
\* What leftAt leaves out is said there, with LidRestores: among it a lid that
\* is closed after a key that was not obeyed, as long as nothing else has been
\* announced with the lid open.
THEOREM AlwaysLidRestores == Spec => []LidRestores
  <1>1. Init => LidIInv
    BY InitType, InitLast, InitTurn, InitLidInv DEF LidIInv
  <1>2. LidIInv => LidRestores
    <2> SUFFICES ASSUME LidIInv, signals = <<>>, ~isLidClosed, leftAt \in Values
                 PROVE  kbdBrightness = leftAt
      BY DEF LidRestores
    <2>1. isLidClosed = lidClosed
      BY DEF LidIInv, LidSignalsInTurn, InTurn
    <2> QED
      BY <2>1 DEF LidIInv, LidInv, LeftAlone
  <1> QED
    BY <1>1, <1>2, NextKeepsLidIInv, PTL DEF Spec

-----------------------------------------------------------------------------
(* What the applet shows.                                                  *)

LEMMA InitApplet == Init => AppletInv
  BY DEF Init, AppletInv

\* Every value that is announced still is.
StillAnnounced ==
    \A i \in DOMAIN signals : ~IsLid(signals[i]) =>
        \E j \in DOMAIN signals' : ~IsLid(signals'[j]) /\ signals'[j].value = signals[i].value

\* What the daemon and UPower do without the bus.
LEMMA WithoutBus ==
    ASSUME AppletInv, UNCHANGED <<initialized, connected, appletBrightness, calls, bus>>,
           missed' \/ (~missed /\ UNCHANGED cachedBrightness /\ StillAnnounced)
    PROVE  AppletInv'
  <1>1. Heard' = Heard
    BY DEF Heard
  <1>2. ASSUME NEW v, Announced(v)
        PROVE  missed' \/ v = cachedBrightness'
               \/ \E i \in DOMAIN signals' : ~IsLid(signals'[i]) /\ signals'[i].value = v
    BY <1>2 DEF Announced, StillAnnounced
  <1>3. /\ Announced(Heard) => Announced(Heard)'
        /\ Announced(bus[1].value) => Announced(bus[1].value)'
    <2>1. Announced(Heard) => Announced(Heard)'
      <3> HIDE DEF Heard
      <3> QED
        BY <1>1, <1>2 DEF Announced
    <2>2. Announced(bus[1].value) => Announced(bus[1].value)'
      BY <1>2 DEF Announced
    <2> QED
      BY <2>1, <2>2
  <1> QED
    BY <1>1, <1>3 DEF AppletInv

LEMMA SetStillAnnounced ==
    ASSUME TypeOK, NEW v \in Values, UPowerSets(v)
    PROVE  /\ StillAnnounced
           /\ \E j \in DOMAIN signals' : ~IsLid(signals'[j]) /\ signals'[j].value = v
  <1> DEFINE n == Len(signals)
  <1>1. /\ DOMAIN signals = 1 .. n /\ DOMAIN signals' = 1 .. n + 1 /\ n \in Nat
        /\ \A i \in 1 .. n : signals'[i] = signals[i]
        /\ signals'[n + 1] = Changed(v)
    BY SignalFields, Sent DEF UPowerSets, TypeOK
  <1>2. ~IsLid(signals'[n + 1]) /\ signals'[n + 1].value = v /\ n + 1 \in DOMAIN signals'
    BY <1>1, SignalFields DEF IsLid
  <1>3. StillAnnounced
    BY <1>1 DEF StillAnnounced
  <1> HIDE DEF n
  <1> QED
    BY <1>2, <1>3

LEMMA UserKeepsApplet ==
    ASSUME TypeOK, AppletInv, User
    PROVE  AppletInv'
  <1> USE DEF hardware, caches, applet, untouched, daemon
  <1>1. ASSUME NEW value \in Values, KeyPressed(value)
        PROVE  AppletInv'
    <2>1. CASE kbdBrightness # cachedBrightness
      BY <1>1, <2>1, WithoutBus DEF KeyPressed
    <2>2. CASE kbdBrightness = cachedBrightness
      <3>1. StillAnnounced
        BY <1>1, <2>2, SetStillAnnounced DEF KeyPressed, Sets, setBrightness
      <3>2. UNCHANGED <<initialized, connected, appletBrightness, calls, bus, missed,
                        cachedBrightness>>
        BY <1>1, <2>2 DEF KeyPressed, Sets, setBrightness, Cached
      <3> QED
        BY <3>1, <3>2, WithoutBus DEF TypeOK
    <2> QED
      BY <2>1, <2>2
  <1>2. ASSUME NEW value \in Values, NEW more \in BOOLEAN, onProfileLoad(value, more)
        PROVE  AppletInv'
    <2>1. StillAnnounced
      BY <1>2, SetStillAnnounced DEF onProfileLoad, Sets, setBrightness
    <2>2. UNCHANGED <<initialized, connected, appletBrightness, calls, bus, missed,
                      cachedBrightness>>
      BY <1>2 DEF onProfileLoad, Sets, setBrightness, Cached
    <2> QED
      BY <2>1, <2>2, WithoutBus DEF TypeOK
  <1>3. ASSUME LidMoves
        PROVE  AppletInv'
    <2>1. StillAnnounced
      <3> DEFINE n == Len(signals)
                 lid == [what |-> "LidIsClosed", closed |-> lidClosed']
                 told == Append(signals, lid)
      <3>0. lidClosed' \in BOOLEAN /\ 0 \in Values
        BY <1>3, KeyboardAssumption DEF LidMoves, Values
      <3>1. lid \in Signals /\ Changed(0) \in Signals
        BY <3>0, SignalFields
      <3>2. /\ told \in Seq(Signals) /\ Len(told) = n + 1 /\ DOMAIN signals = 1 .. n /\ n \in Nat
            /\ DOMAIN told = 1 .. n + 1 /\ \A i \in 1 .. n : told[i] = signals[i]
        BY <3>1, Sent DEF TypeOK
      <3> HIDE DEF told
      <3>3. /\ DOMAIN Append(told, Changed(0)) = 1 .. n + 2
            /\ \A i \in 1 .. n : Append(told, Changed(0))[i] = signals[i]
        BY <3>1, <3>2, Sent
      <3>4. signals' = told \/ signals' = Append(told, Changed(0))
        BY <1>3 DEF LidMoves, told
      <3>5. 1 .. n \subseteq DOMAIN signals' /\ \A i \in 1 .. n : signals'[i] = signals[i]
        BY <3>2, <3>3, <3>4
      <3> QED
        BY <3>2, <3>5 DEF StillAnnounced
    <2>2. UNCHANGED <<initialized, connected, appletBrightness, calls, bus, missed,
                      cachedBrightness>>
      BY <1>3 DEF LidMoves
    <2> QED
      BY <2>1, <2>2, WithoutBus DEF TypeOK
  <1>4. ASSUME NEW value \in Values, AppletSets(value)
        PROVE  AppletInv'
    <2> DEFINE n == Len(calls)
    <2>1. /\ DOMAIN calls = 1 .. n /\ DOMAIN calls' = 1 .. n + 1 /\ n \in Nat
          /\ \A i \in 1 .. n : calls'[i] = calls[i]
          /\ calls'[n + 1] = [what |-> "set", value |-> value]
      BY <1>4, CallFields, Sent DEF AppletSets, TypeOK
    <2>2. /\ connected /\ initialized /\ connected' /\ initialized' /\ UNCHANGED <<missed, bus>>
          /\ UNCHANGED <<signals, cachedBrightness>>
      BY <1>4 DEF AppletSets, AppletInv
    <2>3. \A i \in DOMAIN calls' : calls'[i].what = "set"
      BY <2>1, <2>2 DEF AppletInv
    <2>4. Heard' = IF bus = <<>> THEN value ELSE Heard
      BY <1>4, <2>2 DEF AppletSets, Heard
    <2>5. Announced(Heard)' \/ \E i \in DOMAIN calls' : calls'[i].value = Heard'
      <3>1. CASE bus = <<>>
        <4>1. n + 1 \in DOMAIN calls' /\ calls'[n + 1].value = Heard'
          BY <2>1, <2>4, <3>1
        <4> HIDE DEF n
        <4> QED
          BY <4>1
      <3>2. CASE bus # <<>>
        BY <2>1, <2>2, <2>4, <3>2 DEF AppletInv, Announced
      <3> QED
        BY <3>1, <3>2
    <2> QED
      BY <2>2, <2>3, <2>5 DEF AppletInv
  <1>5. kbdBrightness \in Values
    BY DEF TypeOK
  <1> QED
    BY <1>1, <1>2, <1>3, <1>4, <1>5, NextStepIsValue, ToggledIsValue DEF User

LEMMA WorldKeepsApplet ==
    ASSUME TypeOK, AppletInv, World
    PROVE  AppletInv'
  <1> USE DEF hardware, caches, applet
  <1>1. CASE Sleeps
    <2>1. UNCHANGED <<initialized, connected, appletBrightness, calls, bus, missed, cachedBrightness>>
      BY <1>1 DEF Sleeps
    <2>2. StillAnnounced
      <3>1. CASE UNCHANGED signals
        BY <3>1 DEF StillAnnounced
      <3>2. CASE UPowerSets(0)
        BY <3>2, SetStillAnnounced, KeyboardAssumption DEF Values
      <3> QED
        BY <1>1, <3>1, <3>2 DEF Sleeps
    <2> QED
      BY <2>1, <2>2, WithoutBus DEF TypeOK
  <1>2. ASSUME NEW value \in Values, BrightnessChanges(value)
        PROVE  AppletInv'
    <2>1. UNCHANGED <<initialized, connected, appletBrightness, calls, bus, missed, cachedBrightness>>
      BY <1>2 DEF BrightnessChanges
    <2>2. StillAnnounced
      BY <1>2, SetStillAnnounced DEF BrightnessChanges
    <2> QED
      BY <2>1, <2>2, WithoutBus DEF TypeOK
  <1> QED
    BY <1>1, <1>2 DEF World

LEMMA ReadSignalKeepsApplet ==
    ASSUME LidIInv, AppletInv, ReadSignal
    PROVE  AppletInv'
  <1>1. CASE IsLid(signals[1])
    <2>1. UNCHANGED <<initialized, connected, appletBrightness, calls, bus, missed, cachedBrightness>>
      <3>1. UNCHANGED <<initialized, connected, appletBrightness, calls>>
        BY DEF ReadSignal, applet
      <3>2. UNCHANGED <<bus, missed>>
        BY <1>1 DEF ReadSignal, onLidClosedChanged, IsLid
      <3> QED
        BY <1>1, <3>1, <3>2, LidIsRead
    <2>2. StillAnnounced
      <3>1. ASSUME NEW i \in DOMAIN signals, ~IsLid(signals[i])
            PROVE  i - 1 \in DOMAIN signals' /\ signals'[i - 1] = signals[i]
        BY <1>1, <3>1, LidIsRead
      <3> QED
        BY <3>1 DEF StillAnnounced
    <2> QED
      BY <2>1, <2>2, WithoutBus DEF LidIInv, TypeOK
  <1>2. CASE ~IsLid(signals[1])
    <2> DEFINE v == signals[1].value
    <2>1. /\ signals # <<>> /\ signals' = Tail(signals) /\ onBrightnessChanged(v)
          /\ UNCHANGED <<initialized, connected, appletBrightness, calls>>
      BY <1>2 DEF ReadSignal, IsLid, applet
    <2>2. /\ 1 \in DOMAIN signals
          /\ \A i \in DOMAIN signals :
                 i # 1 => i > 1 /\ i - 1 \in DOMAIN signals' /\ signals'[i - 1] = signals[i]
      BY <2>1, MovedUp DEF LidIInv
    <2>3. CASE v = cachedBrightness
      <3>1. UNCHANGED <<cachedBrightness, bus, missed>>
        BY <2>1, <2>3 DEF onBrightnessChanged, caches
      <3>2. Heard' = Heard
        BY <2>1, <3>1 DEF Heard
      <3>3. /\ Announced(Heard) => Announced(Heard)'
            /\ Announced(bus[1].value) => Announced(bus[1].value)'
        BY <2>1, <2>2, <2>3, <3>1, <3>2 DEF Announced
      <3> QED
        BY <2>1, <3>1, <3>2, <3>3 DEF AppletInv
    <2>4. CASE v # cachedBrightness
      <3> DEFINE message == [what |-> "changed", value |-> v]
      <3>1. /\ cachedBrightness' = v
            /\ bus' = (IF connected THEN Append(bus, message) ELSE bus)
            /\ missed' = ~connected
        BY <2>1, <2>4 DEF onBrightnessChanged, Remembered
      <3>2. CASE connected
        <4> DEFINE n == Len(bus)
        <4>1. v \in Values
          <5>1. signals[1] \in Signals
            BY <2>1, Read DEF LidIInv, TypeOK
          <5> QED
            BY <1>2, <5>1, SignalFields DEF IsLid
        <4>2. message \in Messages /\ bus \in Seq(Messages)
          BY <4>1, CallFields DEF LidIInv, TypeOK
        <4>3. /\ DOMAIN bus = 1 .. n /\ DOMAIN bus' = 1 .. n + 1 /\ Len(bus') = n + 1
              /\ \A i \in 1 .. n : bus'[i] = bus[i]
              /\ bus'[n + 1] = message /\ n \in Nat
          BY <3>1, <3>2, <4>2, Sent
        <4>4. \A i \in DOMAIN bus' : bus'[i].what = "changed"
          BY <3>2, <4>3 DEF AppletInv
        <4>5. bus' # <<>>
          BY <4>3
        <4>6. Heard' = v
          BY <4>3, <4>5 DEF Heard
        <4>7. initialized
          BY <3>2 DEF AppletInv
        <4> QED
          BY <2>1, <3>1, <3>2, <4>4, <4>6, <4>7 DEF AppletInv, Announced
      <3>3. CASE ~connected
        BY <2>1, <3>1, <3>3 DEF AppletInv, Announced
      <3> QED
        BY <3>2, <3>3
    <2> QED
      BY <2>3, <2>4
  <1> QED
    BY <1>1, <1>2

LEMMA DaemonKeepsApplet ==
    ASSUME LidIInv, AppletInv, Daemon
    PROVE  AppletInv'
  <1> USE DEF hardware, caches, applet, untouched, daemon
  <1>1. CASE ReadResume
    <2>1. UNCHANGED <<initialized, connected, appletBrightness, calls, bus, missed, cachedBrightness>>
      BY <1>1 DEF ReadResume, Sets, Cached
    <2>2. StillAnnounced
      <3>1. CASE UNCHANGED signals
        BY <3>1 DEF StillAnnounced
      <3>2. CASE UPowerSets(lastKeyboardBrightness)
        BY <3>2, SetStillAnnounced DEF LidIInv, TypeOK
      <3> QED
        BY <1>1, <3>1, <3>2 DEF ReadResume, Sets, setBrightness
    <2> QED
      BY <2>1, <2>2, WithoutBus DEF LidIInv, TypeOK
  <1>2. CASE ServeGet
    <2>1. ~connected /\ initialized /\ bus = <<>> /\ calls = <<[what |-> "get"]>>
      <3>1. 1 \in DOMAIN calls
        BY <1>2, Read DEF ServeGet, LidIInv, TypeOK
      <3>2. calls[1].what = "get"
        BY <1>2 DEF ServeGet
      <3>3. ~connected
        BY <3>1, <3>2 DEF AppletInv
      <3> QED
        BY <1>2, <3>3 DEF ServeGet, AppletInv
    <2>2. /\ calls' = <<>> /\ bus' = <<[what |-> "reply", value |-> kbdBrightness]>>
          /\ UNCHANGED <<connected, initialized, cachedBrightness>>
      BY <1>2, <2>1 DEF ServeGet
    <2>3. Announced(kbdBrightness)'
      BY <1>2, <2>2 DEF ServeGet, LidIInv, LastIsActual, Announced
    <2>4. Len(bus') = 1 /\ bus'[1].what = "reply" /\ Announced(bus[1].value)'
      <3>1. bus'[1].value = kbdBrightness /\ kbdBrightness' = kbdBrightness
        BY <1>2, <2>2 DEF ServeGet
      <3> QED
        BY <2>2, <2>3, <3>1 DEF Announced
    <2> QED
      BY <2>1, <2>2, <2>4 DEF AppletInv
  <1>3. CASE ServeSet
    <2> DEFINE v == calls[1].value
               n == Len(calls)
    <2>1. /\ calls # <<>> /\ calls[1].what = "set" /\ UPowerSets(v) /\ calls' = Tail(calls)
          /\ UNCHANGED <<initialized, connected, appletBrightness, bus, missed, cachedBrightness>>
      BY <1>3 DEF ServeSet, Sets, setBrightness, Cached
    <2>2. /\ DOMAIN calls = 1 .. n /\ DOMAIN calls' = 1 .. n - 1 /\ n \in Nat /\ 1 \in 1 .. n
          /\ \A i \in 1 .. n - 1 : calls'[i] = calls[i + 1]
          /\ calls[1] \in Calls
      BY <2>1, Read DEF LidIInv, TypeOK
    <2>3. v \in Values
      BY <2>1, <2>2, CallFields
    <2>4. /\ StillAnnounced
          /\ \E j \in DOMAIN signals' : ~IsLid(signals'[j]) /\ signals'[j].value = v
      <3> HIDE DEF v
      <3> QED
        BY <2>1, <2>3, SetStillAnnounced DEF LidIInv
    <2>5. connected
      BY <2>1 DEF AppletInv
    <2>6. Heard' = Heard
      BY <2>1 DEF Heard
    <2>7. \A i \in DOMAIN calls' : calls'[i].what = "set"
      BY <2>2, <2>5 DEF AppletInv
    <2>8. Announced(Heard)' \/ \E i \in DOMAIN calls' : calls'[i].value = Heard'
      <3>1. ASSUME NEW i \in DOMAIN calls, calls[i].value = Heard
            PROVE  \/ v = Heard
                   \/ \E j \in DOMAIN calls' : calls'[j].value = Heard
        <4>1. CASE i = 1
          BY <3>1, <4>1
        <4>2. CASE i # 1
          <5>1. i - 1 \in DOMAIN calls' /\ calls'[i - 1] = calls[i]
            BY <2>2, <4>2
          <5> QED
            BY <3>1, <5>1
        <4> QED
          BY <4>1, <4>2
      <3> HIDE DEF v
      <3>2. Announced(Heard) \/ \E i \in DOMAIN calls : calls[i].value = Heard
        BY <2>5 DEF AppletInv
      <3>3. Announced(Heard) => Announced(Heard)'
        BY <2>1, <2>4, <2>6 DEF Announced, StillAnnounced
      <3>4. v = Heard => Announced(Heard)'
        BY <2>4, <2>6 DEF Announced
      <3> QED
        BY <2>6, <3>1, <3>2, <3>3, <3>4
    <2> QED
      BY <2>1, <2>5, <2>7, <2>8 DEF AppletInv
  <1> QED
    BY <1>1, <1>2, <1>3, ReadSignalKeepsApplet DEF Daemon

LEMMA AppletKeepsApplet ==
    ASSUME TypeOK, AppletInv, Applet
    PROVE  AppletInv'
  <1> USE DEF hardware, caches, daemon
  <1>1. CASE AppletStarts
    <2>1. calls = <<>> /\ bus = <<>> /\ ~connected
      BY <1>1 DEF AppletStarts, AppletInv
    <2>2. calls' = <<[what |-> "get"]>> /\ bus' = <<>> /\ ~connected' /\ initialized'
      BY <1>1, <2>1 DEF AppletStarts
    <2> QED
      BY <2>2 DEF AppletInv
  <1>2. CASE AppletConnects
    <2>1. /\ ~connected /\ initialized
      <3>1. 1 \in DOMAIN bus
        BY <1>2, Read DEF AppletConnects, TypeOK
      <3>2. bus # <<>> /\ bus[1].what # "changed"
        BY <1>2 DEF AppletConnects
      <3> QED
        BY <3>1, <3>2 DEF AppletInv
    <2>2. /\ calls = <<>> /\ Len(bus) = 1
          /\ Announced(bus[1].value)
      BY <1>2, <2>1 DEF AppletConnects, AppletInv
    <2>3. /\ bus' = <<>> /\ appletBrightness' = bus[1].value /\ connected' /\ initialized'
          /\ UNCHANGED <<calls, missed, cachedBrightness, signals>>
      BY <1>2, <2>1, <2>2 DEF AppletConnects, TypeOK
    <2>4. Heard' = bus[1].value
      BY <2>3 DEF Heard
    <2>5. Announced(Heard)'
      BY <2>2, <2>3, <2>4 DEF Announced
    <2>6. (\A i \in DOMAIN calls' : FALSE) /\ (\A i \in DOMAIN bus' : FALSE)
      BY <2>2, <2>3
    <2> QED
      BY <2>3, <2>5, <2>6 DEF AppletInv
  <1>3. CASE AppletHears
    <2> DEFINE n == Len(bus)
    <2>1. /\ bus # <<>> /\ bus' = Tail(bus) /\ appletBrightness' = bus[1].value
          /\ bus[1].what = "changed"
          /\ UNCHANGED <<calls, missed, initialized, connected, cachedBrightness, signals>>
      BY <1>3 DEF AppletHears
    <2>2. /\ DOMAIN bus = 1 .. n /\ DOMAIN bus' = 1 .. n - 1 /\ Len(bus') = n - 1 /\ n \in Nat
          /\ 1 \in 1 .. n /\ \A i \in 1 .. n - 1 : bus'[i] = bus[i + 1]
      BY <2>1, Read DEF TypeOK
    <2>3. connected
      BY <2>1 DEF AppletInv
    <2>4. Heard' = Heard
      <3>1. CASE n = 1
        <4>1. bus' = <<>>
          BY <2>1, <3>1 DEF TypeOK
        <4> QED
          BY <2>1, <3>1, <4>1 DEF Heard
      <3>2. CASE n > 1
        <4>1. bus' # <<>> /\ bus'[n - 1] = bus[n]
          BY <2>2, <3>2
        <4> QED
          BY <2>1, <2>2, <4>1 DEF Heard
      <3> QED
        BY <2>2, <3>1, <3>2
    <2>5. \A i \in DOMAIN bus' : bus'[i].what = "changed"
      BY <2>2, <2>3 DEF AppletInv
    <2>6. Announced(Heard)' \/ \E i \in DOMAIN calls' : calls'[i].value = Heard'
      BY <2>1, <2>3, <2>4 DEF AppletInv, Announced
    <2>7. (\A i \in DOMAIN calls' : calls'[i].what = "set") /\ initialized' /\ connected'
      BY <2>1, <2>3 DEF AppletInv
    <2> QED
      BY <2>5, <2>6, <2>7 DEF AppletInv
  <1> QED
    BY <1>1, <1>2, <1>3 DEF Applet

LEMMA NextKeepsApplet == LidIInv /\ AppletInv /\ [Next]_vars => AppletInv'
  <1>1. AppletInv /\ UNCHANGED vars => AppletInv'
    BY DEF vars, hardware, caches, applet, AppletInv, Announced, Heard
  <1> QED
    BY <1>1, UserKeepsApplet, WorldKeepsApplet, DaemonKeepsApplet, AppletKeepsApplet
       DEF Next, LidIInv

\* The applet's slider shows the brightness once everything under way has been
\* read, whoever has set it, unless the last change was remembered for a key
\* without being told to anybody, or came between the applet's question and its
\* connection (missed); the next change told to it sets it right.
THEOREM AlwaysAppletShows == Spec => []AppletShows
  <1>1. Init => LidIInv /\ AppletInv
    BY InitType, InitLast, InitTurn, InitLidInv, InitApplet DEF LidIInv
  <1>2. LidIInv /\ AppletInv => AppletShows
    <2> SUFFICES ASSUME LidIInv, AppletInv, connected, signals = <<>>, calls = <<>>, bus = <<>>,
                        ~missed
                 PROVE  appletBrightness = kbdBrightness
      BY DEF AppletShows
    <2>1. Heard = appletBrightness
      BY DEF Heard
    <2>2. Heard = cachedBrightness
      BY DEF AppletInv, Announced
    <2>3. cachedBrightness = kbdBrightness
      BY DEF LidIInv, LastIsActual
    <2> QED
      BY <2>1, <2>2, <2>3
  <1> QED
    BY <1>1, <1>2, NextKeepsLidIInv, NextKeepsApplet, PTL DEF Spec
=============================================================================
