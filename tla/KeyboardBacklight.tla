-------------------------- MODULE KeyboardBacklight --------------------------
(***************************************************************************)
(* The keyboard's backlight: KeyboardBrightnessController                  *)
(* (keyboardbrightnesscontroller.cpp), the action that offers it           *)
(* (bundled/keyboardbrightnesscontrol.cpp), what HandleButtonEvents does   *)
(* to it as the lid moves (handlebuttonevents.cpp), and the applet's       *)
(* slider (applets/brightness/plugin/keyboardbrightnesscontrol.cpp).       *)
(*                                                                         *)
(* UPower owns the brightness.  The firmware changes it as well as the     *)
(* daemon; UPower answers the daemon's questions at once, but what it      *)
(* announces, of the brightness and of the lid, is read later, in order.   *)
(*                                                                         *)
(* Abstractions.  There is a backlight all the time, and its brightness is *)
(* 0 .. MaxBrightness.  Indicators are left out.  When the firmware turns  *)
(* the backlight off as the lid closes, UPower announces the lid first.    *)
(* The applet asks for the brightness once, when it starts; the lid is     *)
(* open when the daemon does.                                              *)
(***************************************************************************)
EXTENDS BrightnessSteps, Sequences

CONSTANTS MaxBrightness,
          MaxEvents     \* bound: what the user, the firmware and the profiles do

ASSUME KeyboardAssumption == MaxBrightness \in Nat \ {0} /\ MaxEvents \in Nat

Values == 0 .. MaxBrightness
NoBrightness == MaxBrightness + 1
Untracked == MaxBrightness + 2

VARIABLES
    \* the firmware and UPower
    kbdBrightness, lidClosed,
    signals,        \* from UPower to the daemon
    resumed,        \* logind has announced a resume, which is not read
    \* KeyboardBrightnessController
    cachedBrightness, brightnessBeforeTogglingOff,
    \* KeyboardBrightnessControl, and HandleButtonEvents
    lastKeyboardBrightness, isLidClosed, oldKeyboardBrightness,
    \* the session bus, and the applet
    calls, bus,
    initialized, connected, appletBrightness,
    \* history
    leftAt,         \* the brightness when the lid was closed, with everything read;
                    \* NoBrightness when somebody has set it since; Untracked if that was
                    \* with the lid closed, and as long as it is only set to the same
                    \* value again, or when the lid moved with things unread or unheard
    unheard,        \* a key was not obeyed, so that HandleButtonEvents was not told the
                    \* brightness, and since then it has not been told another one
    missed,         \* the same of the applet, or a change came before it was connected
    events          \* bound

hardware == <<kbdBrightness, signals>>
caches == <<cachedBrightness, lastKeyboardBrightness, oldKeyboardBrightness>>
applet == <<initialized, connected, appletBrightness>>
vars == <<hardware, lidClosed, resumed, brightnessBeforeTogglingOff, caches, isLidClosed, calls, bus,
          applet, leftAt, unheard, missed, events>>

\* updateMaxBrightness, and the constructors.  brightnessBeforeTogglingOff
\* is not initialised and may be anything.
Init ==
    /\ kbdBrightness \in Values /\ signals = <<>>
    /\ lidClosed = FALSE /\ resumed = FALSE
    /\ cachedBrightness = kbdBrightness /\ brightnessBeforeTogglingOff \in Values
    /\ lastKeyboardBrightness = 0          \* -1, no more to be restored than 0
    /\ isLidClosed = FALSE /\ oldKeyboardBrightness = kbdBrightness
    /\ calls = <<>> /\ bus = <<>>
    /\ initialized = FALSE /\ connected = FALSE /\ appletBrightness = 0
    /\ leftAt = NoBrightness /\ unheard = FALSE /\ missed = FALSE /\ events = 0

Happens == events < MaxEvents /\ events' = events + 1

-----------------------------------------------------------------------------
(* UPower.                                                                 *)

Changed(value) == [what |-> "BrightnessChanged", value |-> value]

\* Somebody has set the brightness.
Chosen(value) ==
    leftAt' = IF lidClosed \/ isLidClosed \/ (leftAt = Untracked /\ value = kbdBrightness)
              THEN Untracked ELSE NoBrightness

\* UPower's SetBrightness, and announcing it
UPowerSets(value) == kbdBrightness' = value /\ signals' = Append(signals, Changed(value))

\* The firmware's own key, or another program.
BrightnessChanges(value) ==
    /\ Happens /\ value # kbdBrightness /\ UPowerSets(value)
    /\ Chosen(value)
    /\ UNCHANGED <<lidClosed, resumed, brightnessBeforeTogglingOff, caches, isLidClosed, calls, bus,
                   applet, unheard, missed>>

LidMoves ==
    /\ Happens /\ lidClosed' = ~lidClosed
    /\ LET told == Append(signals, [what |-> "LidIsClosed", closed |-> lidClosed'])
       IN \/ signals' = told /\ UNCHANGED kbdBrightness
          \/ lidClosed' /\ kbdBrightness > 0 /\ kbdBrightness' = 0 /\ signals' = Append(told, Changed(0))
    /\ leftAt' = IF signals # <<>> \/ resumed \/ (lidClosed' /\ unheard) THEN Untracked
                 ELSE IF lidClosed' /\ leftAt = NoBrightness THEN kbdBrightness
                 ELSE leftAt
    /\ UNCHANGED <<resumed, brightnessBeforeTogglingOff, caches, isLidClosed, calls, bus,
                   applet, unheard, missed>>

\* The computer sleeps, during which the firmware may turn the backlight off.
Sleeps ==
    /\ Happens /\ resumed' = TRUE
    /\ \/ UNCHANGED <<hardware, leftAt>>
       \/ /\ kbdBrightness > 0 /\ UPowerSets(0)
          /\ leftAt' = IF lidClosed THEN leftAt ELSE NoBrightness
    /\ UNCHANGED <<lidClosed, brightnessBeforeTogglingOff, caches, isLidClosed, calls, bus,
                   applet, unheard, missed>>

-----------------------------------------------------------------------------
(* KeyboardBrightnessController.                                           *)

setBrightness(value) ==
    /\ brightnessBeforeTogglingOff' = IF value = 0 THEN kbdBrightness ELSE value
    /\ UPowerSets(value)

\* Mutant: the controller remembers its own change at once.
SetAndCached(value) == cachedBrightness' = value

\* What the controller remembers as it sets a brightness: nothing.
Cached(value) == UNCHANGED cachedBrightness

Sets(value) ==
    /\ setBrightness(value) /\ Cached(value)
    /\ UNCHANGED <<lastKeyboardBrightness, oldKeyboardBrightness>>

untouched == <<lidClosed, resumed, isLidClosed, bus, applet>>

\* The value after a press of a brightness key, or of the toggle key.
NextStep(adjustment) ==
    adjusted(adjustment, kbdBrightness, 0, MaxBrightness, KeyboardSteps(MaxBrightness))

Toggled == IF kbdBrightness > 0 THEN 0
           ELSE IF brightnessBeforeTogglingOff > 0 THEN brightnessBeforeTogglingOff
           ELSE MaxBrightness

\* keyboardBrightnessKeyPressed and toggleBacklight: the firmware may have
\* changed the brightness already, which is remembered and told to nobody.
KeyPressed(value) ==
    /\ Happens
    /\ IF kbdBrightness # cachedBrightness
       THEN /\ cachedBrightness' = kbdBrightness
            /\ unheard' = TRUE /\ missed' = TRUE
            /\ UNCHANGED <<hardware, brightnessBeforeTogglingOff, lastKeyboardBrightness,
                           oldKeyboardBrightness, leftAt>>
       ELSE Sets(value) /\ Chosen(value) /\ UNCHANGED <<unheard, missed>>
    /\ UNCHANGED <<untouched, calls>>

\* A more conservative profile does not make the keyboard brighter.
onProfileLoad(value, moreConservative) ==
    /\ Happens /\ ~(moreConservative /\ value > kbdBrightness)
    /\ Sets(value) /\ Chosen(value)
    /\ UNCHANGED <<untouched, calls, unheard, missed>>

\* Mutant: the brightness is tracked with the lid closed as well.
OldBrightnessAlways(value) == value

\* HandleButtonEvents tracks the brightness as long as the lid is open.
OldBrightness(value) == IF isLidClosed THEN oldKeyboardBrightness ELSE value

\* Mutant: the change is announced but not remembered.
RememberedNot(value) == cachedBrightness

Remembered(value) == value

\* onBrightnessChanged, and those who listen to brightnessInfoChanged
onBrightnessChanged(value) ==
    /\ IF value = cachedBrightness THEN UNCHANGED <<caches, bus, unheard, missed>>
       ELSE /\ cachedBrightness' = Remembered(value)
            /\ lastKeyboardBrightness' = value /\ oldKeyboardBrightness' = OldBrightness(value)
            /\ bus' = IF connected THEN Append(bus, [what |-> "changed", value |-> value]) ELSE bus
            /\ unheard' = (unheard /\ isLidClosed) /\ missed' = ~connected
    /\ UNCHANGED <<isLidClosed, kbdBrightness, brightnessBeforeTogglingOff>>

\* onLidClosedChanged
onLidClosedChanged(closed) ==
    /\ isLidClosed' = closed
    /\ LET value == IF closed THEN 0 ELSE oldKeyboardBrightness
       IN IF closed \/ oldKeyboardBrightness > 0
          THEN /\ brightnessBeforeTogglingOff' = IF value = 0 THEN kbdBrightness ELSE value
               /\ kbdBrightness' = value /\ Cached(value)
          ELSE UNCHANGED <<brightnessBeforeTogglingOff, kbdBrightness, cachedBrightness>>
    /\ UNCHANGED <<lastKeyboardBrightness, oldKeyboardBrightness, bus, unheard, missed>>

ReadSignal ==
    /\ signals # <<>>
    /\ LET signal == signals[1] IN
       \/ /\ signal.what = "BrightnessChanged" /\ onBrightnessChanged(signal.value)
          /\ signals' = Tail(signals)
       \/ /\ signal.what = "LidIsClosed" /\ onLidClosedChanged(signal.closed)
          /\ signals' = IF signal.closed \/ oldKeyboardBrightness > 0
                        THEN Append(Tail(signals), Changed(kbdBrightness')) ELSE Tail(signals)
    /\ UNCHANGED <<lidClosed, resumed, calls, applet, leftAt, events>>

\* resumeFromSuspend
ReadResume ==
    /\ resumed /\ resumed' = FALSE
    /\ IF lastKeyboardBrightness > 0 THEN Sets(lastKeyboardBrightness)
       ELSE UNCHANGED <<hardware, brightnessBeforeTogglingOff, caches>>
    /\ UNCHANGED <<lidClosed, isLidClosed, calls, bus, applet, leftAt, unheard, missed, events>>

-----------------------------------------------------------------------------
(* The applet.                                                             *)

daemon == <<resumed, brightnessBeforeTogglingOff, caches, isLidClosed>>

\* onActionSupported
AppletStarts ==
    /\ ~initialized /\ initialized' = TRUE
    /\ calls' = Append(calls, [what |-> "get"])
    /\ UNCHANGED <<hardware, lidClosed, daemon, bus, connected, appletBrightness, leftAt, unheard, missed, events>>

ServeGet ==
    /\ calls # <<>> /\ calls[1].what = "get" /\ calls' = Tail(calls)
    /\ bus' = Append(bus, [what |-> "reply", value |-> kbdBrightness])
    /\ missed' = FALSE
    /\ UNCHANGED <<hardware, lidClosed, daemon, applet, leftAt, unheard, events>>

ServeSet ==
    /\ calls # <<>> /\ calls[1].what = "set" /\ calls' = Tail(calls)
    /\ Sets(calls[1].value) /\ Chosen(calls[1].value)
    /\ UNCHANGED <<untouched, unheard, missed, events>>

\* The brightness has been answered; from now on changes are heard of.
AppletConnects ==
    /\ bus # <<>> /\ bus[1].what = "reply" /\ bus' = Tail(bus)
    /\ appletBrightness' = bus[1].value /\ connected' = TRUE
    /\ UNCHANGED <<hardware, lidClosed, daemon, calls, initialized, leftAt, unheard, missed, events>>

AppletHears ==
    /\ bus # <<>> /\ bus[1].what = "changed" /\ bus' = Tail(bus)
    /\ appletBrightness' = bus[1].value
    /\ UNCHANGED <<hardware, lidClosed, daemon, calls, initialized, connected, leftAt, unheard, missed, events>>

\* The slider is moved.
AppletSets(value) ==
    /\ Happens /\ connected /\ value # appletBrightness
    /\ appletBrightness' = value
    /\ calls' = Append(calls, [what |-> "set", value |-> value])
    /\ UNCHANGED <<hardware, lidClosed, daemon, bus, initialized, connected, leftAt, unheard, missed>>

-----------------------------------------------------------------------------
User == \/ \E adjustment \in {"Increase", "Decrease"} : KeyPressed(NextStep(adjustment))
        \/ KeyPressed(Toggled)
        \/ LidMoves
        \/ \E value \in Values : AppletSets(value) \/ \E more \in BOOLEAN : onProfileLoad(value, more)

World == Sleeps \/ \E value \in Values : BrightnessChanges(value)

Daemon == ReadSignal \/ ReadResume \/ ServeGet \/ ServeSet

Applet == AppletStarts \/ AppletConnects \/ AppletHears

Next == User \/ World \/ Daemon \/ Applet

Spec == Init /\ [][Next]_vars

-----------------------------------------------------------------------------
\* When all has been read the controller knows the brightness: a key that is
\* pressed then is not taken for one that the firmware has dealt with.
KeysAreObeyed == signals = <<>> => cachedBrightness = kbdBrightness

\* When the lid is open again the brightness is the one it was closed with,
\* unless somebody set it meanwhile, or the lid moved before all that happened
\* earlier was read.  What is set while the lid is closed is not tracked: then
\* nothing is promised until it is changed with the lid open; setting the same
\* value again does not do, since nothing is announced then.  Neither is a
\* change that the controller remembers for a key, which it tells nobody about:
\* a lid that is closed before another change is announced with the lid open
\* may restore an older value (unheard).
LidRestores ==
    signals = <<>> /\ ~resumed /\ ~isLidClosed /\ leftAt \in Values
        => kbdBrightness = leftAt

\* When all has been read the applet shows the brightness.  Two changes do not
\* reach it (missed), and it shows an older value until the next one does: one
\* that the controller remembers for a key, and one that is announced between
\* the applet's question and its connection.
AppletShows ==
    connected /\ signals = <<>> /\ calls = <<>> /\ bus = <<>> /\ ~missed
        => appletBrightness = kbdBrightness
=============================================================================
