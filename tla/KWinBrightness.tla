---------------------------- MODULE KWinBrightness ----------------------------
(***************************************************************************)
(* Screen brightness by way of KWin: KWinDisplayDetector and               *)
(* KWinDisplayBrightness (kwinbrightness.cpp), with KWin and libkscreen    *)
(* around them.                                                            *)
(*                                                                         *)
(* The daemon holds a copy of KWin's output configuration, which           *)
(* libkscreen brings up to date as KWin's announcements are read.  To      *)
(* change something it writes to its copy and sends all of it to KWin; one *)
(* such operation runs at a time, and what is wanted meanwhile is sent by  *)
(* another one.                                                            *)
(*                                                                         *)
(* This module defines what happens to these variables; ScreenBrightness   *)
(* combines it with the controller, which hears of it by direct calls.     *)
(*                                                                         *)
(* Abstractions.  Brightness is 0 .. MaxBrightness (10 000 in the code).   *)
(* An output is known by its number, which is its priority too; a label    *)
(* stands for what tells one monitor from another on the same connector.   *)
(* dimming is 0 for the dimmed multiplier and 1 for none.  KWin carries    *)
(* out every configuration it is sent, leaving out what is no longer       *)
(* there; it remembers the brightness of an output that is gone, not the   *)
(* dimming.                                                                *)
(***************************************************************************)
EXTENDS BrightnessSteps, Sequences

CONSTANTS Outputs,                \* the connectors, numbered
          MaxBrightness,          \* full brightness
          InitialOutputs          \* what the outputs may be when the daemon starts

Values == 0 .. MaxBrightness
Labels == {"A", "B"}
OutputStates == [status : {"gone", "incapable", "capable"}, label : Labels,
                 brightness : Values, dimming : 0 .. 1]

ASSUME KWinAssumption ==
    /\ Outputs \subseteq Nat /\ IsFiniteSet(Outputs) /\ MaxBrightness \in Nat \ {0}
    /\ InitialOutputs \subseteq [Outputs -> OutputStates]
    /\ \A initial \in InitialOutputs, o \in Outputs :
            initial[o].label = "A" /\ initial[o].dimming = 1

VARIABLES
    \* KWin
    kwin,           \* output -> its state
    request,        \* the configuration it was sent and has not applied, or <<>>
    finished,       \* it applied one, which the daemon has not heard
    updates,        \* configurations it announced and the daemon has not read
    \* the daemon
    config,         \* KWinDisplayDetector::m_config
    displays,       \* m_displays: output -> KWinDisplayBrightness
    setConfigTimer, setConfigOp, setConfigOutOfDate

outside == <<kwin, request, finished, updates>>
detector == <<config, displays, setConfigTimer, setConfigOp, setConfigOutOfDate>>

\* detect: the first configuration has been fetched.
KWinInit ==
    /\ kwin \in InitialOutputs
    /\ request = <<>> /\ finished = FALSE /\ updates = <<>>
    /\ config = kwin
    /\ displays = [o \in {o \in Outputs : kwin[o].status = "capable"} |->
                     [label |-> "A", desiredBrightness |-> kwin[o].brightness,
                      desiredDimming |-> 1, inhibitChangeSignal |-> FALSE]]
    /\ setConfigTimer = FALSE /\ setConfigOp = FALSE /\ setConfigOutOfDate = FALSE

\* The daemon is about to change something.
Busy == setConfigTimer \/ setConfigOp
Settled == ~Busy /\ request = <<>> /\ updates = <<>>

Differ(a, b) == \E o \in Outputs : a[o].status # b[o].status \/ a[o].label # b[o].label

\* These outputs are not those of the daemon's copy, or one is dimmed again that
\* the daemon wants undimmed and does not manage.
Stale(outputs) ==
    \/ Differ(outputs, config)
    \/ \E o \in Outputs : outputs[o].status = "incapable" /\ outputs[o].dimming # config[o].dimming

-----------------------------------------------------------------------------
(* KWin.                                                                   *)

Announces(k) == updates' = Append(updates, k)

\* An output is connected, disconnected, enabled, disabled, or another
\* monitor takes its place.
OutputChanges(o, status, label) ==
    /\ <<status, label>> # <<kwin[o].status, kwin[o].label>>
    /\ label # kwin[o].label => status = "capable" /\ kwin[o].status # "incapable"
    /\ kwin' = [kwin EXCEPT ![o] = [@ EXCEPT !.status = status, !.label = label,
                                           !.dimming = IF status = "gone" THEN 1 ELSE kwin[o].dimming]]
    /\ Announces(kwin')
    /\ UNCHANGED <<request, finished, detector>>

\* Another program sets the brightness.
BrightnessChanges(o, value) ==
    /\ kwin[o].status = "capable" /\ value # kwin[o].brightness
    /\ kwin' = [kwin EXCEPT ![o].brightness = value]
    /\ Announces(kwin')
    /\ UNCHANGED <<request, finished, detector>>

AppliesRequest ==
    /\ request # <<>>
    /\ kwin' = [o \in Outputs |->
                  CASE kwin[o].status = "gone" -> kwin[o]
                    [] kwin[o].status = "incapable" -> [kwin[o] EXCEPT !.dimming = request[o].dimming]
                    [] OTHER -> [kwin[o] EXCEPT !.brightness = request[o].brightness,
                                                !.dimming = request[o].dimming]]
    /\ Announces(kwin')
    /\ request' = <<>> /\ finished' = TRUE
    /\ UNCHANGED detector

-----------------------------------------------------------------------------
(* KWinDisplayBrightness.                                                  *)

\* The constructor.
newDisplay(output) ==
    [label |-> output.label, desiredBrightness |-> output.brightness,
     desiredDimming |-> output.dimming, inhibitChangeSignal |-> FALSE]

\* The displays whose brightnessChanged is handled as libkscreen writes
\* `outputs` to the daemon's copy.
handleBrightnessChanged(outputs) ==
    {o \in DOMAIN displays :
        /\ ~displays[o].inhibitChangeSignal
        /\ config[o].status # "gone" /\ outputs[o].status # "gone"
        /\ config[o].brightness # outputs[o].brightness}

\* Mutant: what KWin announced during the operation is not looked at.
setConfigOperationDoneQuietly == {}

\* setConfigOperationDone: the displays that found something else than they
\* had asked for.
setConfigOperationDone ==
    {o \in DOMAIN displays : displays[o].desiredBrightness # config[o].brightness}

applyPendingBrightness(o) ==
    [config[o] EXCEPT !.brightness = displays[o].desiredBrightness,
                      !.dimming = displays[o].desiredDimming]

-----------------------------------------------------------------------------
(* KWinDisplayDetector.                                                    *)

\* Those that checkOutputs manages once `outputs` is the configuration.
Managed(outputs) == {o \in Outputs : outputs[o].status = "capable"}

\* libkscreen keeps the output when the monitor behind it is another one.
Recreated(outputs) ==
    {o \in Managed(outputs) \cap DOMAIN displays : displays[o].label # outputs[o].label}

\* Mutant: an output that loses its brightness control stays dimmed.
UndimmedNone(outputs) == {}

\* Nothing would undim these once they are no longer managed.
Undimmed(outputs) ==
    {o \in DOMAIN displays : outputs[o].status = "incapable" /\ outputs[o].dimming # 1}

checkedOutputs(outputs) ==
    [o \in Outputs |-> IF o \in Undimmed(outputs) THEN [outputs[o] EXCEPT !.dimming = 1]
                       ELSE outputs[o]]

scheduleSetConfig(wanted) ==
    /\ setConfigTimer' = (setConfigTimer \/ wanted)
    /\ setConfigOutOfDate' = (setConfigOutOfDate \/ (wanted /\ setConfigOp))

setConfig ==
    /\ config' = [o \in Outputs |-> IF o \in DOMAIN displays THEN applyPendingBrightness(o)
                                    ELSE config[o]]
    /\ displays' = [o \in DOMAIN displays |-> [displays[o] EXCEPT !.inhibitChangeSignal = TRUE]]
    /\ request' = config'
    /\ setConfigOp' = TRUE /\ setConfigOutOfDate' = FALSE

setConfigTimeout ==
    /\ setConfigTimer /\ setConfigTimer' = FALSE
    /\ IF setConfigOp
       THEN UNCHANGED <<config, displays, request, setConfigOp, setConfigOutOfDate>>
       ELSE setConfig
    /\ UNCHANGED <<kwin, finished, updates>>
=============================================================================
