--------------------------- MODULE ScreenBrightness ---------------------------
(***************************************************************************)
(* The brightness of the screens: ScreenBrightnessController               *)
(* (screenbrightnesscontroller.cpp), what the daemon offers on the bus     *)
(* (powerdevilscreenbrightnessagent.cpp, brightnesscontrol.cpp), the       *)
(* profile's brightness (screenbrightnesscontrol.cpp), and the applet that *)
(* shows it (applets/brightness/plugin/screenbrightnesscontrol.cpp and     *)
(* screenbrightnessdisplaymodel.cpp).                                      *)
(*                                                                         *)
(* The controller tracks a value for each display.  It changes when        *)
(* somebody asks for it, when KWin tells of another one, and when the      *)
(* displays are listed anew.  The applet has a copy of its own, which it   *)
(* changes at once when its slider is moved.                               *)
(*                                                                         *)
(* Abstractions.  The first detector is KWin's, whose displays are the     *)
(* only ones the controller changes itself (the others go to               *)
(* ExternalBrightnessController).  Ratios are multiples of one Grain-th of *)
(* a level, counted: full brightness is MaxBrightness * Grain.  One        *)
(* dimming id, as the program has.  Indicators are left out.  The daemon   *)
(* and the applet stay on the bus.                                         *)
(***************************************************************************)
EXTENDS KWinBrightness, SequencesExt

CONSTANTS Internal,     \* the outputs that are laptop panels
          Grain,        \* how finely ratios are told apart
          MaxEvents     \* bound: what the user and the world do

ASSUME ScreenAssumption == Internal \subseteq Outputs /\ Grain \in Nat \ {0} /\ MaxEvents \in Nat

NoValue == MaxBrightness + 1      \* no brightness configured, none announced

VARIABLES
    \* ScreenBrightnessController
    tracked,        \* m_displaysById: output -> [value, trackingError], the error a ratio
    dimmingRatio,   \* m_dimmingLimits: 0 while dimmed, else 1
    \* ScreenBrightnessControl, BrightnessControl, ScreenBrightnessAgent
    configuredBrightness,
    lastBrightness, \* what the old interface announced last
    displayChildren, nextDisplayIndex,
    \* the session bus
    calls,          \* from the applet to the daemon
    bus,            \* from the daemon to the applet
    \* the applet: ScreenBrightnessControl and ScreenBrightnessDisplayModel
    knownNames, shownNames, displayData,
    querying,       \* what queryAndUpdateDisplays waits for, and is left to ask
    recheck,
    changeWatcher,  \* <<>>, or the call of SetBrightness being watched
    \* history
    affected,       \* the displays, with their labels, that setDimmingRatio has dimmed
    overlapped,     \* a configuration was sent that the outputs' changes had overtaken
    crossed,        \* the applet was told of a change while it made one
    events          \* bound

controller == <<tracked, dimmingRatio, affected, configuredBrightness, lastBrightness,
                displayChildren, nextDisplayIndex>>
model == <<knownNames, shownNames, displayData>>
applet == <<model, querying, recheck, changeWatcher, crossed>>
vars == <<outside, detector, controller, calls, bus, applet, overlapped, events>>

InOrder(S) == CHOOSE s \in [1 .. Cardinality(S) -> S] :
                  \A i, j \in 1 .. Cardinality(S) : i < j => s[i] < s[j]
Ids == InOrder(DOMAIN tracked)      \* m_sortedDisplayIds
First(S) == CHOOSE o \in S : \A i \in S : o <= i
Names == [i \in 1 .. Len(Ids) |-> displayChildren[Ids[i]]]   \* DisplaysDBusNames

Idle == [for |-> "nothing", todo |-> <<>>]

\* The daemon is on the bus, and the applet has asked it for the displays.
Init ==
    /\ KWinInit
    /\ tracked = [o \in DOMAIN displays |-> [value |-> kwin[o].brightness, trackingError |-> 0]]
    /\ dimmingRatio = 1 /\ affected = {} /\ configuredBrightness = NoValue
    /\ lastBrightness = IF tracked = <<>> THEN NoValue ELSE tracked[First(DOMAIN tracked)].value
    /\ displayChildren = [o \in DOMAIN tracked |-> Cardinality({i \in DOMAIN tracked : i <= o})]
    /\ nextDisplayIndex = Cardinality(DOMAIN tracked) + 1
    /\ calls = <<>> /\ bus = <<>>
    /\ knownNames = Names /\ shownNames = Names
    /\ displayData = [n \in 1 .. Len(Names) |-> tracked[Ids[n]].value]
    /\ querying = Idle /\ recheck = FALSE /\ changeWatcher = <<>>
    /\ overlapped = FALSE /\ crossed = FALSE /\ events = 0

\* Bounds: the number of events, what may be unread by the applet when there
\* is another one, and nothing new after one of the histories above, only
\* what follows from it.
Backlog == 1
Happens ==
    /\ events < MaxEvents /\ events' = events + 1 /\ ~overlapped /\ ~crossed
    /\ Len(bus) + Len(calls) <= Backlog

-----------------------------------------------------------------------------
(* Announcing.  changed maps the displays whose tracked value changes to   *)
(* the new [value, trackingError].                                         *)

\* ScreenBrightnessAgent::onBrightnessChanged
changedSignals(changed, client) ==
    LET ids == InOrder(DOMAIN changed \cap DOMAIN displayChildren)
    IN [i \in 1 .. Len(ids) |->
          [what |-> "changed", name |-> displayChildren[ids[i]], value |-> changed[ids[i]].value,
           client |-> client]]

\* BrightnessControl::onBrightnessChangedFromController hears of the first display.
legacyChanged(changed) ==
    LET first == First(DOMAIN tracked)
    IN lastBrightness' = IF DOMAIN tracked # {} /\ first \in DOMAIN changed THEN changed[first].value
                         ELSE lastBrightness

With(changed) == [o \in DOMAIN tracked |-> IF o \in DOMAIN changed THEN changed[o] ELSE tracked[o]]

Track(changed, client) ==
    /\ tracked' = With(changed)
    /\ bus' = bus \o changedSignals(changed, client)
    /\ legacyChanged(changed)

\* Those of `wanted` (display -> value) that are news.
News(wanted) == {o \in DOMAIN wanted : wanted[o] # tracked[o].value}

\* DisplayBrightness::setBrightness on every display of wanted.
setDisplays(wanted) ==
    /\ displays' = [o \in DOMAIN displays |->
                      IF o \in DOMAIN wanted
                      THEN [displays[o] EXCEPT !.desiredBrightness = wanted[o]] ELSE displays[o]]
    /\ scheduleSetConfig(wanted # <<>>)

\* ScreenBrightnessController::setBrightness on each display of wanted
setBrightness(wanted, client) ==
    LET bounded == [o \in DOMAIN wanted |-> Bound(0, wanted[o], MaxBrightness)]
    IN /\ Track([o \in News(bounded) |-> [value |-> bounded[o], trackingError |-> 0]], client)
       /\ setDisplays(bounded)

\* BrightnessLogic::valueAsRatio and valueFromRatio, which rounds to a level
valueAsRatio(value) == value * Grain
valueFromRatio(ratio) == Rounded(Bound(0, ratio, MaxBrightness * Grain), Grain)

\* adjustBrightnessRatio on every display: what the bounds or the rounding take
\* away is the error, which is kept of those that do not change as well.
adjustBrightnessRatio(delta) ==
    LET target == [o \in DOMAIN tracked |->
                     valueAsRatio(tracked[o].value) + delta + tracked[o].trackingError]
        bounded == [o \in DOMAIN tracked |-> valueFromRatio(target[o])]
    IN /\ tracked' = [o \in DOMAIN tracked |->
                        [value |-> bounded[o], trackingError |-> target[o] - valueAsRatio(bounded[o])]]
       /\ LET news == [o \in News(bounded) |-> tracked'[o]]
          IN bus' = bus \o changedSignals(news, "") /\ legacyChanged(news)
       /\ setDisplays(bounded)

-----------------------------------------------------------------------------
(* The users of the controller, other than the applet.                     *)

others == <<outside, config, setConfigOp, configuredBrightness, displayChildren,
            nextDisplayIndex, calls, applet, overlapped>>

\* adjustBrightnessRatio for all displays, if one has room
AdjustBrightnessRatio(delta) ==
    /\ Happens
    /\ \E o \in DOMAIN tracked : IF delta > 0 THEN tracked[o].value < MaxBrightness ELSE tracked[o].value > 0
    /\ adjustBrightnessRatio(delta)
    /\ UNCHANGED <<others, dimmingRatio, affected>>

\* adjustBrightnessStep: the step of the first display that has one is the
\* ratio by which all are adjusted.
adjustBrightnessStep(adjustment) ==
    LET stepped(o) == adjusted(adjustment, tracked[o].value, 0, MaxBrightness, ScreenSteps(MaxBrightness))
        moving == {o \in DOMAIN tracked : stepped(o) # tracked[o].value}
    IN /\ Happens /\ moving # {}
       /\ adjustBrightnessRatio(valueAsRatio(stepped(First(moving)))
                                 - valueAsRatio(tracked[First(moving)].value))
       /\ UNCHANGED <<others, dimmingRatio, affected>>

\* BrightnessControl::setBrightness, the old interface
SetAllBrightness(value) ==
    /\ Happens /\ tracked # <<>>
    /\ setBrightness([o \in DOMAIN tracked |-> value], "")
    /\ UNCHANGED <<others, dimmingRatio, affected>>

\* DisplayBrightness::setDimmingMultiplier on the displays of S
setDimmingMultiplier(disps, S, ratio) ==
    /\ displays' = [o \in DOMAIN disps |-> IF o \in S THEN [disps[o] EXCEPT !.desiredDimming = ratio]
                                           ELSE disps[o]]
    /\ scheduleSetConfig(\E o \in S : disps[o].desiredDimming # ratio)

setDimmingRatio(ratio) ==
    /\ Happens /\ dimmingRatio # ratio /\ dimmingRatio' = ratio
    /\ setDimmingMultiplier(displays, DOMAIN tracked, ratio)
    /\ affected' = IF ratio = 1 THEN affected
                   ELSE affected \cup {<<o, displays[o].label>> : o \in DOMAIN tracked}
    /\ UNCHANGED <<others, tracked, lastBrightness, bus>>

\* ScreenBrightnessControl: a profile with this brightness is loaded, or one
\* without; a more conservative one does not make a screen brighter.
onProfileLoad(value, isNewProfileMoreConservative) ==
    /\ Happens /\ configuredBrightness' = value
    /\ LET wanted == {o \in DOMAIN tracked \cap Internal :
                         /\ value # NoValue
                         /\ ~(isNewProfileMoreConservative /\ tracked[o].value < value)}
       IN setBrightness([o \in wanted |-> value], "")
    /\ UNCHANGED <<outside, config, setConfigOp, dimmingRatio, affected, displayChildren,
                   nextDisplayIndex, calls, applet, overlapped>>

-----------------------------------------------------------------------------
(* KWin and its announcements.                                             *)

untouched == <<dimmingRatio, affected, configuredBrightness, calls, applet>>

KWinChangesOutput(o, status, label) ==
    /\ Happens /\ OutputChanges(o, status, label)
    /\ overlapped' = (overlapped \/ Busy)
    /\ UNCHANGED <<controller, calls, bus, applet>>

KWinChangesBrightness(o, value) ==
    /\ Happens /\ BrightnessChanges(o, value)
    /\ overlapped' = (overlapped \/ (setConfigOp /\ Stale(kwin')))
    /\ UNCHANGED <<controller, calls, bus, applet>>

KWinAppliesRequest ==
    /\ AppliesRequest
    /\ UNCHANGED <<controller, calls, bus, applet, overlapped, events>>

SetConfig ==
    /\ setConfigTimeout
    /\ overlapped' = (overlapped \/ \E i \in DOMAIN updates : Stale(updates[i]))
    /\ UNCHANGED <<controller, calls, bus, applet, events>>

\* Mutant: what a display had to stay behind outlives another's change.
ObservedKeeping(S, outputs) ==
    [o \in News([i \in S |-> outputs[i].brightness]) |->
        [tracked[o] EXCEPT !.value = outputs[o].brightness]]

\* onExternalBrightnessChangeObserved by the displays of S
Observed(S, outputs) ==
    [o \in News([i \in S |-> outputs[i].brightness]) |->
        [value |-> outputs[o].brightness, trackingError |-> 0]]

Hears(disps, S, outputs) ==
    [o \in DOMAIN disps |-> IF o \in S THEN [disps[o] EXCEPT !.desiredBrightness = outputs[o].brightness]
                            ELSE disps[o]]

\* A configuration that lists the same displays.
SameDisplays(outputs) ==
    LET observed == handleBrightnessChanged(outputs)
    IN /\ displays' = Hears(displays, observed, outputs)
       /\ Track(Observed(observed, outputs), "")
       /\ scheduleSetConfig(FALSE)
       /\ UNCHANGED <<displayChildren, nextDisplayIndex>>

\* setDimmingMultiplier on the displays that were added or replaced
DimmedAsOthers(disps, S) ==
    [o \in DOMAIN disps |-> IF o \in S THEN [disps[o] EXCEPT !.desiredDimming = dimmingRatio]
                            ELSE disps[o]]

\* insertDisplayChild for each display of `added`
insertDisplayChildren(children, added) ==
    [o \in DOMAIN children \cup added |->
        IF o \in added THEN nextDisplayIndex + Cardinality({i \in added : i < o}) ELSE children[o]]

\* ScreenBrightnessControl::displayAdded: the brightness that the profile
\* gives to new panels
displayAdded(added) ==
    [o \in {o \in added \cap Internal : configuredBrightness # NoValue} |-> configuredBrightness]

\* onDetectorDisplaysChanged: `fresh` displays are new objects, those of
\* `added` were not there before.
onDetectorDisplaysChanged(outputs) ==
    LET before == With(Observed(handleBrightnessChanged(outputs), outputs))
        now == Managed(outputs)
        added == now \ DOMAIN tracked
        replaced == Recreated(outputs)
        fresh == added \cup replaced
        valueChanged == {o \in replaced : before[o].value # outputs[o].brightness}
        created == [o \in now |-> IF o \in fresh THEN newDisplay(outputs[o])
                                  ELSE Hears(displays, handleBrightnessChanged(outputs), outputs)[o]]
        profile == displayAdded(added)
        shown == [o \in now |->
                    IF o \in DOMAIN profile THEN [value |-> profile[o], trackingError |-> 0]
                    ELSE [value |-> outputs[o].brightness,
                          trackingError |-> IF o \in fresh THEN 0 ELSE before[o].trackingError]]
        first == First(now)
    IN /\ tracked' = shown
       /\ displays' = [o \in now |->
                         IF o \in DOMAIN profile
                         THEN [DimmedAsOthers(created, fresh)[o] EXCEPT !.desiredBrightness = profile[o]]
                         ELSE DimmedAsOthers(created, fresh)[o]]
       /\ scheduleSetConfig(\/ Undimmed(outputs) # {} \/ profile # <<>>
                            \/ \E o \in fresh : created[o].desiredDimming # dimmingRatio)
       /\ displayChildren' = insertDisplayChildren([o \in now \ added |-> displayChildren[o]], added)
       /\ nextDisplayIndex' = nextDisplayIndex + Cardinality(added)
       /\ bus' = bus \o changedSignals(Observed(handleBrightnessChanged(outputs), outputs), "")
                     \o (IF now # DOMAIN tracked THEN <<[what |-> "propertiesChanged"]>> ELSE <<>>)
                     \o changedSignals([o \in valueChanged |-> shown[o]], "")
       /\ lastBrightness' = IF now = {} THEN lastBrightness
                            ELSE IF DOMAIN tracked = {} \/ first # First(DOMAIN tracked) \/ first \in valueChanged
                            THEN shown[first].value
                            ELSE IF first \in DOMAIN Observed(handleBrightnessChanged(outputs), outputs)
                            THEN before[first].value ELSE lastBrightness

ReadConfiguration ==
    /\ updates # <<>> /\ updates' = Tail(updates)
    /\ LET outputs == updates[1]
       IN /\ config' = checkedOutputs(outputs)
          /\ overlapped' = (overlapped \/ (Busy /\ Stale(outputs)))
          /\ IF Managed(outputs) = DOMAIN displays /\ Recreated(outputs) = {}
             THEN SameDisplays(outputs) ELSE onDetectorDisplaysChanged(outputs)
    /\ UNCHANGED <<kwin, request, finished, setConfigOp, untouched, events>>

\* Mutant: only a display that found something else listens again.
ListensIfChanged(disps, S) ==
    [o \in DOMAIN disps |-> IF o \in S THEN [disps[o] EXCEPT !.inhibitChangeSignal = FALSE] ELSE disps[o]]

\* Every display listens to KWin again; those of S found something else.
Listens(disps, S) ==
    [o \in DOMAIN disps |-> [disps[o] EXCEPT !.inhibitChangeSignal = FALSE]]

\* KWinDisplayDetector::setConfigDone
SetConfigDone ==
    /\ finished /\ finished' = FALSE
    /\ IF setConfigOutOfDate
       THEN setConfig /\ UNCHANGED <<tracked, bus, lastBrightness>>
       ELSE /\ setConfigOp' = FALSE
            /\ displays' = Listens(Hears(displays, setConfigOperationDone, config), setConfigOperationDone)
            /\ Track(Observed(setConfigOperationDone, config), "")
            /\ UNCHANGED <<config, request, setConfigOutOfDate>>
    /\ UNCHANGED <<kwin, updates, setConfigTimer, displayChildren, nextDisplayIndex, untouched, overlapped, events>>

-----------------------------------------------------------------------------
(* The daemon serves the applet.                                           *)

DisplayOf(name) == {o \in DOMAIN displayChildren : displayChildren[o] = name}

Replies(reply) == bus' = Append(bus, reply)

ServeQuery ==
    /\ calls # <<>> /\ calls' = Tail(calls)
    /\ LET call == calls[1] IN
       \/ call.what = "names" /\ Replies([what |-> "names", names |-> Names])
       \/ /\ call.what = "data"
          /\ Replies([what |-> "data", name |-> call.name,
                      value |-> IF DisplayOf(call.name) = {} THEN NoValue
                                ELSE tracked[CHOOSE o \in DisplayOf(call.name) : TRUE].value])
    /\ UNCHANGED <<outside, detector, controller, applet, overlapped, events>>

\* ScreenBrightnessDisplay::SetBrightnessWithContext
ServeSetBrightness ==
    /\ calls # <<>> /\ calls[1].what = "set" /\ calls' = Tail(calls)
    /\ LET call == calls[1]
           wanted == [o \in DisplayOf(call.name) |-> Bound(0, call.value, MaxBrightness)]
           news == [o \in News(wanted) |-> [value |-> wanted[o], trackingError |-> 0]]
       IN /\ tracked' = With(news)
          /\ legacyChanged(news)
          /\ setDisplays(wanted)
          /\ bus' = (bus \o changedSignals(news, "applet"))
                    \o <<[what |-> "set", serial |-> call.serial, name |-> call.name, ok |-> wanted # <<>>]>>
    /\ UNCHANGED <<outside, config, setConfigOp, dimmingRatio, affected, configuredBrightness,
                   displayChildren, nextDisplayIndex, applet, overlapped, events>>

-----------------------------------------------------------------------------
(* The applet's list of displays.                                          *)

\* ScreenBrightnessDisplayModel::updateRows: the rows for the names of
\* `known` with data, made from the rows there are.
updateRow(s, name, has) ==
    IF s.row <= Len(s.rows) /\ s.rows[s.row] = name
    THEN IF name \in has THEN [s EXCEPT !.row = @ + 1]
         ELSE [s EXCEPT !.rows = RemoveAt(@, s.row)]
    ELSE IF name \in has THEN [row |-> s.row + 1, rows |-> InsertAt(s.rows, s.row, name)]
    ELSE s

updateRows(known, has, rows) ==
    LET updated == FoldLeft(LAMBDA s, name : updateRow(s, name, has), [row |-> 1, rows |-> rows], known)
    IN SubSeq(updated.rows, 1, updated.row - 1)

\* The rows are the names with data in their order, whatever was there.
ASSUME UpdateRowsFilters ==
    \A known, rows \in UNION {[1 .. n -> 1 .. 3] : n \in 0 .. 3} : \A has \in SUBSET (1 .. 3) :
        IsInjective(known) /\ IsInjective(rows)
            => updateRows(known, has, rows) = SelectSeq(known, LAMBDA name : name \in has)

modelBecomes(known, data) ==
    LET filtered == [n \in DOMAIN data \cap ToSet(known) |-> data[n]]
    IN /\ knownNames' = known /\ displayData' = filtered
       /\ shownNames' = updateRows(known, DOMAIN filtered, shownNames)

\* knownDisplayNamesWithMissingData
Missing(known, data) ==
    LET places == InOrder({i \in DOMAIN known : known[i] \notin DOMAIN data})
    IN [i \in DOMAIN places |-> known[places[i]]]

\* Mutant: a change of the displays during a query is not asked for.
QueryDisplaysOnce ==
    IF querying.for # "nothing" THEN UNCHANGED <<recheck, querying, calls>>
    ELSE /\ recheck' = FALSE /\ querying' = [Idle EXCEPT !.for = "names"]
         /\ calls' = Append(calls, [what |-> "names"])

\* queryAndUpdateDisplays, when it is entered
QueryDisplays ==
    IF querying.for # "nothing" THEN recheck' = TRUE /\ UNCHANGED <<querying, calls>>
    ELSE /\ recheck' = FALSE /\ querying' = [Idle EXCEPT !.for = "names"]
         /\ calls' = Append(calls, [what |-> "names"])

\* queryAndUpdateDisplays, having still to ask for the names in todo
AskOn(todo) ==
    IF todo # <<>>
    THEN /\ querying' = [for |-> "data", todo |-> todo] /\ UNCHANGED recheck
         /\ calls' = Append(calls, [what |-> "data", name |-> todo[1]])
    ELSE IF recheck
    THEN /\ querying' = [Idle EXCEPT !.for = "names"] /\ recheck' = FALSE
         /\ calls' = Append(calls, [what |-> "names"])
    ELSE querying' = Idle /\ UNCHANGED <<recheck, calls>>

\* The applet has set the brightness of `name` and not heard all of it.
Outstanding(name) ==
    \/ \E i \in DOMAIN calls : calls[i].what = "set" /\ calls[i].name = name
    \/ \E i \in DOMAIN bus : bus[i].what = "set" /\ bus[i].name = name

Reads(what) == bus # <<>> /\ bus[1].what = what /\ bus' = Tail(bus)

served == <<outside, detector, controller, overlapped, events>>

onGlobalPropertiesChanged ==
    /\ Reads("propertiesChanged") /\ QueryDisplays
    /\ UNCHANGED <<served, model, changeWatcher, crossed>>

ReadNames ==
    /\ Reads("names")
    /\ modelBecomes(bus[1].names, displayData)
    /\ AskOn(Missing(bus[1].names, displayData'))
    /\ UNCHANGED <<served, changeWatcher, crossed>>

\* queryAndInsertDisplayData and ScreenBrightnessDisplayModel::setDisplayData
ReadData ==
    /\ Reads("data")
    /\ IF bus[1].value = NoValue \/ bus[1].name \notin ToSet(knownNames) THEN UNCHANGED model
       ELSE modelBecomes(knownNames, [n \in DOMAIN displayData \cup {bus[1].name} |->
                                        IF n = bus[1].name THEN bus[1].value ELSE displayData[n]])
    /\ AskOn(Tail(querying.todo))
    /\ UNCHANGED <<served, changeWatcher, crossed>>

\* ScreenBrightnessDisplayModel::onBrightnessChanged
modelBrightness(name, value) ==
    displayData' = IF name \in DOMAIN displayData THEN [displayData EXCEPT ![name] = value]
                   ELSE displayData

onBrightnessChanged ==
    /\ Reads("changed")
    /\ IF bus[1].client = "applet" THEN UNCHANGED <<displayData, crossed>>
       ELSE /\ modelBrightness(bus[1].name, bus[1].value)
            /\ crossed' = (crossed \/ Outstanding(bus[1].name))
    /\ UNCHANGED <<served, calls, knownNames, shownNames, querying, recheck, changeWatcher>>

\* The slider of a display that is shown is moved.
SetBrightness(name, value) ==
    /\ Happens /\ name \in ToSet(shownNames) /\ displayData[name] # value
    /\ calls' = Append(calls, [what |-> "set", name |-> name, value |-> value, serial |-> events])
    /\ changeWatcher' = <<events, displayData[name]>>
    /\ modelBrightness(name, value)
    /\ UNCHANGED <<outside, detector, controller, overlapped, bus, knownNames, shownNames, querying,
                   recheck, crossed>>

\* The watcher is that of the last call; an error brings the old value back.
SetBrightnessReplied ==
    /\ Reads("set")
    /\ IF changeWatcher # <<>> /\ changeWatcher[1] = bus[1].serial
       THEN /\ IF bus[1].ok THEN UNCHANGED displayData ELSE modelBrightness(bus[1].name, changeWatcher[2])
            /\ changeWatcher' = <<>>
       ELSE UNCHANGED <<displayData, changeWatcher>>
    /\ UNCHANGED <<served, calls, knownNames, shownNames, querying, recheck, crossed>>

-----------------------------------------------------------------------------
\* Bounds: the values that are asked for; a laptop panel is never replaced.
Chosen == {0, MaxBrightness}

World == \/ \E o \in Outputs, status \in {"gone", "incapable", "capable"}, label \in Labels :
                (o \in Internal => label = "A") /\ KWinChangesOutput(o, status, label)
         \/ \E o \in Outputs, value \in Chosen : KWinChangesBrightness(o, value)

User == \/ \E delta \in {MaxBrightness * Grain, 1, -1} : AdjustBrightnessRatio(delta)
        \/ \E adjustment \in {"Increase", "Decrease"} : adjustBrightnessStep(adjustment)
        \/ SetAllBrightness(0)
        \/ \E ratio \in {0, 1} : setDimmingRatio(ratio)
        \/ \E conservative \in BOOLEAN : onProfileLoad(MaxBrightness, conservative)
        \/ onProfileLoad(NoValue, FALSE)
        \/ \E name \in ToSet(shownNames), value \in Chosen : SetBrightness(name, value)

Daemon == SetConfig \/ ReadConfiguration \/ SetConfigDone \/ ServeQuery \/ ServeSetBrightness

Applet == onGlobalPropertiesChanged \/ ReadNames \/ ReadData \/ onBrightnessChanged \/ SetBrightnessReplied

Next == World \/ User \/ Daemon \/ Applet \/ KWinAppliesRequest

Spec == Init /\ [][Next]_vars

-----------------------------------------------------------------------------
Quiet == Settled /\ bus = <<>> /\ calls = <<>>

\* When nothing is under way no display is deaf to what KWin announces.
NotDeaf == Settled => \A o \in DOMAIN displays : ~displays[o].inhibitChangeSignal

\* When nothing is under way KWin dims the displays as the daemon wants, wherever
\* they have been in between, and an output without brightness control is not left
\* dimmed; unless the outputs changed under an operation (overlapped).  It says
\* nothing of a display that is connected for the first time while others are dimmed:
\* setDimmingRatio's comment has it remain at full brightness until another call, but
\* onDetectorDisplaysChanged dims it.
DimmedAsWanted ==
    Settled /\ ~overlapped =>
        \A o \in Outputs :
            /\ kwin[o].status = "capable"
                  /\ (dimmingRatio = 1 \/ <<o, kwin[o].label>> \in affected)
                    => kwin[o].dimming = dimmingRatio
            /\ kwin[o].status = "incapable" => kwin[o].dimming = 1

\* When nothing is under way the daemon tracks what KWin shows, display by
\* display, and the old interface announced the first one's value.  It excepts a
\* configuration that was sent although the outputs had changed (overlapped): a
\* brightness that is set meanwhile may really be lost then.
TrackedIsShown ==
    Settled /\ ~overlapped =>
        /\ DOMAIN tracked = Managed(kwin)
        /\ \A o \in DOMAIN tracked : tracked[o].value = kwin[o].brightness
        /\ tracked # <<>> => lastBrightness = tracked[First(DOMAIN tracked)].value

\* Only a display at the end of its range stays behind what the adjustments add up
\* to by more than the rounding of one value, half a level (trackingError); so fine
\* steps do not pile up an error, and a key pressed later moves any other display at
\* once.  It excepts outputs that changed under an operation (overlapped).
LagsOnlyAtEnds ==
    ~overlapped => \A o \in DOMAIN tracked :
        /\ 2 * tracked[o].trackingError > Grain => tracked[o].value = MaxBrightness
        /\ 2 * tracked[o].trackingError < -Grain => tracked[o].value = 0

\* When nothing is under way the applet shows the displays the daemon has,
\* in their order, with the brightness it tracks.
AppletShows ==
    Quiet => /\ shownNames = Names
             /\ ~overlapped /\ ~crossed =>
                    \A o \in DOMAIN tracked : displayData[displayChildren[o]] = tracked[o].value

=============================================================================
