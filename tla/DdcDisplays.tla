----------------------------- MODULE DdcDisplays -----------------------------
(***************************************************************************)
(* External monitors by DDC/CI: DDCutilPrivateSingleton                    *)
(* (ddcutildetector.cpp), DDCutilDisplay with its BrightnessWorker         *)
(* (ddcutildisplay.cpp), and ExternalBrightnessController                  *)
(* (externalbrightnesscontrol.cpp), by which KWin uses the displays.       *)
(*                                                                         *)
(* The monitors come and go, libddcutil tells of it from a thread of its   *)
(* own, and every access may fail.  A display writes the brightness that   *)
(* KWin requests in a worker thread, later, again when it failed, and      *)
(* gives up in the end; the requests and the results cross.                *)
(*                                                                         *)
(* Abstractions.  A bus is the id of the display on it.  A display object  *)
(* is known by the detection that made it, as its reference is, which the  *)
(* library takes no more after the next detection.  The delay of a timer   *)
(* may be any.  What the destructor waits for in the worker is over before *)
(* it starts.  A request of KWin is heard when it is made.                 *)
(***************************************************************************)
EXTENDS Naturals, Sequences, Functions

CONSTANTS Buses, MaxBrightness,
          MaxEvents     \* bound: what KWin and the monitors do

ASSUME DdcAssumption == MaxBrightness \in Nat \ {0} /\ MaxEvents \in Nat

Values == 0 .. MaxBrightness
NoBrightness == MaxBrightness + 1       \* m_pendingBrightness without a value
MaxRetries == 3                         \* s_backoffRetryIntervals.size()

VARIABLES
    monitor,        \* bus -> [on, brightness, touched]: touched by its own buttons
    refs,           \* the library's detection; older references are not valid
    statusEvents,   \* what its callback emitted and the main thread has not handled
    performedDetection,
    displays,       \* m_displays: bus -> DDCutilDisplay
    pendingDisplays,
    active,         \* KWin offers the protocol
    waylandObjects, \* bus -> the display object that KWin's requests go to
    events          \* bound

vars == <<monitor, refs, statusEvents, performedDetection, displays, pendingDisplays, active,
          waylandObjects, events>>
world == <<monitor, refs, statusEvents, active, events>>

-----------------------------------------------------------------------------
(* A display.                                                              *)

\* The constructor, which has read the brightness or failed to.
newDisplay(b) ==
    [ref |-> refs', brightness |-> monitor[b].brightness, pendingBrightness |-> NoBrightness,
     retryCounter |-> 0, timer |-> FALSE,
     requests |-> <<>>,     \* for the worker
     results |-> <<>>,      \* from it
     failed |-> 0]          \* history: results in a row that were failures

\* scheduleRetryInit
newPending(b) == [newDisplay(b) EXCEPT !.brightness = NoBrightness, !.timer = TRUE]

setBrightness(d, value) ==
    [d EXCEPT !.brightness = value, !.pendingBrightness = NoBrightness, !.retryCounter = 0,
              !.timer = TRUE]

\* ddcBrightnessChangeRequested
Requests(d) == [d EXCEPT !.requests = Append(@, d.pendingBrightness)]

\* The timer of a display that supports brightness has run out.
onSetBrightnessTimeout(d) ==
    LET off == [d EXCEPT !.timer = FALSE]
    IN CASE d.pendingBrightness # d.brightness ->
              Requests([off EXCEPT !.pendingBrightness = d.brightness, !.retryCounter = 0])
         [] d.pendingBrightness = d.brightness /\ d.retryCounter = 0 ->
              [off EXCEPT !.pendingBrightness = NoBrightness]
         [] OTHER -> Requests(off)

GivesUp(d, success) == ~success /\ d.retryCounter = MaxRetries

\* Mutant: the write that succeeded is taken for the last one.
FinishedLast(d, success) ==
    IF success THEN [d EXCEPT !.retryCounter = 0, !.timer = FALSE]
    ELSE [d EXCEPT !.retryCounter = @ + 1, !.timer = TRUE]

\* Mutant: earlier failures are remembered after a success.
FinishedCounting(d, success) ==
    IF success THEN [d EXCEPT !.timer = TRUE]
    ELSE [d EXCEPT !.retryCounter = @ + 1, !.timer = TRUE]

\* A result that does not make it give up.
ddcBrightnessChangeFinished(d, success) ==
    IF success THEN [d EXCEPT !.retryCounter = 0, !.timer = TRUE]
    ELSE [d EXCEPT !.retryCounter = @ + 1, !.timer = TRUE]

Idle(d) == ~d.timer /\ d.requests = <<>> /\ d.results = <<>>

-----------------------------------------------------------------------------
(* The displays and what KWin knows of them.                               *)

\* ExternalBrightnessController::setDisplays for the displays disps: those
\* that are listed are the objects of the list.
setDisplays(disps) ==
    waylandObjects' = IF active' THEN [b \in DOMAIN disps |-> disps[b].ref] ELSE <<>>

Without(f, S) == Restrict(f, DOMAIN f \ S)

removeDisplay(b) ==
    /\ pendingDisplays' = Without(pendingDisplays, {b})
    /\ displays' = Without(displays, {b})
    /\ IF b \in DOMAIN displays THEN setDisplays(displays') ELSE UNCHANGED waylandObjects

\* Mutant: what was tried before goes on being tried.
PendingAfterTrying(found, silent) ==
    [b \in DOMAIN pendingDisplays \cup silent |->
        IF b \in DOMAIN pendingDisplays THEN pendingDisplays[b] ELSE newPending(b)]

\* The displays being tried after a detection that found `found`, and
\* `silent` which did not answer; one that is tried already is kept.
PendingAfter(found, silent) ==
    [b \in (DOMAIN pendingDisplays \ found) \cup silent |->
        IF b \in DOMAIN pendingDisplays THEN pendingDisplays[b] ELSE newPending(b)]

\* detect, from an empty list: any monitor that is on may not answer.
detect ==
    /\ performedDetection' = TRUE
    /\ LET on == {b \in Buses : monitor[b].on}
       IN \E found \in SUBSET on :
            /\ displays' = [b \in found |-> newDisplay(b)]
            /\ pendingDisplays' = PendingAfter(found, on \ found)

Init ==
    /\ monitor \in [Buses -> [on : BOOLEAN, brightness : {0}, touched : {FALSE}]]
    /\ refs = 0 /\ statusEvents = <<>> /\ performedDetection = FALSE
    /\ displays = <<>> /\ pendingDisplays = <<>>
    /\ active = TRUE /\ waylandObjects = <<>>
    /\ events = 0

-----------------------------------------------------------------------------
(* KWin, the monitors and their library.                                   *)

Happens == events < MaxEvents /\ events' = events + 1

unshown == <<displays, pendingDisplays, waylandObjects, performedDetection>>

\* A monitor is connected or wakes up, is disconnected or falls asleep.
displayStatusChanged(b) ==
    /\ Happens
    /\ monitor' = [monitor EXCEPT ![b].on = ~@]
    /\ statusEvents' = Append(statusEvents,
                              [what |-> IF monitor[b].on THEN "removed" ELSE "added", id |-> b])
    /\ UNCHANGED <<unshown, refs, active>>

\* Somebody uses the monitor's own buttons, which nothing tells of.
MonitorButtons(b, value) ==
    /\ Happens /\ monitor[b].on /\ value # monitor[b].brightness
    /\ monitor' = [monitor EXCEPT ![b].brightness = value, ![b].touched = TRUE]
    /\ UNCHANGED <<unshown, refs, statusEvents, active>>

requested_brightness(b, value) ==
    /\ Happens /\ b \in DOMAIN waylandObjects
    /\ displays' = [displays EXCEPT ![b] = setBrightness(@, value)]
    /\ monitor' = [monitor EXCEPT ![b].touched = FALSE]
    /\ UNCHANGED <<refs, statusEvents, performedDetection, pendingDisplays, active, waylandObjects>>

\* KWin goes or comes back.
activeChanged ==
    /\ Happens /\ active' = ~active
    /\ setDisplays(displays)
    /\ UNCHANGED <<monitor, refs, statusEvents, performedDetection, displays, pendingDisplays>>

-----------------------------------------------------------------------------
(* The detector.                                                           *)

\* DDCutilDetector::detect, when the daemon starts
Detect ==
    /\ ~performedDetection
    /\ UNCHANGED world
    /\ detect
    /\ setDisplays(displays')

\* The library may fail to detect again; nothing is listed then.
redetect ==
    /\ statusEvents # <<>> /\ statusEvents[1].what = "added"
    /\ statusEvents' = Tail(statusEvents)
    /\ UNCHANGED <<monitor, active, events>>
    /\ \/ /\ performedDetection /\ refs' = refs + 1
          /\ detect
          /\ setDisplays(displays')
       \/ /\ performedDetection
          /\ displays' = <<>> /\ setDisplays(displays')
          /\ UNCHANGED <<refs, performedDetection, pendingDisplays>>
       \/ ~performedDetection /\ UNCHANGED <<refs, unshown>>

displayRemoved ==
    /\ statusEvents # <<>> /\ statusEvents[1].what = "removed"
    /\ statusEvents' = Tail(statusEvents)
    /\ UNCHANGED <<monitor, refs, performedDetection, active, events>>
    /\ removeDisplay(statusEvents[1].id)

\* Mutant: nobody is told of the display that answered in the end.
retryInitFinishedQuietly(b, d) ==
    /\ pendingDisplays' = Without(pendingDisplays, {b})
    /\ displays' = [i \in DOMAIN displays \cup {b} |-> IF i \in DOMAIN displays THEN displays[i] ELSE d]
    /\ UNCHANGED waylandObjects

\* retryInitFinished(true): inserted, unless there is one already
retryInitFinished(b, d) ==
    /\ pendingDisplays' = Without(pendingDisplays, {b})
    /\ displays' = [i \in DOMAIN displays \cup {b} |-> IF i \in DOMAIN displays THEN displays[i] ELSE d]
    /\ setDisplays(displays')

\* Mutant: the retries are not counted.
RetriesOn(d) == d

\* Another retry has been scheduled.
Retries(d) == [d EXCEPT !.retryCounter = @ + 1]

\* The timer of a display that does not answer yet: it is initialised again.
RetryInit(b) ==
    /\ b \in DOMAIN pendingDisplays /\ UNCHANGED <<world, performedDetection>>
    /\ LET d == pendingDisplays[b] IN
       \/ /\ d.ref = refs /\ monitor[b].on
          /\ retryInitFinished(b, [d EXCEPT !.brightness = monitor[b].brightness, !.retryCounter = 0,
                                            !.timer = FALSE])
       \/ /\ d.retryCounter < MaxRetries
          /\ pendingDisplays' = [pendingDisplays EXCEPT ![b] = Retries(d)]
          /\ UNCHANGED <<displays, waylandObjects>>
       \/ /\ d.retryCounter = MaxRetries
          /\ pendingDisplays' = Without(pendingDisplays, {b})
          /\ UNCHANGED <<displays, waylandObjects>>

-----------------------------------------------------------------------------
(* Writing the brightness.                                                 *)

detected == <<refs, statusEvents, performedDetection, pendingDisplays, active, events>>

SetBrightnessTimeout(b) ==
    /\ b \in DOMAIN displays /\ displays[b].timer
    /\ displays' = [displays EXCEPT ![b] = onSetBrightnessTimeout(@)]
    /\ UNCHANGED <<detected, monitor, waylandObjects>>

\* BrightnessWorker::ddcSetBrightness, in its thread.  A failure may be that
\* of closing the display, after the write.
ddcSetBrightness(b) ==
    /\ b \in DOMAIN displays /\ displays[b].requests # <<>>
    /\ LET d == displays[b]
           Finishes(success) ==
               displays' = [displays EXCEPT ![b].requests = Tail(@), ![b].results = Append(@, success)]
           writes == monitor' = [monitor EXCEPT ![b].brightness = d.requests[1]]
       IN \/ monitor[b].on /\ d.ref = refs /\ writes /\ \E success \in BOOLEAN : Finishes(success)
          \/ UNCHANGED monitor /\ Finishes(FALSE)
    /\ UNCHANGED <<detected, waylandObjects>>

BrightnessChangeFinished(b) ==
    /\ b \in DOMAIN displays /\ displays[b].results # <<>>
    /\ UNCHANGED <<world, performedDetection>>
    /\ LET success == displays[b].results[1]
           d == [displays[b] EXCEPT !.results = Tail(@), !.failed = IF success THEN 0 ELSE @ + 1]
       IN IF GivesUp(d, success)
          THEN removeDisplay(b)
          ELSE /\ displays' = [displays EXCEPT ![b] = ddcBrightnessChangeFinished(d, success)]
               /\ UNCHANGED <<pendingDisplays, waylandObjects>>

-----------------------------------------------------------------------------
World == \/ \E b \in Buses : \/ displayStatusChanged(b)
                             \/ \E value \in Values :
                                    MonitorButtons(b, value) \/ requested_brightness(b, value)
         \/ activeChanged

Detector == Detect \/ redetect \/ displayRemoved

Next == World \/ Detector
        \/ \E b \in Buses : \/ RetryInit(b) \/ SetBrightnessTimeout(b)
                            \/ ddcSetBrightness(b) \/ BrightnessChangeFinished(b)

\* The main thread's event loop, the timers and the workers go on.
Fairness == /\ WF_vars(Detector)
            /\ \A b \in Buses : /\ WF_vars(RetryInit(b)) /\ WF_vars(SetBrightnessTimeout(b))
                                /\ WF_vars(ddcSetBrightness(b)) /\ WF_vars(BrightnessChangeFinished(b))

Spec == Init /\ [][Next]_vars
FairSpec == Spec /\ Fairness

-----------------------------------------------------------------------------
\* A display is offered or being tried, never both: what is tried would
\* otherwise take the place of nothing when it answers, or be removed with
\* the one that works.
OfferedOrTried == DOMAIN displays \cap DOMAIN pendingDisplays = {}

\* KWin's requests go to the displays that are there, the objects of today's
\* list and no destroyed ones.
KWinReachesDisplays ==
    waylandObjects = IF active /\ performedDetection THEN [b \in DOMAIN displays |-> displays[b].ref]
                     ELSE <<>>

\* When a display has nothing more to do, the monitor shows what was
\* requested last, whatever failed and in whatever order the results came.
LastRequestWritten ==
    \A b \in DOMAIN displays :
        Idle(displays[b]) /\ ~monitor[b].touched => monitor[b].brightness = displays[b].brightness

\* A display is given up only after as many failures in a row as there are
\* attempts.
GivenUpAfterFailures ==
    [][\A b \in DOMAIN displays :
          b \notin DOMAIN displays' /\ statusEvents' = statusEvents => displays[b].failed >= MaxRetries]_vars

\* Trying comes to an end: every display is written to or given up.
TryingEnds == <>[](pendingDisplays = <<>> /\ \A b \in DOMAIN displays : Idle(displays[b]))

-----------------------------------------------------------------------------
(* The promise kept to KWin.                                               *)

\* What may still be written: what the worker was sent, and the request.
Underway(b) ==
    IF b \in DOMAIN displays THEN Append(displays[b].requests, displays[b].brightness) ELSE <<>>

Promise(b) == INSTANCE BrightnessPromise WITH
                  Brightness <- Values,
                  shown      <- monitor[b].brightness,
                  object     <- IF b \in DOMAIN displays THEN displays[b].ref + 1 ELSE 0,
                  underway   <- Underway(b),
                  settled    <- b \in DOMAIN displays /\ Idle(displays[b]) /\ ~monitor[b].touched,
                  excused    <- monitor[b].touched

\* Timers, worker and retries keep the promise for each monitor: no request is
\* written after a newer one, and an idle display has the one that came last.
KeepsPromise == [][\A b \in Buses : [Promise(b)!PromiseNext]_(Promise(b)!promiseVars)]_vars
=============================================================================
