-------------------------- MODULE BacklightBrightness --------------------------
(***************************************************************************)
(* The brightness of the built-in screen                                   *)
(* (daemon/controllers/backlightbrightness.cpp): requests go to a          *)
(* privileged helper that writes sysfs, one job at a time, and only the    *)
(* latest request that came in meanwhile is remembered.  Every write of    *)
(* sysfs causes a udev event; its handler reads the brightness of that     *)
(* moment and has to tell the daemon's own changes from those of other     *)
(* programs, because only the latter are to be reported to the compositor. *)
(*                                                                         *)
(* The handlers run on one thread, each to its end; the helper, the kernel *)
(* and other programs run beside them.  Job results come over D-Bus and    *)
(* events over netlink: neither waits for the other, and other programs    *)
(* write whenever they like.                                               *)
(*                                                                         *)
(* Abstractions.  Events carry no value, so they are counted.  Requests    *)
(* out of range are left out, as is the detection of the device.           *)
(***************************************************************************)
EXTENDS Integers

CONSTANTS MaxBrightness,  \* m_maxBrightness
          MaxSets,        \* bound: requests
          MaxOthers,      \* bound: changes by other programs
          NoJob

Levels == 0 .. MaxBrightness
Unset == -1
Jobs == [value : Levels, state : {"started", "written", "failed"}]

ASSUME BacklightAssumption ==
    /\ MaxBrightness \in Nat /\ MaxSets \in Nat /\ MaxOthers \in Nat
    /\ NoJob \notin Jobs

VARIABLES
    \* kernel, helper and other programs
    actual,       \* the brightness in sysfs
    uevents,      \* udev events under way
    job,          \* the setbrightness job; NoJob if not m_isWaitingForKAuthJob
    sets,         \* requests so far
    others,       \* changes by other programs so far
    \* BacklightBrightness
    observed,     \* m_observedBrightness
    requested,    \* m_requestedBrightness
    executed,     \* m_executedBrightness
    expectedMin,  \* m_expectedMinBrightness
    expectedMax,  \* m_expectedMaxBrightness
    \* the compositor
    told,         \* the brightness it has asked for or was told of last
    \* history
    wanted,       \* the last request, Unset once it was taken back: its job failed, or
                  \* the compositor was told of another brightness
    unsure        \* a job has failed, or another program's write looked like one of the
                  \* daemon's own; until the compositor asks anew, or is told of a change
                  \* by others, with nothing under way

sysfs == <<actual, uevents>>
counts == <<sets, others>>
tracked == <<executed, expectedMin, expectedMax>>
history == <<wanted, unsure>>
backlightVars == <<sysfs, counts, job, observed, requested, tracked, told, history>>

AtRest == job = NoJob /\ uevents = 0

-----------------------------------------------------------------------------

BacklightInit ==
    /\ actual \in Levels /\ uevents = 0
    /\ job = NoJob
    /\ sets = 0 /\ others = 0
    /\ observed = actual /\ requested = actual /\ executed = actual
    /\ expectedMin = Unset /\ expectedMax = Unset
    /\ told = actual
    /\ wanted = Unset /\ unsure = FALSE

Lower(a, b)  == IF a < b THEN a ELSE b
Higher(a, b) == IF a > b THEN a ELSE b

\* From where changes towards value are expected; a bound that is set stays.
Expect(value) ==
    /\ expectedMin' = IF value > executed /\ expectedMin = Unset
                      THEN Lower(observed, executed) ELSE expectedMin
    /\ expectedMax' = IF value < executed /\ expectedMax = Unset
                      THEN Higher(observed, executed) ELSE expectedMax

\* Start the job that writes value.
Execute(value) ==
    /\ executed' = value
    /\ Expect(value)
    /\ job' = [value |-> value, state |-> "started"]

\* The compositor asks for value; while a job runs it is only remembered.
setBrightness(value) ==
    /\ sets < MaxSets
    /\ sets' = sets + 1
    /\ requested' = value /\ told' = value
    /\ IF job = NoJob THEN Execute(value) ELSE UNCHANGED <<job, tracked>>
    /\ wanted' = value /\ unsure' = (unsure /\ ~AtRest)
    /\ UNCHANGED <<sysfs, others, observed>>

\* The helper writes sysfs, or the job fails before that.
HelperWrites ==
    /\ job # NoJob /\ job.state = "started"
    /\ job' = [job EXCEPT !.state = "written"]
    /\ actual' = job.value
    /\ uevents' = uevents + 1
    /\ UNCHANGED <<counts, observed, requested, tracked, told, history>>

HelperFails ==
    /\ job # NoJob /\ job.state = "started"
    /\ job' = [job EXCEPT !.state = "failed"]
    /\ UNCHANGED <<sysfs, counts, observed, requested, tracked, told, history>>

\* Mutant: a request that came in meanwhile is forgotten.
resultForgetting ==
    /\ job # NoJob /\ job.state = "written"
    /\ job' = NoJob
    /\ UNCHANGED <<sysfs, counts, observed, requested, tracked, told, history>>

\* The result of the job: a request that came in meanwhile is executed now.
onResult ==
    /\ job # NoJob /\ job.state = "written"
    /\ IF requested # executed THEN Execute(requested)
                               ELSE job' = NoJob /\ UNCHANGED tracked
    /\ UNCHANGED <<sysfs, counts, observed, requested, told, history>>

\* The job failed: nothing is tried again or taken back.  What is announced is
\* the observed brightness, but ExternalBrightnessControl, which listens, sends
\* the compositor brightness(), which is the requested one.
onError ==
    /\ job # NoJob /\ job.state = "failed"
    /\ job' = NoJob
    /\ told' = requested
    /\ wanted' = Unset /\ unsure' = TRUE
    /\ UNCHANGED <<sysfs, counts, observed, requested, tracked>>

Lowest  == IF expectedMin = Unset THEN observed ELSE Lower(observed, expectedMin)
Highest == Higher(observed, expectedMax)

\* Is value, to onDeviceChanged, one on the way of a change of the daemon's own?
OnTheWay(value) ==
    \/ Lowest <= value /\ value < executed
    \/ executed < value /\ value <= Highest

\* The daemon will not write by itself what another program writes over.
JobWritten == job = NoJob \/ job.state = "written"

\* Another program writes sysfs.
OtherWrites(value) ==
    /\ others < MaxOthers
    /\ others' = others + 1
    /\ actual' = value
    /\ uevents' = uevents + 1
    /\ unsure' = (unsure \/ (JobWritten /\ OnTheWay(value)))
    /\ UNCHANGED <<sets, job, observed, requested, tracked, told, wanted>>

\* Nothing is reported, and what was requested stands.
Quiet == UNCHANGED <<requested, told, wanted, unsure>>

\* Mutant: the request is left as it was, and so is what the compositor knows.
reportOnly ==
    /\ executed' = actual
    /\ expectedMin' = Unset /\ expectedMax' = Unset
    /\ Quiet

\* externalBrightnessChangeObserved: the brightness counts as requested, and the
\* compositor is told.
ReportExternal ==
    /\ requested' = actual /\ executed' = actual
    /\ expectedMin' = Unset /\ expectedMax' = Unset
    /\ told' = actual
    /\ wanted' = Unset /\ unsure' = (unsure /\ ~(job = NoJob /\ uevents = 1))

\* What an event means that shows a brightness above, or below, the last one.
OnBrighter ==
    \/ /\ executed >= actual
       /\ expectedMin' = Unset
       /\ UNCHANGED <<executed, expectedMax>> /\ Quiet
    \/ /\ executed < actual /\ expectedMax >= actual
       /\ UNCHANGED tracked /\ Quiet
    \/ /\ executed < actual /\ expectedMax < actual
       /\ ReportExternal

OnDarker ==
    \/ /\ executed <= actual
       /\ expectedMax' = Unset
       /\ UNCHANGED <<executed, expectedMin>> /\ Quiet
    \/ /\ executed > actual /\ expectedMin # Unset /\ expectedMin <= actual
       /\ UNCHANGED tracked /\ Quiet
    \/ /\ executed > actual /\ (expectedMin = Unset \/ expectedMin > actual)
       /\ ReportExternal

\* A udev event, with the brightness of the moment it is handled.
onDeviceChanged ==
    /\ uevents > 0
    /\ uevents' = uevents - 1
    /\ observed' = actual
    /\ \/ actual = observed /\ UNCHANGED tracked /\ Quiet
       \/ actual > observed /\ OnBrighter
       \/ actual < observed /\ OnDarker
    /\ UNCHANGED <<actual, counts, job>>

-----------------------------------------------------------------------------

BacklightNext ==
    \/ \E value \in Levels : setBrightness(value) \/ OtherWrites(value)
    \/ HelperWrites \/ HelperFails
    \/ onResult \/ onError
    \/ onDeviceChanged

BacklightSpec == BacklightInit /\ [][BacklightNext]_backlightVars

-----------------------------------------------------------------------------
(* Properties *)

BacklightTypeOK ==
    /\ actual \in Levels /\ uevents \in Nat
    /\ sets \in 0 .. MaxSets /\ others \in 0 .. MaxOthers
    /\ job \in Jobs \cup {NoJob}
    /\ observed \in Levels /\ requested \in Levels /\ executed \in Levels
    /\ expectedMin \in Levels \cup {Unset} /\ expectedMax \in Levels \cup {Unset}
    /\ told \in Levels
    /\ wanted \in Levels \cup {Unset} /\ unsure \in BOOLEAN

\* Once all is quiet, what the compositor asked for last, or was told of last, is
\* what the screen shows: in whatever order requests, results, events and writes by
\* others came, no write by others goes unnoticed and no request is lost unless the
\* compositor is told of another brightness (setBrightness, onDeviceChanged).  The
\* exceptions are a failed job, and a write by others that onDeviceChanged cannot
\* tell from the daemon's own, as it lies on the way of one (unsure).
BelievesActual == AtRest /\ ~unsure => told = actual

-----------------------------------------------------------------------------
(* The promise kept to the compositor.                                     *)

\* What may still be written: the value of a job that has not, and the request.
Requested == IF wanted = Unset THEN <<>> ELSE <<wanted>>
Underway ==
    IF job # NoJob /\ job.state = "started"
    THEN IF wanted \in {Unset, job.value} THEN <<job.value>> ELSE <<job.value, wanted>>
    ELSE Requested

Promise == INSTANCE BrightnessPromise WITH
               Brightness <- Levels,
               shown      <- actual,
               object     <- 1,
               underway   <- Underway,
               settled    <- wanted # Unset /\ AtRest /\ ~unsure,
               excused    <- wanted = Unset \/ unsure

\* Jobs, results, events and writes by others keep the promise, in whatever order
\* they come: no request is written after a newer one (setBrightness: "Remember
\* m_requestedBrightness for later and handle it in the result handler"), and once
\* all is quiet the screen has the last one, with the exceptions of BelievesActual.
\* A request is taken back if its job fails or the compositor is told of another
\* brightness.  That also happens to one when an event of an older job is read so
\* late that onDeviceChanged takes it for a change by others.
KeepsPromise == Promise!PromiseSpec
=============================================================================
