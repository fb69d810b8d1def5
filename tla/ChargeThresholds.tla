--------------------------- MODULE ChargeThresholds ---------------------------
(***************************************************************************)
(* Charge thresholds and the battery conservation mode: the privileged     *)
(* helper that reads and writes sysfs                                      *)
(* (daemon/chargethresholdhelper_linux.cpp), the settings page that        *)
(* changes them (kcm/ExternalServiceSettings.cpp), and the daemon, which   *)
(* announces them and reads them anew when the page asks it to             *)
(* (daemon/powerdevilcore.cpp).                                            *)
(*                                                                         *)
(* There may be several batteries with a start and a stop threshold each.  *)
(* The helper writes battery after battery and stops at the first file     *)
(* that it cannot open; the kernel may refuse a value without the helper   *)
(* noticing, since what it writes is flushed when the file is closed.      *)
(* The page waits for the helper in an event loop of its own, in which the *)
(* user goes on editing; the daemon's readings are asynchronous.           *)
(*                                                                         *)
(* Both settings are tuples of numbers, Unsupported where there is none,   *)
(* and go the same ways: kind is "threshold" or "conservationmode".        *)
(*                                                                         *)
(* Abstractions.  A file that cannot be read or holds no valid number      *)
(* counts as missing.  The charge type, which follows the thresholds and   *)
(* which nothing reads, is left out.  While it waits the page neither      *)
(* loads nor saves again.                                                  *)
(***************************************************************************)
EXTENDS Integers, Sequences

Unsupported == -1
Thresholds == 0 .. 100
LimitKinds == {"threshold", "conservationmode"}

VARIABLES
    \* sysfs: battery -> threshold, and ideapad_acpi's mode
    start, stop, conservation,
    \* ExternalServiceSettings: what it shows, and what it takes for the kernel's
    shown, saved,
    step,       \* the kind the page waits for, or "idle"
    args,       \* what it asked for
    outcome,    \* the helper's answer: "none" yet, "ok" or "error"
    \* Core
    daemon,     \* m_chargeStartThreshold, m_chargeStopThreshold, m_batteryConservationModeEnabled
    refresh,    \* calls of refreshStatus under way
    asked,      \* kind -> jobs that the helper has not served
    answers,    \* kind -> answers that the daemon has not read
    \* history
    doubt,      \* since the page was loaded a write failed or was refused, the mode was
                \* edited while it was saved, another program wrote, or the batteries
                \* differ in what they support
    changed,    \* kind -> sysfs was written since the daemon asked last
    othersWrote \* another program wrote since then

limitFiles == <<start, stop, conservation>>
page == <<shown, saved, step, args, outcome>>
jobs == <<daemon, refresh, asked, answers>>
limitVars == <<limitFiles, page, jobs, doubt, changed, othersWrote>>

Installed == DOMAIN stop

-----------------------------------------------------------------------------
(* The helper.                                                             *)

Pair(s, e) == [i \in 1 .. 2 |-> IF i = 1 THEN s ELSE e]
Mode(on) == [i \in 1 .. 1 |-> on]

NotSupported == Pair(Unsupported, Unsupported)

\* min_element: the first of the batteries with the least stop threshold.
Least == {b \in Installed :
            /\ stop[b] # Unsupported
            /\ \A c \in Installed : \/ stop[c] = Unsupported \/ stop[b] < stop[c]
                                    \/ stop[b] = stop[c] /\ b <= c}

getthreshold ==
    IF Least = {} THEN NotSupported
    ELSE LET b == CHOOSE b \in Least : TRUE IN Pair(start[b], stop[b])

Reading(kind) == IF kind = "threshold" THEN getthreshold ELSE Mode(conservation)

Invalid(a) ==
    \/ a = NotSupported
    \/ a[1] # Unsupported /\ a[2] # Unsupported /\ a[1] > a[2]

\* The sets of batteries whose file may fail to open, if there is anything to write.
Failures(file, value) ==
    IF value = Unsupported THEN {{}}
    ELSE {f \in SUBSET Installed : \A b \in Installed : file[b] = Unsupported => b \in f}

\* What is left in the files: those after the first failure are not written.
setThresholds(file, value, failing, refused) ==
    [b \in DOMAIN file |->
        IF value # Unsupported /\ b \notin refused /\ \A c \in failing : b < c THEN value
        ELSE file[b]]

\* The batteries do not support the same.
Unlike == \E b, c \in Installed : start[b] = Unsupported /\ start[c] # Unsupported

setthreshold ==
    \E failStart \in Failures(start, args[1]), failStop \in Failures(stop, args[2]),
       refused \in SUBSET Installed :
        /\ start' = setThresholds(start, args[1], failStart, refused)
        /\ stop' = IF failStart = {} THEN setThresholds(stop, args[2], failStop, refused) ELSE stop
        /\ outcome' = IF failStart = {} /\ failStop = {} THEN "ok" ELSE "error"
        /\ doubt' = (doubt \/ failStart # {} \/ failStop # {} \/ refused # {} \/ Unlike)
        /\ changed' = [changed EXCEPT !["threshold"] = TRUE]

-----------------------------------------------------------------------------

\* The page has just been loaded; the daemon starts.
LimitsInit ==
    /\ \E n \in Nat : /\ start \in [1 .. n -> Thresholds \cup {Unsupported}]
                      /\ stop \in [1 .. n -> Thresholds \cup {Unsupported}]
    /\ conservation \in {Unsupported, 0, 1}
    /\ shown = [k \in LimitKinds |-> Reading(k)] /\ saved = shown
    /\ step = "idle" /\ args = NotSupported /\ outcome = "none"
    /\ daemon = [k \in LimitKinds |-> IF k = "threshold" THEN Pair(0, 100) ELSE Mode(0)]
    /\ refresh = 0 /\ asked = [k \in LimitKinds |-> 1] /\ answers = [k \in LimitKinds |-> <<>>]
    /\ doubt = FALSE /\ changed = [k \in LimitKinds |-> FALSE] /\ othersWrote = FALSE

-----------------------------------------------------------------------------
(* The settings page.                                                      *)

\* load: what cannot be read stays on the page, as not supported.
Load ==
    /\ step = "idle"
    /\ saved' = [k \in LimitKinds |-> Reading(k)]
    /\ shown' = [k \in LimitKinds |-> IF saved'[k] \in {NotSupported, Mode(Unsupported)} THEN shown[k]
                                      ELSE saved'[k]]
    /\ doubt' = FALSE
    /\ UNCHANGED <<limitFiles, step, args, outcome, jobs, changed, othersWrote>>

\* Only what is supported is on the page; at any time, a job under way or not.
\* One box may change the other (GlobalConfig.qml): both values are any.
Edit(kind, values) ==
    /\ shown' = [shown EXCEPT ![kind] =
                    [i \in DOMAIN @ |-> IF saved[kind][i] = Unsupported THEN @[i] ELSE values[i]]]
    /\ doubt' = (doubt \/ (step = kind /\ kind = "conservationmode"))
    /\ UNCHANGED <<limitFiles, saved, step, args, outcome, jobs, changed, othersWrote>>

Needed(kind) ==
    \E i \in DOMAIN saved[kind] :
        saved[kind][i] # Unsupported /\ shown'[kind][i] # saved[kind][i]

\* executeChargeThresholdHelperAction
Asks(kind) ==
    /\ step' = kind /\ outcome' = "none"
    /\ args' = [i \in DOMAIN saved[kind] |-> IF saved[kind][i] = Unsupported THEN Unsupported
                                             ELSE shown'[kind][i]]
    /\ UNCHANGED refresh

\* All is done: the daemon is told.
Notifies == step' = "idle" /\ refresh' = refresh + 1 /\ UNCHANGED <<args, outcome>>

\* save, from the conservation mode on
SavesMode == IF Needed("conservationmode") THEN Asks("conservationmode") ELSE Notifies

Save ==
    /\ step = "idle"
    /\ UNCHANGED shown
    /\ IF Needed("threshold") THEN Asks("threshold") ELSE SavesMode
    /\ UNCHANGED <<limitFiles, saved, daemon, asked, answers, doubt, changed, othersWrote>>

\* The results of the jobs.  The mode that is taken for saved is what the page
\* shows by now.
ThresholdSaved ==
    /\ step = "threshold" /\ outcome # "none"
    /\ IF outcome = "error"
       THEN shown' = [shown EXCEPT !["threshold"] = saved["threshold"]] /\ UNCHANGED saved
       ELSE saved' = [saved EXCEPT !["threshold"] = args] /\ UNCHANGED shown
    /\ SavesMode
    /\ UNCHANGED <<limitFiles, daemon, asked, answers, doubt, changed, othersWrote>>

ModeSaved ==
    /\ step = "conservationmode" /\ outcome # "none"
    /\ LET mode == "conservationmode"
       IN IF outcome = "error" THEN shown' = [shown EXCEPT ![mode] = saved[mode]] /\ UNCHANGED saved
          ELSE saved' = [saved EXCEPT ![mode] = shown[mode]] /\ UNCHANGED shown
    /\ Notifies
    /\ UNCHANGED <<limitFiles, daemon, asked, answers, doubt, changed, othersWrote>>

-----------------------------------------------------------------------------
(* The helper, at work for the page and the daemon, and other programs.    *)

HelperSetsThreshold ==
    /\ step = "threshold" /\ outcome = "none"
    /\ IF Invalid(args) THEN outcome' = "error" /\ UNCHANGED <<start, stop, doubt, changed>>
       ELSE setthreshold
    /\ UNCHANGED <<conservation, shown, saved, step, args, jobs, othersWrote>>

HelperSetsMode ==
    /\ step = "conservationmode" /\ outcome = "none"
    /\ \/ /\ conservation # Unsupported
          /\ outcome' = "ok" /\ conservation' \in {args[1], conservation}
          /\ doubt' = (doubt \/ conservation' # args[1])
          /\ changed' = [changed EXCEPT !["conservationmode"] = TRUE]
       \/ outcome' = "error" /\ UNCHANGED <<conservation, doubt, changed>>
    /\ UNCHANGED <<start, stop, shown, saved, step, args, jobs, othersWrote>>

HelperReads(kind) ==
    /\ asked[kind] > 0
    /\ asked' = [asked EXCEPT ![kind] = @ - 1]
    /\ answers' = [answers EXCEPT ![kind] = Append(@, Reading(kind))]
    /\ UNCHANGED <<limitFiles, page, daemon, refresh, doubt, changed, othersWrote>>

OthersWrite ==
    /\ start' \in [Installed -> Thresholds \cup {Unsupported}]
    /\ stop' \in [Installed -> Thresholds \cup {Unsupported}]
    /\ conservation' \in {Unsupported, 0, 1}
    /\ doubt' = TRUE /\ othersWrote' = TRUE /\ changed' = [k \in LimitKinds |-> TRUE]
    /\ UNCHANGED <<page, jobs>>

-----------------------------------------------------------------------------
(* The daemon.                                                             *)

\* refreshStatus, called by the page or anybody else: both are read anew.
RefreshStatus ==
    /\ \/ refresh > 0 /\ refresh' = refresh - 1
       \/ UNCHANGED refresh
    /\ asked' = [k \in LimitKinds |-> asked[k] + 1]
    /\ changed' = [k \in LimitKinds |-> FALSE] /\ othersWrote' = FALSE
    /\ UNCHANGED <<limitFiles, page, daemon, answers, doubt>>

\* Errors, which are answers of Unsupported, change nothing.
Heard(old, answer) ==
    [i \in DOMAIN old |-> IF answer[i] = Unsupported THEN old[i] ELSE answer[i]]

ReadsAnswer(kind) ==
    /\ answers[kind] # <<>>
    /\ answers' = [answers EXCEPT ![kind] = Tail(@)]
    /\ daemon' = [daemon EXCEPT ![kind] = Heard(@, Head(answers[kind]))]
    /\ UNCHANGED <<limitFiles, page, refresh, asked, doubt, changed, othersWrote>>

-----------------------------------------------------------------------------

Edits ==
    \/ \E s, e \in Thresholds : Edit("threshold", Pair(s, e))
    \/ \E on \in 0 .. 1 : Edit("conservationmode", Mode(on))

LimitsNext ==
    \/ Load \/ Edits \/ Save \/ ThresholdSaved \/ ModeSaved
    \/ HelperSetsThreshold \/ HelperSetsMode \/ OthersWrite \/ RefreshStatus
    \/ \E k \in LimitKinds : HelperReads(k) \/ ReadsAnswer(k)

LimitsSpec == LimitsInit /\ [][LimitsNext]_limitVars

-----------------------------------------------------------------------------
(* Properties.                                                             *)

Values == Thresholds \cup {Unsupported}
Shape(kind) == IF kind = "threshold" THEN 1 .. 2 ELSE 1 .. 1
Tuples(kind) == [Shape(kind) -> Values]
PerKind(f) == DOMAIN f = LimitKinds /\ \A k \in LimitKinds : f[k] \in Tuples(k)

LimitsTypeOK ==
    /\ \E n \in Nat : start \in [1 .. n -> Values] /\ stop \in [1 .. n -> Values]
    /\ conservation \in Values
    /\ PerKind(shown) /\ PerKind(saved) /\ PerKind(daemon)
    /\ step \in LimitKinds \cup {"idle"} /\ outcome \in {"none", "ok", "error"}
    /\ step \in LimitKinds => args \in Tuples(step)
    /\ refresh \in Nat /\ asked \in [LimitKinds -> Nat]
    /\ DOMAIN answers = LimitKinds /\ \A k \in LimitKinds : answers[k] \in Seq(Tuples(k))
    /\ doubt \in BOOLEAN /\ changed \in [LimitKinds -> BOOLEAN] /\ othersWrote \in BOOLEAN

\* What the page takes for saved, and compares with what it shows to know
\* whether there is anything to save, is what the kernel has: edits while the
\* thresholds are saved, rejected values and errors before a write included.
PageInSync == step = "idle" /\ ~doubt => \A k \in LimitKinds : saved[k] = Reading(k)

\* Once nothing is under way, the daemon announces what the kernel has, as far
\* as it supports it, whether or not saving succeeded and however readings
\* and writes were interleaved.
DaemonInformed ==
    step = "idle" /\ refresh = 0 /\ ~othersWrote
        => \A k \in LimitKinds : asked[k] = 0 /\ answers[k] = <<>> =>
                                     Heard(daemon[k], Reading(k)) = daemon[k]
=============================================================================
