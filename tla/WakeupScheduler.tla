---------------------------- MODULE WakeupScheduler ----------------------------
(***************************************************************************)
(* Scheduled wakeups of PowerDevil::Core (daemon/powerdevilcore.cpp):      *)
(* applications ask over D-Bus to be called back, and the system to be     *)
(* woken, at a time.  One timerfd is armed for the earliest wakeup; a      *)
(* socket notifier runs timerfdEventHandler when it becomes readable,      *)
(* which calls back the first wakeup of the list without reading the       *)
(* descriptor or the clock again.                                          *)
(*                                                                         *)
(* Handlers run one after the other on one thread.  But the event loop     *)
(* polls its descriptors first and dispatches what it found afterwards:    *)
(* between the poll and timerfdEventHandler a D-Bus call that arrived in   *)
(* the same round may be served.                                           *)
(*                                                                         *)
(* Abstractions.  Of the list only the first element is ever read, so it   *)
(* is a set with a distinguished first element; std::sort leaves open      *)
(* which of several earliest wakeups that is.  Time is counted in seconds  *)
(* from the start.  The timerfd could be created.                          *)
(***************************************************************************)
EXTENDS Integers

CONSTANTS MaxCookie,   \* bound: calls of scheduleWakeup
          MaxTime,     \* bound: the latest time that is looked at
          NoWakeup

Cookies == 1 .. MaxCookie
Times == 0 .. MaxTime
Wakeups == [cookie : Cookies, timeout : Times]
Never == -1

ASSUME WakeupAssumption ==
    /\ MaxCookie \in Nat /\ MaxTime \in Nat
    /\ NoWakeup \notin Wakeups

VARIABLES
    now,               \* the real-time clock
    lastWakeupCookie,  \* m_lastWakeupCookie
    scheduled,         \* m_scheduledWakeups
    first,             \* its first element
    armed,             \* the expiry time of the timerfd, or Never
    notifier,          \* m_timerFdSocketNotifier is enabled
    ready,             \* the poll of this round found the timerfd readable
    called             \* wakeups called back, with the time of the call

schedulerVars == <<now, lastWakeupCookie, scheduled, first, armed, notifier, ready, called>>

Earliest(wakeups) == {w \in wakeups : \A v \in wakeups : w.timeout <= v.timeout}

-----------------------------------------------------------------------------

SchedulerInit ==
    /\ now \in Times
    /\ lastWakeupCookie = 0
    /\ scheduled = {} /\ first = NoWakeup
    /\ armed = Never
    /\ notifier = FALSE /\ ready = FALSE
    /\ called = {}

\* Mutant: the notifier is not enabled again.
resetDisabled ==
    /\ IF scheduled' = {}
       THEN first' = NoWakeup /\ armed' = Never
       ELSE first' \in Earliest(scheduled') /\ armed' = first'.timeout
    /\ notifier' = FALSE

\* Sort the list, arm the timerfd for its first wakeup (which makes it
\* unreadable until then) and have it watched; disarm it for an empty list.
\* A notifier that stays enabled keeps what the poll has found.
resetAndScheduleNextWakeup ==
    IF scheduled' = {}
    THEN /\ first' = NoWakeup
         /\ armed' = Never
         /\ notifier' = FALSE
    ELSE /\ first' \in Earliest(scheduled')
         /\ armed' = first'.timeout
         /\ notifier' = TRUE

\* A wakeup in the past is refused, but uses up a cookie.
scheduleWakeup(timeout) ==
    /\ lastWakeupCookie < MaxCookie
    /\ lastWakeupCookie' = lastWakeupCookie + 1
    /\ IF timeout < now
       THEN UNCHANGED <<scheduled, first, armed, notifier>>
       ELSE /\ scheduled' = scheduled \cup
                   {[cookie |-> lastWakeupCookie + 1, timeout |-> timeout]}
            /\ resetAndScheduleNextWakeup
    /\ UNCHANGED <<now, ready, called>>

\* Mutant: the timerfd is left as it was.
clearWithoutReset(cookie) ==
    /\ \E w \in scheduled : w.cookie = cookie
    /\ scheduled' = {w \in scheduled : w.cookie # cookie}
    /\ UNCHANGED <<now, lastWakeupCookie, first, armed, notifier, ready, called>>

\* Any client may pass any cookie; an unknown one is an error.
clearWakeup(cookie) ==
    /\ \E w \in scheduled : w.cookie = cookie
    /\ scheduled' = {w \in scheduled : w.cookie # cookie}
    /\ resetAndScheduleNextWakeup
    /\ ready' = (ready /\ notifier')
    /\ UNCHANGED <<now, lastWakeupCookie, called>>

\* The event loop polls: the timerfd is readable once its time has come.
Poll ==
    /\ notifier /\ ~ready
    /\ armed # Never /\ armed <= now
    /\ ready' = TRUE
    /\ UNCHANGED <<now, lastWakeupCookie, scheduled, first, armed, notifier, called>>

\* Disable the notifier, take the first wakeup, arm for the next, call back.
timerfdEventHandler ==
    /\ ready
    /\ ready' = FALSE
    /\ IF scheduled = {}
       THEN /\ notifier' = FALSE
            /\ UNCHANGED <<scheduled, first, armed, called>>
       ELSE /\ scheduled' = scheduled \ {first}
            /\ resetAndScheduleNextWakeup
            /\ called' = called \cup {[wakeup |-> first, at |-> now]}
    /\ UNCHANGED <<now, lastWakeupCookie>>

Tick ==
    /\ now < MaxTime
    /\ now' = now + 1
    /\ UNCHANGED <<lastWakeupCookie, scheduled, first, armed, notifier, ready, called>>

SchedulerNext ==
    \/ \E t \in Times : scheduleWakeup(t)
    \/ \E c \in Cookies : clearWakeup(c)
    \/ Poll
    \/ timerfdEventHandler
    \/ Tick

SchedulerSpec == SchedulerInit /\ [][SchedulerNext]_schedulerVars

\* Time passes, and the event loop turns.
SchedulerFairSpec ==
    /\ SchedulerSpec
    /\ WF_schedulerVars(Tick) /\ WF_schedulerVars(Poll) /\ WF_schedulerVars(timerfdEventHandler)

-----------------------------------------------------------------------------
(* Properties *)

SchedulerTypeOK ==
    /\ now \in Times
    /\ lastWakeupCookie \in 0 .. MaxCookie
    /\ scheduled \subseteq Wakeups
    /\ first \in Wakeups \cup {NoWakeup}
    /\ armed \in Times \cup {Never}
    /\ notifier \in BOOLEAN /\ ready \in BOOLEAN
    /\ called \subseteq [wakeup : Wakeups, at : Times]

\* However requests, clearings and callbacks interleave, the one timerfd
\* stands for the earliest scheduled wakeup, and is watched while there is one.
ArmedForEarliest ==
    IF scheduled = {} THEN first = NoWakeup /\ armed = Never /\ ~notifier
    ELSE first \in Earliest(scheduled) /\ armed = first.timeout /\ notifier

\* "Wakeup was received but list is now empty! This should not happen!"
\* (timerfdEventHandler): a wakeup that is received finds one in the list.
ReceivedFindsOne == ready => scheduled # {}

\* A cookie stands for one request, and a wakeup is called back at most once
\* and not scheduled any more then.
CalledOnce ==
    /\ \A w, v \in scheduled : w.cookie = v.cookie => w = v
    /\ \A w, v \in called : w.wakeup.cookie = v.wakeup.cookie => w = v
    /\ \A w \in scheduled, v \in called : w.cookie # v.wakeup.cookie

\* A cleared wakeup is never called back, nor comes a called one back: what
\* leaves the list stays out of it.
GoneForGood ==
    [][\A w \in Wakeups :
          w.cookie <= lastWakeupCookie /\ w \notin scheduled
              => w \notin scheduled' /\ \A c \in called' \ called : c.wakeup # w]_schedulerVars

\* Wakeups are called back in the order of their times.
EarliestFirst ==
    [][\A c \in called' \ called : c.wakeup \in Earliest(scheduled)]_schedulerVars

\* A wakeup that is not cleared is called back.
EachIsCalledBack ==
    \A c \in Cookies :
        (\E w \in scheduled : w.cookie = c) ~> (\A w \in scheduled : w.cookie # c)
=============================================================================
