-------------------------- MODULE LogindInhibitions --------------------------
(***************************************************************************)
(* PolicyAgent together with logind: inhibitor locks taken directly from   *)
(* logind are mirrored as inhibitions of the agent                         *)
(* (PolicyAgent::checkLogindInhibitions).  Every change of BlockInhibited  *)
(* makes the agent call ListInhibitors asynchronously; several calls may   *)
(* be under way, and an answer may be stale when it is read.               *)
(*                                                                         *)
(* logind is external: it announces every change of its inhibitors and     *)
(* answers a call with the inhibitors of that moment, or with an error;    *)
(* the bus keeps the order of its messages.                                *)
(***************************************************************************)
EXTENDS PolicyAgent, SequencesExt

CONSTANTS Inhibitors,       \* inhibitor locks that processes may hold
          NoInhibitor,
          MaxChanges        \* bound: locks taken or dropped

ASSUME LogindAssumption ==
    /\ IsFiniteSet(Inhibitors) /\ NoInhibitor \notin Inhibitors
    /\ \A i \in Inhibitors : i.id \in Ids /\ i.policies \subseteq Policies
    /\ MaxChanges \in Nat

VARIABLES
    inhibitors,         \* what logind holds
    changes,            \* locks taken or dropped so far
    calls,              \* ListInhibitors calls logind has not answered yet
    fromLogind,         \* logind's signals and replies on their way, in order
    failed,             \* did the ListInhibitors call that ended last fail?
    logindInhibitions,  \* m_logindInhibitions: the inhibitor mirrored by a cookie
    undone              \* history: mirrored cookies that a D-Bus client released

logindVars == <<inhibitors, changes, calls, fromLogind, failed, logindInhibitions, undone>>

allVars == <<vars, logindVars>>

Signal == [kind |-> "BlockInhibited"]
Reply(list) == [kind |-> "reply", list |-> list]
Error == [kind |-> "error"]

\* Only "block" locks of other processes on sleep or idle count.
Relevant(i) == i.mode = "block" /\ ~i.own /\ i.policies # {}

Mirrored == {logindInhibitions[c] : c \in Cookies} \ {NoInhibitor}

-----------------------------------------------------------------------------
(* logind *)

Announce ==
    /\ changes < MaxChanges
    /\ changes' = changes + 1
    /\ fromLogind' = Append(fromLogind, Signal)
    /\ UNCHANGED <<vars, calls, failed, logindInhibitions, undone>>

Take(i) == i \notin inhibitors /\ inhibitors' = inhibitors \cup {i} /\ Announce

Drop(i) == i \in inhibitors /\ inhibitors' = inhibitors \ {i} /\ Announce

Answer ==
    /\ calls > 0
    /\ calls' = calls - 1
    /\ \E answer \in {Reply(inhibitors), Error} : fromLogind' = Append(fromLogind, answer)
    /\ UNCHANGED <<vars, inhibitors, changes, failed, logindInhibitions, undone>>

-----------------------------------------------------------------------------
(* The agent *)

\* onManagerPropertyChanged: ask for the list.
onManagerPropertyChanged ==
    /\ fromLogind # <<>> /\ Head(fromLogind) = Signal
    /\ fromLogind' = Tail(fromLogind)
    /\ calls' = calls + 1
    /\ UNCHANGED <<vars, inhibitors, changes, failed, logindInhibitions, undone>>

\* Mutant: the timers are not started.
AddAllWith(adopted, Asked(_), started) ==
    LET added == (lastCookie + 1) .. (lastCookie + Len(adopted))
        Wanted(i) == [service |-> NoService, id |-> i.id, policies |-> Asked(i)]
    IN  /\ lastCookie + Len(adopted) <= MaxCookie
        /\ lastCookie' = lastCookie + Len(adopted)
        /\ request' = [c \in Cookies |-> IF c \in added THEN Wanted(adopted[c - lastCookie])
                                         ELSE request[c]]
        /\ timers' = IF started THEN timers \cup added ELSE timers

AddAllUntimed(adopted) ==
    LET Asked(i) == i.policies IN AddAllWith(adopted, Asked, FALSE)

\* AddInhibition, in-process, for every inhibitor of the sequence.
AddAll(adopted) ==
    LET added == (lastCookie + 1) .. (lastCookie + Len(adopted))
        Wanted(i) == [service |-> NoService, id |-> i.id, policies |-> i.policies]
    IN  /\ lastCookie + Len(adopted) <= MaxCookie
        /\ lastCookie' = lastCookie + Len(adopted)
        /\ request' = [c \in Cookies |-> IF c \in added THEN Wanted(adopted[c - lastCookie])
                                         ELSE request[c]]
        /\ timers' = timers \cup added

\* Mutant: vanished inhibitors are kept.
NoneVanished(listed) == {}

\* Inhibitors of the list the agent has no cookie for, and cookies whose
\* inhibitors are not in the list any more.
Unknown(listed)  == {i \in listed : Relevant(i)} \ Mirrored
Vanished(listed) == {c \in Cookies : logindInhibitions[c] \notin listed \cup {NoInhibitor}}

\* The reply of ListInhibitors: inhibitors not known yet are added, then the
\* ones logind no longer has are released.
onListInhibitors ==
    /\ fromLogind # <<>> /\ Head(fromLogind).kind = "reply"
    /\ fromLogind' = Tail(fromLogind)
    /\ LET listed   == Head(fromLogind).list
           adopted  == SetToSeq(Unknown(listed))
           added    == (lastCookie + 1) .. (lastCookie + Len(adopted))
           vanished == Vanished(listed)
       IN  /\ AddAll(adopted)
           /\ pending' = (pending \cup added) \ vanished
           /\ Untrack(vanished)
           /\ Revoke(vanished \ pending, FALSE)
           /\ logindInhibitions' = [c \in Cookies |->
                  IF c \in added THEN adopted[c - lastCookie]
                  ELSE IF c \in vanished THEN NoInhibitor ELSE logindInhibitions[c]]
           /\ undone' = undone \ vanished
    /\ failed' = FALSE
    /\ UNCHANGED <<envVars, settings, inhibitors, changes, calls>>

\* "Failed to ask logind for inhibitions": nothing is changed, nothing retried.
onListInhibitorsError ==
    /\ fromLogind # <<>> /\ Head(fromLogind) = Error
    /\ fromLogind' = Tail(fromLogind)
    /\ failed' = TRUE
    /\ UNCHANGED <<vars, inhibitors, changes, calls, logindInhibitions, undone>>

\* A restarted agent asks for the list when it finds logind running.
RestartWithLogind ==
    /\ Restart
    /\ calls' = 1 /\ fromLogind' = <<>> /\ failed' = FALSE
    /\ logindInhibitions' = [c \in Cookies |-> NoInhibitor]
    /\ undone' = {}
    /\ UNCHANGED <<inhibitors, changes>>

-----------------------------------------------------------------------------

LogindInit ==
    /\ Init
    /\ inhibitors \in SUBSET Inhibitors
    /\ changes = 0
    /\ calls = 1 /\ fromLogind = <<>> /\ failed = FALSE
    /\ logindInhibitions = [c \in Cookies |-> NoInhibitor]
    /\ undone = {}

MirrorCookies == {c \in Cookies : logindInhibitions[c] # NoInhibitor}

\* ReleaseInhibition with any number, or fd.o ForceUnInhibitAll: a D-Bus client
\* may so release what mirrors a lock.  The agent keeps the entry, and does
\* not enforce the lock again before logind has dropped it.
ReleaseStep ==
    /\ \/ \E c \in Cookies : ReleaseInhibition(c)
       \/ releaseAllInhibitions
    /\ undone' = undone \cup {c \in MirrorCookies : /\ c \in pending \cup requested
                                                   /\ c \notin pending' \cup requested'}
    /\ UNCHANGED <<inhibitors, changes, calls, fromLogind, failed, logindInhibitions>>

\* Applications, the user and the screen locker.  Bounds: a program is handed
\* one cookie, before the locks are, and leaves the bus while it is watched
\* (no notice is sent of the others).
AgentStep ==
    /\ \/ /\ lastCookie = 0
          /\ \E s \in Services, id \in Ids, policies \in PolicyChoices : AddInhibition(s, id, policies)
       \/ \E id \in Ids : Block(id) \/ Allow(id)
       \/ \E s \in watched : Disconnect(s)
       \/ \E s \in Services : onServiceUnregistered(s)
       \/ onScreenLockerActiveChanged
    /\ UNCHANGED logindVars

EnforceStep(c) == Enforce(c) /\ UNCHANGED logindVars

HandleMessage == onManagerPropertyChanged \/ onListInhibitors \/ onListInhibitorsError

LogindNext ==
    \/ \E i \in Inhibitors : Take(i) \/ Drop(i)
    \/ Answer
    \/ HandleMessage
    \/ AgentStep
    \/ ReleaseStep
    \/ \E c \in Cookies : EnforceStep(c)
    \/ RestartWithLogind

LogindSpec == LogindInit /\ [][LogindNext]_allVars

\* logind answers, and the agent's event loop reads its messages and timers.
LogindFairSpec ==
    /\ LogindSpec
    /\ WF_allVars(Answer) /\ WF_allVars(HandleMessage)
    /\ \A c \in Cookies : WF_allVars(EnforceStep(c))

-----------------------------------------------------------------------------
(* Properties *)

\* When no message is under way, the agent mirrors exactly what logind holds,
\* however many calls overlapped and whichever of them failed, if the last
\* one did not (checkLogindInhibitions does not ask again).
MirrorInSync ==
    calls = 0 /\ fromLogind = <<>> /\ ~failed => Mirrored = {i \in inhibitors : Relevant(i)}

DaemonSettles == <>[][~RestartWithLogind]_allVars

\* Once the daemon is not restarted any more, a lock that is kept for good,
\* and that the user does not block, ends up enforced for good, if the last
\* call succeeds and no D-Bus client released what mirrors the lock
\* (ReleaseInhibition with its number, or ForceUnInhibitAll).
KeptLockIsEnforced ==
    \A i \in Inhibitors :
        DaemonSettles /\ <>[](~failed /\ i \in inhibitors /\ Relevant(i) /\ i.id \notin blocked)
            => <>[](\E c \in Cookies : logindInhibitions[c] = i /\ c \in active \cup undone)

\* A lock that is dropped for good ends up released for good.
DroppedLockIsReleased ==
    \A i \in Inhibitors :
        DaemonSettles /\ <>[](~failed /\ i \notin inhibitors) => <>[](i \notin Mirrored)
=============================================================================
