-------------------------- MODULE InhibitionPromise --------------------------
(***************************************************************************)
(* What the policy agent promises, without cookie lists, hashes, timers or *)
(* connections: requests are scheduled, then stand until withdrawn; a      *)
(* policy is forbidden exactly while some standing request that the user   *)
(* has not blocked needs it (and, for the screen, while it is not locked); *)
(* a withdrawn request never comes back.                                   *)
(***************************************************************************)
EXTENDS Naturals

CONSTANTS Cookies, Requests, Policies, Implied(_)

VARIABLES issued,        \* cookies handed out so far
          terms,         \* what each issued cookie asks for
          scheduled,     \* requests in their grace period
          standing,      \* requests past it
          blocked,       \* ids the user does not want honoured
          lockerActive,
          forbidden      \* the policies actions have been told to respect

promiseVars == <<issued, terms, scheduled, standing, blocked, lockerActive, forbidden>>

ForbiddenBy(requests, wanted, ids, locked) ==
    {p \in Policies :
        /\ \E c \in requests : wanted[c].id \notin ids /\ p \in Implied(wanted[c].policies)
        /\ p = "ChangeScreenSettings" => ~locked}

PromiseInit ==
    /\ issued = {} /\ scheduled = {} /\ standing = {}
    /\ lockerActive = FALSE
    /\ forbidden = {}

Schedule ==
    \E c \in Cookies \ issued, r \in Requests :
        /\ issued' = issued \cup {c}
        /\ terms' = [terms EXCEPT ![c] = r]
        /\ scheduled' = scheduled \cup {c}
        /\ UNCHANGED <<standing, blocked, lockerActive>>

Stand ==
    \E c \in scheduled :
        /\ scheduled' = scheduled \ {c}
        /\ standing' = standing \cup {c}
        /\ UNCHANGED <<issued, terms, blocked, lockerActive>>

Withdraw ==
    /\ scheduled' \subseteq scheduled
    /\ standing' \subseteq standing
    /\ UNCHANGED <<issued, terms, blocked, lockerActive>>

\* Blocking or allowing withdraws nothing and schedules nothing.
ChangeSettings == UNCHANGED <<issued, terms, scheduled, standing>>

StartOver ==
    /\ issued' = {} /\ scheduled' = {} /\ standing' = {}
    /\ lockerActive' = FALSE

PromiseNext ==
    /\ Schedule \/ Stand \/ Withdraw \/ ChangeSettings \/ StartOver
    /\ forbidden' = ForbiddenBy(standing', terms', blocked', lockerActive')

PromiseSpec == PromiseInit /\ [][PromiseNext]_promiseVars
=============================================================================
