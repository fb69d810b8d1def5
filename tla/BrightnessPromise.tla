--------------------------- MODULE BrightnessPromise ---------------------------
(***************************************************************************)
(* What the daemon promises whoever sets the brightness of a screen,       *)
(* whatever timers, jobs, workers and retries are between the two: a       *)
(* request may be left out when a newer one comes, and may be written more *)
(* than once, but none is written after a newer one; and when nothing is   *)
(* left to do, the screen shows the one asked for last.                    *)
(*                                                                         *)
(* It is excused when somebody else sets the brightness, or when a request *)
(* is taken back in the open, until another one; and it ends with the      *)
(* object that stands for the screen.                                      *)
(***************************************************************************)
EXTENDS Naturals, Sequences

CONSTANT Brightness     \* the values there are

VARIABLES shown,        \* what the screen shows
          object,       \* what stands for it, a number; 0 if nothing does
          underway,     \* what may still be written, the oldest first
          settled,      \* nothing is left to do, and nothing excused
          excused

promiseVars == <<shown, object, underway, settled, excused>>

PromiseInit ==
    /\ shown \in Brightness /\ object \in Nat
    /\ underway = <<>> /\ settled = FALSE /\ excused \in BOOLEAN

Newest == underway[Len(underway)]

\* A request, which may take the place of newer ones under way.  After what
\* excuses the last one, it may take yet another to be sure again.
Ask ==
    /\ object # 0
    /\ \E value \in Brightness, n \in 0 .. Len(underway) :
           underway' = Append(SubSeq(underway, 1, n), value)
    /\ settled' = FALSE /\ excused' \in {excused, FALSE}
    /\ UNCHANGED <<shown, object>>

\* The newest is sent once more.
Repeat ==
    /\ underway # <<>> /\ ~settled
    /\ underway' = Append(underway, Newest)
    /\ UNCHANGED <<shown, object, settled, excused>>

\* The oldest has had its turn; the newest is kept, to be sent again if need be,
\* but for one that was taken back.
Proceed ==
    \/ IF Len(underway) > 1 THEN underway' = Tail(underway) ELSE UNCHANGED underway
    \/ excused /\ underway' = Tail(underway)

Write ==
    /\ underway # <<>> /\ ~settled
    /\ shown' = Head(underway)
    /\ Proceed
    /\ UNCHANGED <<object, settled, excused>>

\* It could not be written.
Fail ==
    /\ underway # <<>> /\ ~settled
    /\ Proceed
    /\ UNCHANGED <<shown, object, settled, excused>>

Settle ==
    /\ underway # <<>> /\ Newest = shown /\ ~excused
    /\ settled' = TRUE
    /\ UNCHANGED <<shown, object, underway, excused>>

\* The screen is detected, with the brightness it has.
Offer ==
    /\ object' \in Nat \ {0, object}
    /\ underway' = <<shown>>
    /\ settled' = ~excused
    /\ UNCHANGED <<shown, excused>>

\* It is gone, or given up.
GiveUp ==
    /\ object # 0 /\ object' = 0
    /\ underway' = <<>> /\ settled' = FALSE
    /\ UNCHANGED <<shown, excused>>

\* Somebody else changes the brightness; the request is kept or taken back.
Interfere ==
    /\ shown' \in Brightness
    /\ excused' \in {excused, TRUE} /\ settled' = FALSE
    /\ underway' \in {underway, <<>>}
    /\ UNCHANGED object

\* Whoever asked is told that the brightness is another, or that the request
\* failed: what is not on its way to the screen yet will not be written.
Revoke ==
    /\ excused' = TRUE /\ settled' = FALSE
    /\ \E n \in 0 .. Len(underway) : underway' = SubSeq(underway, 1, n)
    /\ UNCHANGED <<shown, object>>

PromiseNext == \/ Ask \/ Repeat \/ Write \/ Fail \/ Settle
               \/ Offer \/ GiveUp \/ Interfere \/ Revoke

PromiseSpec == PromiseInit /\ [][PromiseNext]_promiseVars
=============================================================================
