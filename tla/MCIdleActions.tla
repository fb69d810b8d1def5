----------------------------- MODULE MCIdleActions -----------------------------
(* Instances of IdleActions. *)
EXTENDS IdleActions
\* On battery nothing is dimmed; on AC the computer does not suspend.
EitherProfile == [p \in Profiles |-> IF p = "AC" THEN {Dim, Dpms} ELSE {Dpms, Suspend}]
BatteryKeyboard == [p \in Profiles |-> IF p = "AC" THEN Unset ELSE 1]
=============================================================================
