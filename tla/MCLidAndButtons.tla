---------------------------- MODULE MCLidAndButtons ----------------------------
(* Instances of LidAndButtons. *)
EXTENDS LidAndButtons
BesideMonitor == [p \in Profiles |-> p = "AC"]
SleepsOrNothing == [p \in Profiles |-> IF p = "AC" THEN "None" ELSE "Sleep"]
=============================================================================
