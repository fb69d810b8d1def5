---------------------------- MODULE MCPowerProfiles ----------------------------
(* Instances of PowerProfiles. *)
EXTENDS PowerProfiles
LOCAL INSTANCE TLC
CONSTANTS c1, c2
TwoProfiles == {"balanced", "performance"}
ProgramSymmetry == Permutations(Clients)
=============================================================================
