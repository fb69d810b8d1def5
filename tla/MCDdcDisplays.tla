---------------------------- MODULE MCDdcDisplays ----------------------------
(* Two monitors.                                                           *)
EXTENDS DdcDisplays

TwoBuses == {1, 2}
=============================================================================
