------------------------ MODULE MCBacklightBrightness ------------------------
(* Instance of BacklightBrightness for TLC, which also evaluates what       *)
(* BacklightDevices promises.                                               *)
EXTENDS BacklightBrightness, BacklightDevices
==============================================================================
