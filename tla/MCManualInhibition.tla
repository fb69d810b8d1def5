------------------------- MODULE MCManualInhibition -------------------------
(* One other application beside the applet.                                *)
EXTENDS ManualInhibition
=============================================================================
