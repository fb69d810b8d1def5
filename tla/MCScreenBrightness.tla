-------------------------- MODULE MCScreenBrightness --------------------------
(* A laptop panel and a monitor, both on and half bright at the start.     *)
EXTENDS ScreenBrightness

Panel == {1}
PanelAndMonitor == {1, 2}
BothHalfBright ==
    {[o \in PanelAndMonitor |-> [status |-> "capable", label |-> "A", brightness |-> 1, dimming |-> 1]]}
=============================================================================
