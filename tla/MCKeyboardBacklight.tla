------------------------- MODULE MCKeyboardBacklight -------------------------
(* A backlight of three levels.                                            *)
EXTENDS KeyboardBacklight
=============================================================================
