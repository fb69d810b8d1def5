--------------------------- MODULE MCCriticalBattery ---------------------------
(* Small instances of CriticalBattery; TLC also evaluates what RemainingTime *)
(* promises.                                                                *)
EXTENDS CriticalBattery, RemainingTime

CONSTANTS b1, b2, mouse

Level(c, l, a) == [critical |-> c, low |-> l, acts |-> a]

TwoSettings == {Level(5, 10, TRUE), Level(10, 10, FALSE)}
SomePercents == {2, 8, 30}
=============================================================================
