--------------------------- MODULE BrightnessSteps ---------------------------
(***************************************************************************)
(* The steps of a brightness key: BrightnessLogic                          *)
(* (powerdevilbrightnesslogic.cpp) with the number of steps that screens   *)
(* and keyboards prefer.  Values are integers between min and max; the     *)
(* code's doubles are rational numbers here, rounded half up as qRound     *)
(* rounds what is not negative.                                            *)
(*                                                                         *)
(* These are pure functions.  What they promise is stated as assumptions   *)
(* that TLC evaluates for every range up to LargestRange.                  *)
(***************************************************************************)
EXTENDS Integers, FiniteSets

\* round(a / b)
Rounded(a, b) == (2 * a + b) \div (2 * b)

Bound(low, x, high) == IF x < low THEN low ELSE IF x > high THEN high ELSE x

-----------------------------------------------------------------------------
(* The preferred number of steps.                                          *)

Divides(k, n) == n % k = 0

\* ScreenBrightnessLogic::calculateSteps: 20 where that is even or fine enough
ScreenSteps(max) ==
    CASE max <= 20 -> max
      [] max >= 34 \/ max \in {28, 32} -> 20
      [] max \in 21 .. 33 \ {28, 32} /\ Divides(5, max) -> 10
      [] OTHER -> LET even == {k \in 9 .. 14 : Divides(k, max)}
                  IN IF even = {} THEN 10 ELSE CHOOSE k \in even : \A j \in even : k <= j

\* KeyboardBrightnessLogic::calculateSteps: about 5
KeyboardSteps(max) ==
    CASE max <= 7 -> max
      [] max > 7 /\ (Divides(5, max) \/ max >= 80) -> 5
      [] OTHER -> LET even == {k \in {4, 6, 3} : Divides(k, max)}
                  IN IF even = {} THEN 5
                     ELSE IF 4 \in even THEN 4 ELSE IF 6 \in even THEN 6 ELSE 3

-----------------------------------------------------------------------------
(* One press.  steps is what calculateSteps gave for max.                  *)

stepToValue(step, min, max, steps) == Bound(min, Rounded(step * max, steps), max)

Percent(value, max) == Rounded(value * 100, max)

increased(value, min, max, steps) ==
    LET step == steps - ((max - value - 1) * steps) \div max
        visible == Percent(stepToValue(step, min, max, steps), max) > Percent(value, max)
    IN IF value = max THEN max
       ELSE stepToValue(IF max > 100 /\ ~visible THEN step + 1 ELSE step, min, max, steps)

decreased(value, min, max, steps) ==
    LET step == ((value - 1) * steps) \div max
        visible == Percent(stepToValue(step, min, max, steps), max) < Percent(value, max)
    IN IF value = min THEN min
       ELSE stepToValue(IF max > 100 /\ ~visible THEN step - 1 ELSE step, min, max, steps)

increasedSmall(value, max) ==
    LET next == Rounded(max * (Percent(value, max) + 1), 100) IN IF next > max THEN max ELSE next

decreasedSmall(value, min, max) ==
    LET next == Rounded(max * (Percent(value, max) - 1), 100) IN IF next < min THEN min ELSE next

adjusted(adjustment, value, min, max, steps) ==
    CASE adjustment = "Increase" -> increased(value, min, max, steps)
      [] adjustment = "Decrease" -> decreased(value, min, max, steps)
      [] adjustment = "IncreaseSmall" -> increasedSmall(value, max)
      [] adjustment = "DecreaseSmall" -> decreasedSmall(value, min, max)

-----------------------------------------------------------------------------
(* What the keys promise.                                                  *)

LargestRange == 260
Ranges == 1 .. 40 \cup {100, 101, 120, 255, LargestRange}

\* <<value, min, max>>
Screens == {s \in (0 .. LargestRange) \X {0, 1} \X Ranges :
                s[2] <= s[1] /\ s[1] <= s[3] /\ s[2] < s[3]}

\* A press of the key makes a difference, in its direction and within the
\* range, until the end of the range is reached.
ASSUME StepsMoveOn ==
    \A s \in Screens : LET value == s[1] min == s[2] max == s[3] IN
        \A steps \in {ScreenSteps(max), KeyboardSteps(max)} :
            /\ increased(value, min, max, steps) \in IF value = max THEN {max} ELSE value + 1 .. max
            /\ decreased(value, min, max, steps) \in IF value = min THEN {min} ELSE min .. value - 1

\* The same for a screen's small steps, of one percent.
ASSUME SmallStepsMoveOn ==
    \A s \in Screens : LET value == s[1] min == s[2] max == s[3] IN
        max >= 100 =>
            /\ increasedSmall(value, max) \in IF value = max THEN {max} ELSE value + 1 .. max
            /\ decreasedSmall(value, min, max) \in IF value = min THEN {min} ELSE min .. value - 1

\* On a large range a press also changes the percentage that is shown.
ASSUME StepsAreVisible ==
    \A s \in Screens : LET value == s[1] min == s[2] max == s[3] steps == ScreenSteps(max) IN
        max > 100 /\ Percent(value, max) < 100
            => Percent(increased(value, min, max, steps), max) > Percent(value, max)

\* There are never more steps than values, nor more than 20.
ASSUME StepsAreValues ==
    \A max \in 1 .. LargestRange :
        /\ ScreenSteps(max) \in 1 .. (IF max < 20 THEN max ELSE 20)
        /\ KeyboardSteps(max) \in 1 .. (IF max < 7 THEN max ELSE 7)
=============================================================================
