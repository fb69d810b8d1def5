--------------------------- MODULE BacklightDevices ---------------------------
(***************************************************************************)
(* Which of the kernel's backlight devices the privileged helper drives,   *)
(* what it writes into each of them (backlighthelper_linux.cpp), and what  *)
(* the daemon makes of the helper's three answers when it detects the      *)
(* built-in screen (BacklightDetector in backlightbrightness.cpp).         *)
(*                                                                         *)
(* These are pure functions; what they promise is stated as assumptions    *)
(* that TLC evaluates for all devices within the bounds at the end.        *)
(*                                                                         *)
(* Abstractions.  Directories are sequences of devices in the order the    *)
(* helper lists them.  A device's max is Failed if it cannot be read.  The *)
(* widths of int and qint64 are parameters, one twice the other as in C++. *)
(***************************************************************************)
EXTENDS Integers, SequencesExt

Failed == -1
IntMax(bits) == 2 ^ (bits - 1) - 1

\* The low bits of x as a signed number, as qint64 keeps them.
Wrapped(x, bits) == ((x + 2 ^ (bits - 1)) % 2 ^ bits) - 2 ^ (bits - 1)

\* C++ divides towards zero.
Quotient(a, b) == IF a >= 0 THEN a \div b ELSE -((-a) \div b)

-----------------------------------------------------------------------------
(* The helper.                                                             *)

\* getBacklightTypeDevices: lcd and wled leds; else the backlights of the best type.
OfType(backlights, type) == SelectSeq(backlights, LAMBDA d : d.type = type)
Connected(backlights) == SelectSeq(OfType(backlights, "raw"), LAMBDA d : d.enabled)

getBacklightTypeDevices(leds, backlights) ==
    LET byRank == << leds, OfType(backlights, "firmware"), OfType(backlights, "platform"),
                     Connected(backlights), OfType(backlights, "raw") >>
        present == {rank \in DOMAIN byRank : byRank[rank] # <<>>}
    IN IF present = {} THEN <<>>
       ELSE byRank[CHOOSE rank \in present : \A other \in present : rank <= other]

\* What the helper writes into device if it is asked for value.
Written(devices, device, value, bits) ==
    LET first == IF devices[1].max > 1 THEN devices[1].max ELSE 1
        scaled == Quotient(Wrapped(value * device.max, 2 * bits), first)
    IN IF scaled > IntMax(bits) THEN IntMax(bits) ELSE scaled

\* setbrightness: the levels of all devices, as far as they can be opened.
setbrightness(devices, levels, value, failing, bits) ==
    [i \in DOMAIN devices |-> IF i \in failing THEN levels[i]
                              ELSE Written(devices, devices[i], value, bits)]

\* The answers to brightness, brightnessmax and syspath.  Reading a level fails
\* where it is Failed.
brightness(devices, levels) == IF devices = <<>> THEN Failed ELSE levels[1]
brightnessmax(devices) == IF devices = <<>> \/ devices[1].max <= 0 THEN Failed ELSE devices[1].max
syspath(devices) == IF devices = <<>> THEN Failed ELSE devices[1].path

-----------------------------------------------------------------------------
(* The daemon.                                                             *)

NoDisplay == [path |-> Failed]

\* BacklightDetector::detect: three jobs in a row, the first error ends it.
Detected(devices, levels) ==
    IF Failed \in {brightness(devices, levels), brightnessmax(devices), syspath(devices)}
    THEN NoDisplay
    ELSE [path |-> syspath(devices), brightness |-> brightness(devices, levels),
          max |-> brightnessmax(devices), follows |-> devices[1].type # "led"]

-----------------------------------------------------------------------------
(* What they promise.                                                      *)

Bits == 4

Led(path, max) == [path |-> path, type |-> "led", enabled |-> FALSE, max |-> max]
Backlights(path) == [path : {path}, type : {"firmware", "platform", "raw", "other"},
                     enabled : BOOLEAN, max : {Failed, 0, 1, 3}]

LedLists == {<<>>, <<Led(1, 3)>>, <<Led(1, Failed), Led(2, 1)>>}
BacklightLists == {<<>>} \cup {<<a, b, c>> : a \in Backlights(3), b \in Backlights(4),
                                             c \in {d \in Backlights(5) : d.max = 1}}

\* Either all devices are leds or all are backlights of one type, and of raw
\* ones the helper does not mix those that drive a screen with others: only
\* devices for the same screen are changed together.
ASSUME OneKindOnly ==
    \A leds \in LedLists, backlights \in BacklightLists :
        LET devices == ToSet(getBacklightTypeDevices(leds, backlights))
        IN /\ \A d, e \in devices : d.type = e.type
           /\ (\E d \in devices : d.type = "raw" /\ d.enabled)
                => \A d \in devices : d.enabled

\* A screen is detected exactly if the first device tells its brightness and
\* maximum, and what was detected is that device.
ASSUME DetectedIsFirst ==
    \A leds \in LedLists, backlights \in BacklightLists, level \in {Failed, 0, 1} :
        LET devices == getBacklightTypeDevices(leds, backlights)
            levels == [i \in DOMAIN devices |-> level]
            display == Detected(devices, levels)
        IN /\ display = NoDisplay <=> devices = <<>> \/ level = Failed \/ devices[1].max <= 0
           /\ display # NoDisplay => display.path = devices[1].path /\ display.max > 0

Pairs == {<<Led(1, m), Led(2, n)>> : m \in 1 .. IntMax(Bits), n \in 0 .. IntMax(Bits)}
Requests(devices) == 0 .. devices[1].max

\* The first device gets what was asked for and is read back so; the others
\* follow in proportion, from their darkest to their brightest, and no request
\* for a higher level makes one darker.  With numbers as large as an int holds,
\* nothing overflows.
ASSUME InProportion ==
    \A devices \in Pairs : \A value, higher \in Requests(devices) :
        LET levels == [i \in 1 .. 2 |-> 0]
            after == setbrightness(devices, levels, value, {}, Bits)
        IN /\ brightness(devices, after) = value
           /\ after[2] = (value * devices[2].max) \div devices[1].max
           /\ value = devices[1].max => after[2] = devices[2].max
           /\ value <= higher
                => after[2] <= setbrightness(devices, after, higher, {}, Bits)[2]

\* Whatever fails to be opened, what was written is within each device's range.
ASSUME InRange ==
    \A devices \in Pairs : \A value \in Requests(devices) : \A failing \in SUBSET {1, 2} :
        \A i \in 1 .. 2 :
            setbrightness(devices, <<0, 0>>, value, failing, Bits)[i] \in 0 .. devices[i].max
=============================================================================
