---------------------------- MODULE RemainingTime ----------------------------
(***************************************************************************)
(* The remaining time of the batteries: what BatteryController makes of    *)
(* the devices' energies and rates (updateDeviceProps, setBatteryRate) and *)
(* what UPowerDevice takes from UPower.  The smoothed time goes by a       *)
(* moving average of the rates of discharge in which a second counts for   *)
(* half a per cent, a minute at most at a time.                            *)
(*                                                                         *)
(* These are pure functions; what they promise is stated as assumptions    *)
(* that TLC evaluates for all sequences of readings within the bounds at   *)
(* the end.  Times are in the unit of energy divided by rate; the rates    *)
(* below are multiples of Share ^ 2, so that two averages are exact.  A    *)
(* negative double that is cast to an unsigned time may become any number: *)
(* it is Undefined here.                                                   *)
(***************************************************************************)
EXTENDS Integers, FiniteSetsExt, SequencesExt

Share == 200
Undefined == -1

Magnitude(x) == IF x < 0 THEN -x ELSE x

\* UPowerDevice: the states that count, from UPower's numbers.
State(number) == CASE number = 1 -> "charging" [] number = 2 -> "discharging"
                   [] number = 4 -> "full" [] OTHER -> "unknown"

-----------------------------------------------------------------------------
(* updateDeviceProps.                                                      *)

\* The sign is the state's, whatever UPower's rate has.
Rate(device) == CASE State(device.state) = "charging"    -> Magnitude(device.rate)
                  [] State(device.state) = "discharging" -> -Magnitude(device.rate)
                  [] OTHER -> 0

Counts(device) == device.supply /\ device.present /\ device.battery

\* The sum of the devices; a full battery has energy, but neither rate nor time.
Summed(devices) ==
    LET counted == {d \in devices : Counts(d)}
        moving == {d \in counted : State(d.state) # "full"}
    IN [energy |-> MapThenSumSet(LAMBDA d : d.energy, counted),
        full   |-> MapThenSumSet(LAMBDA d : d.full, counted),
        rate   |-> MapThenSumSet(Rate, moving),
        stamp  |-> Max({0} \cup {d.stamp : d \in moving})]

-----------------------------------------------------------------------------
(* setBatteryRate.                                                         *)

Cast(numerator, rate) == IF numerator < 0 THEN Undefined ELSE numerator \div rate

Remaining(reading) ==
    CASE reading.rate > 0 -> Cast(reading.full - reading.energy, reading.rate)
      [] reading.rate < 0 -> Cast(reading.energy, -reading.rate)
      [] OTHER -> 0

\* Unsigned: a time before the last one is as long ago as can be.
Weight(stamp, last) == IF stamp < last \/ stamp - last > 60 THEN 60 ELSE stamp - last

emafilter(last, update, weight) == (last * (Share - weight) + update * weight) \div Share

\* m_smoothedBatteryDischargeRate and m_lastRateTimestamp: the first rate is
\* taken as it is, and its time is not kept.
Smooth(b, reading) ==
    IF b.rate = 0 THEN [b EXCEPT !.rate = reading.rate]
    ELSE [b EXCEPT !.rate = emafilter(b.rate, reading.rate, Weight(reading.stamp, b.stamp)),
                   !.stamp = reading.stamp]

setBatteryRate(b, reading) ==
    LET time == Remaining(reading)
        smooth == Smooth(b, reading)
    IN IF reading.rate > 0 \/ time = 0 THEN [b EXCEPT !.remaining = time, !.smoothed = time]
       ELSE [smooth EXCEPT !.remaining = time, !.smoothed = Cast(reading.energy, -smooth.rate)]

\* updateDeviceProps: UPower's display device, if there is one, stands for all.
updateDeviceProps(b, display, devices) ==
    IF display = {} THEN setBatteryRate(b, Summed(devices))
    ELSE LET d == CHOOSE d \in display : TRUE
         IN IF d.present THEN setBatteryRate(b, [energy |-> d.energy, full |-> d.full,
                                                rate |-> Rate(d), stamp |-> d.stamp])
            ELSE b

Start == [remaining |-> 0, smoothed |-> 0, rate |-> 0, stamp |-> 0]

After(readings) == FoldLeft(setBatteryRate, Start, readings)

-----------------------------------------------------------------------------
(* What they promise.                                                      *)

Unit == Share * Share
Readings == [energy : {12 * Unit}, full : {20 * Unit}, rate : {-3 * Unit, -1 * Unit, 0, 2 * Unit},
             stamp : {5, 30, 300}]
Histories == UNION {[1 .. n -> Readings] : n \in 1 .. 3}

Discharges(readings) == {r.rate : r \in {q \in ToSet(readings) : q.rate < 0}}

\* The average lies between the rates it was made of: it never turns into a
\* rate of charging and never vanishes, which would be divided by, and the time
\* it gives lies between the times that these rates would give.
ASSUME BetweenRates ==
    \A readings \in Histories :
        LET b == After(readings) rates == Discharges(readings)
        IN IF rates = {} THEN b.rate = 0
           ELSE /\ Min(rates) <= b.rate /\ b.rate <= Max(rates)
                /\ Last(readings).rate < 0 =>
                    /\ b.smoothed >= Last(readings).energy \div (-Min(rates))
                    /\ b.smoothed <= Last(readings).energy \div (-Max(rates))

\* Charging interrupts the average but does not become part of it, and is
\* itself never averaged.
ASSUME ChargingIsNotAveraged ==
    \A readings \in Histories :
        LET b == After(readings)
            without == After(SelectSeq(readings, LAMBDA r : r.rate < 0))
        IN /\ b.rate = without.rate
           /\ Last(readings).rate >= 0 => b.smoothed = b.remaining

\* One rate changes the average by three tenths of the difference at most.
ASSUME OneRateCountsLittle ==
    \A readings \in Histories : \A next \in Readings :
        LET old == After(readings).rate
            then == After(Append(readings, next)).rate
        IN old # 0 /\ Len(readings) < 3 => 10 * Magnitude(then - old) <= 3 * Magnitude(next.rate - old)

Devices(path) ==
    {d \in [path : {path}, supply : BOOLEAN, present : BOOLEAN, battery : BOOLEAN,
            state : {0, 1, 2, 4}, rate : {-2, 3}, energy : {1, 4}, full : {4}, stamp : {7, 9}] :
        d.state = 4 => d.energy = 4}

\* Two batteries: one that is not there changes nothing, a charging one never
\* counts against the time, and all full means nothing remains to be waited for.
ASSUME SummedUp ==
    \A d \in Devices("BAT0"), e \in Devices("BAT1") :
        LET both == Summed({d, e}) one == Summed({d})
        IN /\ ~Counts(e) => both = one
           /\ Counts(d) /\ Counts(e) =>
                /\ both.energy = d.energy + e.energy /\ both.energy <= both.full
                /\ both.rate = Rate(d) + Rate(e)
                /\ d.state = 4 /\ e.state = 4 => Remaining(both) = 0
                /\ Remaining(both) # Undefined

\* A single battery tells the same as the display device that stands for it.
ASSUME SameAsDisplayDevice ==
    \A d \in Devices("BAT0") : \A rate \in {-3 * Unit, 0}, stamp \in {0, 8} :
        LET b == [Start EXCEPT !.rate = rate, !.stamp = stamp]
        IN Counts(d) => updateDeviceProps(b, {d}, {}) = updateDeviceProps(b, {}, {d})
=============================================================================
