----------------------------- MODULE Setpoints -----------------------------
(***************************************************************************)
(* Target temperatures between the callers, the component and the unit:    *)
(* the limits that are advertised, what callers make of them, and what     *)
(* temperature::normalize makes of a call.  A temperature is a number of   *)
(* 1/90000 degrees Celsius, in which whole degrees of either unit, the     *)
(* tolerances of the code and thousandths of a degree are all integers.    *)
(* Floating point moves a value by less than one of these; what a value    *)
(* loses on its way to Home Assistant and back is Drift.                   *)
(***************************************************************************)
EXTENDS Intents

CONSTANTS
    Drift,          \* how far from what was shown a call may come back
    Overrides,      \* minima and maxima that a configuration may ask for
    OverrideSteps   \* the same for steps

ASSUME SetpointAssumption ==
    /\ Drift \in 0 .. 9
    /\ Overrides \subseteq Int /\ OverrideSteps \subseteq Nat

Celsius == 90000                                    \* one degree
Whole   == IF Fahrenheit THEN 50000 ELSE Celsius    \* one of the unit's
Zero    == IF Fahrenheit THEN 32 ELSE 0             \* at 0 degrees Celsius
Epsilon == 9                                        \* 0.0001 degrees

\* from_device.
FromDevice(v) == (v - Zero) * Whole

\* std::round; no target comes near a negative number.
Nearest(c) == (c + Whole \div 2) \div Whole + Zero

\* Mutant: no tolerance.
InRangeExactly(c) == FromDevice(Minimum) <= c /\ c <= FromDevice(Maximum)

InRange(c) ==
    FromDevice(Minimum) - Epsilon <= c /\ c <= FromDevice(Maximum) + Epsilon

\* Mutant: the fraction is cut off.
EncodedDown(c) == c \div Whole + Zero

Encoded(c) == Nearest(c)

\* normalize takes c, and makes it the encodable setpoint FromDevice(Encoded(c)).
Normalizes(c) == InRange(c) /\ Minimum <= Encoded(c) /\ Encoded(c) <= Maximum

-----------------------------------------------------------------------------
(* The limits that are advertised.                                         *)

\* Mutant: the coldest setpoint is advertised in the wrong unit.
DefaultLimitsCelsius == [min |-> 16 * Celsius, max |-> 30 * Celsius, step |-> Whole]

\* traits.
DefaultLimits == [min |-> FromDevice(Minimum), max |-> 30 * Celsius, step |-> Whole]

Thousandth(x) == x \div 1000

\* A minimum or a maximum that validate_visual lets pass.
ValidOverride(c) ==
    /\ FromDevice(Minimum) - Thousandth(Celsius) <= c
    /\ c <= FromDevice(Maximum) + Thousandth(Celsius)
    /\ c - FromDevice(Nearest(c)) \in -Thousandth(Whole) .. Thousandth(Whole)

Degrees(s) == (s + Whole \div 2) \div Whole

ValidStep(s) ==
    /\ s >= Whole - Thousandth(Celsius)
    /\ s - Degrees(s) * Whole \in -Thousandth(Whole) .. Thousandth(Whole)

\* What an installation may advertise: traits with the overrides that pass.
Limits ==
    {l \in [min  : {DefaultLimits.min} \cup {c \in Overrides : ValidOverride(c)},
            max  : {DefaultLimits.max} \cup {c \in Overrides : ValidOverride(c)},
            step : {DefaultLimits.step} \cup {s \in OverrideSteps : ValidStep(s)}] :
        l.min <= l.max}

-----------------------------------------------------------------------------
VARIABLES
    limits,     \* advertised
    target,     \* target_temperature: <<c>>, or <<>> as long as there is none
    outcome     \* of the last call: "none" made, "taken", "refused"

setpoints == <<limits, target, outcome>>

SetpointsInit == limits \in Limits /\ target = <<>> /\ outcome = "none"

\* control with a target, in optimistic mode or with a unit that obeys.
Ask(c) ==
    /\ UNCHANGED limits
    /\ IF Normalizes(c)
         THEN target' = <<FromDevice(Encoded(c))>> /\ outcome' = "taken"
         ELSE outcome' = "refused" /\ UNCHANGED target

Drifts == {-Drift, 0, Drift}

\* A slider offers the minimum, whole steps above it, and the maximum.
Offered ==
    {c \in {limits.min + k * limits.step : k \in 0 .. (Maximum - Minimum)} :
        c <= limits.max} \cup {limits.max}

Slide == \E c \in Offered, d \in Drifts : Ask(c + d)

\* A button steps up or down from what is shown, within the limits.
Within(c) == IF c < limits.min THEN limits.min
             ELSE IF c > limits.max THEN limits.max ELSE c

Press(k) ==
    /\ target # <<>>
    /\ \E d \in Drifts : Ask(Within(target[1] + k * limits.step) + d)

\* What is shown is asked for again, by a scene or with another setting.
Repeat == target # <<>> /\ \E d \in Drifts : Ask(target[1] + d)

KnownSetpoint == IF Fahrenheit THEN 46 .. 90 ELSE 8 .. 32

\* The unit reports a setpoint of its own, which may be out of the limits.
Report ==
    /\ \E v \in KnownSetpoint : target' = <<FromDevice(v)>>
    /\ outcome' = "none" /\ UNCHANGED limits

SetpointsNext == Slide \/ Press(-1) \/ Press(1) \/ Repeat \/ Report

SetpointsSpec == SetpointsInit /\ [][SetpointsNext]_setpoints

-----------------------------------------------------------------------------
\* "Visual overrides must stay within encodable limits": whatever the slider
\* offers is taken.  It does not hold for limits typed with three decimals: the
\* configuration is checked with a tolerance of 0.001 degrees, a call with one
\* of 0.0001.
OfferedIsTaken ==
    [][ Slide => outcome' = "taken" ]_setpoints

\* A target within the unit's range that is asked for again as it was shown is
\* taken and stays what it is: no setpoint creeps by being repeated.
RepeatKeepsTarget ==
    [][ Repeat /\ FromDevice(Minimum) <= target[1] /\ target[1] <= FromDevice(Maximum)
        => outcome' = "taken" /\ target' = target ]_setpoints

\* "Fahrenheit controls use whole Fahrenheit steps": a button changes the unit's
\* setpoint by whole steps, from wherever the last report left it, up to the
\* limits.
PressIsWhole ==
    [][ \A k \in {-1, 1} :
           /\ Press(k) /\ outcome' = "taken"
           /\ limits.min <= target[1] + k * limits.step
           /\ target[1] + k * limits.step <= limits.max
           => Encoded(target'[1]) = Encoded(target[1]) + k * Degrees(limits.step)
      ]_setpoints
=============================================================================
