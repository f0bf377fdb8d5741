--------------------------- MODULE SetpointProofs ---------------------------
(***************************************************************************)
(* normalize in both units, for every temperature, and what follows for    *)
(* the setpoints that callers are shown.                                   *)
(***************************************************************************)
EXTENDS Setpoints, TLAPS

\* The range is checked before the rounding; the rounding never leaves it, so
\* that the second check of normalize turns nothing down.
THEOREM RangeSuffices ==
    ASSUME NEW c \in Int
    PROVE  Normalizes(c) <=> InRange(c)
<1>1. CASE Fahrenheit
  BY <1>1 DEF Normalizes, InRange, Encoded, Nearest, FromDevice, Whole, Zero,
              Epsilon, Minimum, Maximum, Celsius
<1>2. CASE ~Fahrenheit
  BY <1>2 DEF Normalizes, InRange, Encoded, Nearest, FromDevice, Whole, Zero,
              Epsilon, Minimum, Maximum, Celsius
<1> QED BY <1>1, <1>2

\* A whole degree of the unit that normalize could have returned is taken again
\* as itself, even when it comes back a ten-thousandth of a degree off.
THEOREM NormalizeStable ==
    ASSUME NEW v \in Minimum .. Maximum, NEW c \in Int,
           FromDevice(v) - Epsilon <= c, c <= FromDevice(v) + Epsilon
    PROVE  Normalizes(c) /\ Encoded(c) = v
<1>1. CASE Fahrenheit
  BY <1>1 DEF Normalizes, InRange, Encoded, Nearest, FromDevice, Whole, Zero,
              Epsilon, Minimum, Maximum, Celsius
<1>2. CASE ~Fahrenheit
  BY <1>2 DEF Normalizes, InRange, Encoded, Nearest, FromDevice, Whole, Zero,
              Epsilon, Minimum, Maximum, Celsius
<1> QED BY <1>1, <1>2

\* The half degrees of the device in which the engine's model counts a caller's
\* target lose nothing: it accepts the same targets and rounds them alike.
THEOREM HalfDegreesAgree ==
    ASSUME NEW half \in Int
    PROVE  LET c == (half - 2 * Zero) * (Whole \div 2) IN
           /\ Normalizes(c) <=> Encodable(half)
           /\ Encoded(c) = Rounded(half)
<1>1. CASE Fahrenheit
  BY <1>1 DEF Normalizes, InRange, Encoded, Nearest, FromDevice, Whole, Zero,
              Epsilon, Minimum, Maximum, Celsius, Encodable, Rounded
<1>2. CASE ~Fahrenheit
  BY <1>2 DEF Normalizes, InRange, Encoded, Nearest, FromDevice, Whole, Zero,
              Epsilon, Minimum, Maximum, Celsius, Encodable, Rounded
<1> QED BY <1>1, <1>2

-----------------------------------------------------------------------------
(* What callers are shown.                                                 *)

\* A target that is shown is a whole degree of the unit.
WholeTarget == target = <<>> \/ \E v \in Int : target = <<FromDevice(v)>>

SetpointsInv ==
    /\ limits \in Limits
    /\ WholeTarget

LEMMA FromDeviceInt ==
    ASSUME NEW v \in Int
    PROVE  FromDevice(v) \in Int
BY DEF FromDevice, Zero, Whole, Celsius

LEMMA EncodedInt ==
    ASSUME NEW c \in Int
    PROVE  Encoded(c) \in Int
<1>1. CASE Fahrenheit
  BY <1>1 DEF Encoded, Nearest, Whole, Zero, Celsius
<1>2. CASE ~Fahrenheit
  BY <1>2 DEF Encoded, Nearest, Whole, Zero, Celsius
<1> QED BY <1>1, <1>2

\* Whatever is asked for, what is shown afterwards is a whole degree.
LEMMA AskKeepsInv ==
    ASSUME SetpointsInv, NEW c \in Int, Ask(c)
    PROVE  SetpointsInv'
<1>1. CASE Normalizes(c)
  <2>1. target' = <<FromDevice(Encoded(c))>> /\ limits' = limits
    BY <1>1 DEF Ask
  <2>2. Encoded(c) \in Int
    BY EncodedInt
  <2>3. WholeTarget'
    BY <2>1, <2>2 DEF WholeTarget
  <2> QED BY <2>1, <2>3 DEF SetpointsInv
<1>2. CASE ~Normalizes(c)
  BY <1>2 DEF Ask, SetpointsInv, WholeTarget
<1> QED BY <1>1, <1>2

LEMMA LimitsAreIntegers ==
    ASSUME NEW l \in Limits
    PROVE  l.min \in Int /\ l.max \in Int /\ l.step \in Nat /\ l.min <= l.max
<1>1. DefaultLimits.min \in Int /\ DefaultLimits.max \in Int /\ DefaultLimits.step \in Nat
  BY DEF DefaultLimits, FromDevice, Minimum, Zero, Whole, Celsius
<1> QED BY <1>1, SetpointAssumption DEF Limits

LEMMA OfferedInt ==
    ASSUME SetpointsInv, NEW c \in Offered, NEW d \in Drifts
    PROVE  c + d \in Int
<1>1. limits.min \in Int /\ limits.max \in Int /\ limits.step \in Nat
  BY LimitsAreIntegers DEF SetpointsInv
<1>2. d \in Int
  BY SetpointAssumption DEF Drifts
<1>3. CASE c = limits.max
  BY <1>1, <1>2, <1>3
<1>4. CASE c # limits.max
  <2>1. PICK k \in Int : c = limits.min + k * limits.step
    BY <1>4 DEF Offered
  <2> QED BY <1>1, <1>2, <2>1
<1> QED BY <1>3, <1>4

\* Whatever the limits and the calls are, a target that is kept is always one of
\* the unit's whole degrees.
THEOREM SetpointsAreWhole == SetpointsSpec => []SetpointsInv
<1>1. SetpointsInit => SetpointsInv
  BY DEF SetpointsInit, SetpointsInv, WholeTarget
<1>2. SetpointsInv /\ [SetpointsNext]_setpoints => SetpointsInv'
  <2> SUFFICES ASSUME SetpointsInv, [SetpointsNext]_setpoints PROVE SetpointsInv'
    OBVIOUS
  <2>1. CASE Slide
    <3>1. PICK c \in Offered, d \in Drifts : Ask(c + d)
      BY <2>1 DEF Slide
    <3> QED BY <3>1, OfferedInt, AskKeepsInv
  <2>2. ASSUME NEW k \in {-1, 1}, Press(k)
        PROVE  SetpointsInv'
    <3>1. PICK d \in Drifts : Ask(Within(target[1] + k * limits.step) + d)
      BY <2>2 DEF Press
    <3>2. target[1] \in Int
      BY <2>2, FromDeviceInt DEF Press, SetpointsInv, WholeTarget
    <3>3. limits.min \in Int /\ limits.max \in Int /\ limits.step \in Nat
      BY LimitsAreIntegers DEF SetpointsInv
    <3>4. target[1] + k * limits.step \in Int
      BY <3>2, <3>3
    <3>5. Within(target[1] + k * limits.step) + d \in Int
      BY <3>3, <3>4, SetpointAssumption DEF Within, Drifts
    <3> QED BY <3>1, <3>5, AskKeepsInv
  <2>3. CASE Repeat
    <3>1. PICK d \in Drifts : Ask(target[1] + d)
      BY <2>3 DEF Repeat
    <3>2. target[1] + d \in Int
      BY <2>3, FromDeviceInt, SetpointAssumption
         DEF Repeat, SetpointsInv, WholeTarget, Drifts
    <3> QED BY <3>1, <3>2, AskKeepsInv
  <2>4. CASE Report
    <3>1. PICK v \in KnownSetpoint : target' = <<FromDevice(v)>>
      BY <2>4 DEF Report
    <3>2. v \in Int
      BY DEF KnownSetpoint
    <3>3. WholeTarget'
      BY <3>1, <3>2 DEF WholeTarget
    <3> QED BY <2>4, <3>1, <3>2, <3>3 DEF Report, SetpointsInv
  <2>5. CASE UNCHANGED setpoints
    BY <2>5 DEF setpoints, SetpointsInv, WholeTarget
  <2> QED BY <2>1, <2>2, <2>3, <2>4, <2>5 DEF SetpointsNext
<1> QED BY <1>1, <1>2, PTL DEF SetpointsSpec

\* A target within the unit's range survives being asked for again.
THEOREM NoCreep == SetpointsSpec => RepeatKeepsTarget
<1>1. ASSUME SetpointsInv, Repeat,
             FromDevice(Minimum) <= target[1], target[1] <= FromDevice(Maximum)
      PROVE  outcome' = "taken" /\ target' = target
  <2>1. PICK d \in Drifts : Ask(target[1] + d)
    BY <1>1 DEF Repeat
  <2>2. PICK v \in Int : target = <<FromDevice(v)>>
    BY <1>1 DEF SetpointsInv, WholeTarget, Repeat
  <2>3. target[1] = FromDevice(v) /\ target[1] \in Int
    BY <2>2, FromDeviceInt
  <2>4. v \in Minimum .. Maximum
    <3>1. CASE Fahrenheit
      BY <1>1, <2>3, <3>1 DEF FromDevice, Minimum, Maximum, Zero, Whole, Celsius
    <3>2. CASE ~Fahrenheit
      BY <1>1, <2>3, <3>2 DEF FromDevice, Minimum, Maximum, Zero, Whole, Celsius
    <3> QED BY <3>1, <3>2
  <2>5. d \in Int /\ -Epsilon <= d /\ d <= Epsilon
    BY SetpointAssumption DEF Drifts, Epsilon
  <2>6. Normalizes(target[1] + d) /\ Encoded(target[1] + d) = v
    BY <2>3, <2>4, <2>5, NormalizeStable DEF Epsilon
  <2>7. outcome' = "taken" /\ target' = <<FromDevice(v)>>
    BY <2>1, <2>6 DEF Ask
  <2> QED BY <2>2, <2>7
<1>2. SetpointsInv => [ Repeat /\ FromDevice(Minimum) <= target[1]
                               /\ target[1] <= FromDevice(Maximum)
                        => outcome' = "taken" /\ target' = target ]_setpoints
  BY <1>1
<1> QED BY <1>2, SetpointsAreWhole, PTL DEF RepeatKeepsTarget

\* A step that an installation may ask for is a whole number of degrees up to a
\* thousandth, which the rounding of normalize takes away again.
LEMMA StepIsWhole ==
    ASSUME NEW l \in Limits
    PROVE  /\ l.step \in Nat /\ Degrees(l.step) \in Int
           /\ l.step - Degrees(l.step) * Whole \in -Thousandth(Whole) .. Thousandth(Whole)
<1>1. l.step \in Nat
  BY LimitsAreIntegers
<1>2. Degrees(l.step) \in Int
  BY <1>1 DEF Degrees, Whole, Celsius
<1>3. CASE l.step = DefaultLimits.step
  BY <1>1, <1>3 DEF DefaultLimits, Degrees, Whole, Celsius, Thousandth
<1>4. CASE ValidStep(l.step)
  <2>1. l.step - Degrees(l.step) * Whole \in -Thousandth(Whole) .. Thousandth(Whole)
    BY <1>4 DEF ValidStep
  <2> QED BY <1>1, <1>2, <2>1
<1> QED BY <1>1, <1>2, <1>3, <1>4 DEF Limits

LEMMA NormalWhole ==
    ASSUME NEW v \in Int
    PROVE  Encoded(FromDevice(v)) = v
<1>1. CASE Fahrenheit
  BY <1>1 DEF Encoded, Nearest, FromDevice, Whole, Zero, Celsius
<1>2. CASE ~Fahrenheit
  BY <1>2 DEF Encoded, Nearest, FromDevice, Whole, Zero, Celsius
<1> QED BY <1>1, <1>2

\* A step of n of the unit's degrees, and where k of them lead from v.
Nominal(step, n) ==
    step - n * Whole \in -Thousandth(Whole) .. Thousandth(Whole)

Moved(v, k, step) == FromDevice(v) + k * step

LEMMA StepEncoded ==
    ASSUME NEW v \in Int, NEW step \in Int, NEW n \in Int, NEW c \in Int,
           NEW k \in Int, k = 1 \/ k = -1, Nominal(step, n),
           Moved(v, k, step) - Epsilon <= c, c <= Moved(v, k, step) + Epsilon
    PROVE  Encoded(c) = v + k * n
<1>1. CASE Fahrenheit
  <2>1. CASE k = 1
    BY <1>1, <2>1 DEF Nominal, Moved, Encoded, Nearest, FromDevice, Whole, Zero, Celsius,
                   Thousandth, Epsilon
  <2>2. CASE k = -1
    BY <1>1, <2>2 DEF Nominal, Moved, Encoded, Nearest, FromDevice, Whole, Zero, Celsius,
                   Thousandth, Epsilon
  <2> QED BY <2>1, <2>2
<1>2. CASE ~Fahrenheit
  <2>1. CASE k = 1
    BY <1>2, <2>1 DEF Nominal, Moved, Encoded, Nearest, FromDevice, Whole, Zero, Celsius,
                   Thousandth, Epsilon
  <2>2. CASE k = -1
    BY <1>2, <2>2 DEF Nominal, Moved, Encoded, Nearest, FromDevice, Whole, Zero, Celsius,
                   Thousandth, Epsilon
  <2> QED BY <2>1, <2>2
<1> QED BY <1>1, <1>2

\* "Fahrenheit controls use whole Fahrenheit steps": a button that is taken
\* changes the setpoint by whole degrees of the unit, for every step that an
\* installation may ask for, from wherever the last report left the target.
THEOREM PressesAreWhole == SetpointsSpec => PressIsWhole
<1> DEFINE WholePress(k) ==
       /\ Press(k) /\ outcome' = "taken"
       /\ limits.min <= target[1] + k * limits.step
       /\ target[1] + k * limits.step <= limits.max
       => Encoded(target'[1]) = Encoded(target[1]) + k * Degrees(limits.step)
<1>1. ASSUME SetpointsInv, NEW k \in {-1, 1}, Press(k), outcome' = "taken",
             limits.min <= target[1] + k * limits.step,
             target[1] + k * limits.step <= limits.max
      PROVE  Encoded(target'[1]) = Encoded(target[1]) + k * Degrees(limits.step)
  <2> DEFINE n == Degrees(limits.step)
             c == target[1] + k * limits.step
  <2>1. PICK v \in Int : target = <<FromDevice(v)>>
    BY <1>1 DEF SetpointsInv, WholeTarget, Press
  <2>2. target[1] = FromDevice(v) /\ target[1] \in Int
    BY <2>1, FromDeviceInt
  <2>3. /\ limits.step \in Nat /\ n \in Int
        /\ limits.step - n * Whole \in -Thousandth(Whole) .. Thousandth(Whole)
    BY <1>1, StepIsWhole DEF SetpointsInv
  <2>4. limits.min \in Int /\ limits.max \in Int
    BY <1>1, LimitsAreIntegers DEF SetpointsInv
  <2>5. c \in Int /\ Within(c) = c
    BY <1>1, <2>2, <2>3, <2>4 DEF Within
  <2>6. PICK d \in Drifts : Ask(c + d)
    BY <1>1, <2>5 DEF Press
  <2>7. d \in Int /\ -Epsilon <= d /\ d <= Epsilon
    BY SetpointAssumption DEF Drifts, Epsilon
  <2> HIDE DEF n, c
  <2>8. Encoded(c + d) = v + k * n
    <3>1. c + d \in Int /\ c - Epsilon <= c + d /\ c + d <= c + Epsilon
      BY <2>5, <2>7 DEF Epsilon
    <3>2. c = Moved(v, k, limits.step) /\ Nominal(limits.step, n)
      BY <2>2, <2>3 DEF c, Moved, Nominal
    <3> QED BY <1>1, <2>1, <2>3, <3>1, <3>2, StepEncoded
  <2>9. Encoded(FromDevice(v)) = v
    BY NormalWhole
  <2>10. target' = <<FromDevice(Encoded(c + d))>>
    BY <1>1, <2>6 DEF Ask
  <2>11. v + k * n \in Int
    BY <1>1, <2>1, <2>3
  <2>12. Encoded(FromDevice(v + k * n)) = v + k * n
    BY <2>11, NormalWhole
  <2>13. target'[1] = FromDevice(v + k * n)
    BY <2>8, <2>10
  <2> QED BY <2>2, <2>9, <2>12, <2>13 DEF n
<1>2. SetpointsInv /\ [SetpointsNext]_setpoints =>
        [\A k \in {-1, 1} : WholePress(k)]_setpoints
  BY <1>1
<1> QED BY <1>2, SetpointsAreWhole, PTL DEF PressIsWhole, SetpointsSpec

\* With overrides that are within the range itself, and not only within the
\* tolerance of the configuration, everything that is offered is taken.
THEOREM ExactLimitsAreTaken ==
    ASSUME \A c \in Overrides : ValidOverride(c) =>
               FromDevice(Minimum) <= c /\ c <= FromDevice(Maximum)
    PROVE  SetpointsSpec => OfferedIsTaken
<1>1. ASSUME SetpointsInv, Slide
      PROVE  outcome' = "taken"
  <2>1. PICK c \in Offered, d \in Drifts : Ask(c + d)
    BY <1>1 DEF Slide
  <2>2. /\ limits.min \in Int /\ limits.max \in Int
        /\ limits.step \in Nat /\ limits.min <= limits.max
    BY <1>1, LimitsAreIntegers DEF SetpointsInv
  <2>3. FromDevice(Minimum) <= limits.min /\ limits.max <= FromDevice(Maximum)
    <3>1. FromDevice(Minimum) <= DefaultLimits.min /\ DefaultLimits.max <= FromDevice(Maximum)
      <4>1. CASE Fahrenheit
        BY <4>1 DEF DefaultLimits, FromDevice, Minimum, Maximum, Zero, Whole, Celsius
      <4>2. CASE ~Fahrenheit
        BY <4>2 DEF DefaultLimits, FromDevice, Minimum, Maximum, Zero, Whole, Celsius
      <4> QED BY <4>1, <4>2
    <3> QED BY <1>1, <3>1 DEF SetpointsInv, Limits
  <2>4. limits.step # 0
    <3>1. DefaultLimits.step # 0
      BY DEF DefaultLimits, Whole, Celsius
    <3>2. \A s \in OverrideSteps : ValidStep(s) => s # 0
      BY SetpointAssumption DEF ValidStep, Whole, Celsius, Thousandth
    <3> QED BY <1>1, <3>1, <3>2 DEF SetpointsInv, Limits
  <2>5. c \in Int /\ limits.min <= c /\ c <= limits.max
    <3>1. CASE c = limits.max
      BY <2>2, <3>1
    <3>2. CASE c # limits.max
      <4>1. PICK k \in Nat : c = limits.min + k * limits.step /\ c <= limits.max
        BY <3>2 DEF Offered, Maximum, Minimum
      <4>2. 0 <= k * limits.step /\ k * limits.step \in Nat
        BY <2>2
      <4> QED BY <2>2, <4>1, <4>2
    <3> QED BY <3>1, <3>2
  <2>6. d \in Int /\ -Epsilon <= d /\ d <= Epsilon
    BY SetpointAssumption DEF Drifts, Epsilon
  <2>7. InRange(c + d)
    BY <2>2, <2>3, <2>5, <2>6, FromDeviceInt DEF InRange, Epsilon, Minimum, Maximum
  <2> QED BY <2>1, <2>5, <2>6, <2>7, RangeSuffices DEF Ask
<1>2. SetpointsInv => [ Slide => outcome' = "taken" ]_setpoints
  BY <1>1
<1> QED BY <1>2, SetpointsAreWhole, PTL DEF OfferedIsTaken
=============================================================================
