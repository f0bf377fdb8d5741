------------------------------ MODULE Intents ------------------------------
(***************************************************************************)
(* What a caller asks of the air conditioner and how the engine turns it   *)
(* into setters.  An intent is a function whose domain is the set of       *)
(* fields it names (the bits of Request::fields), because the code reads a *)
(* value of a Request only under its bit; every value is a number, as in   *)
(* the code.  A status holds what the engine reads of a DeviceStatus.      *)
(***************************************************************************)
EXTENDS Integers, Sequences, Functions

CONSTANTS
    Fahrenheit,         \* the configured unit of the device
    DryOffsetEnabled    \* a Dry adjustment number is configured

ASSUME UnitAssumption == Fahrenheit \in BOOLEAN /\ DryOffsetEnabled \in BOOLEAN

Field == {"mode", "temperature", "fan", "swing", "preset", "display",
          "power", "dryOffset"}

Dry     == 3
ModeOff == 4
Mode    == 0 .. ModeOff         \* fan only, heat, cool, dry, off
Fan     == {0, 2, 10, 14, 18}   \* auto, quiet, low, medium, high
Swing   == 0 .. 3               \* the sum of the axes that move
Horizontal == 1
Vertical   == 2
Preset  == 0 .. 2               \* none, boost, eco
Offset  == -7 .. 7

\* DeviceStatus, the members the engine reads.  compensation is the upper
\* nibble of byte 26, the one half of it that is ever looked at; swing stands
\* for left_right and up_down, which are only read together.
Status == [run : 0 .. 3, mode : 0 .. 15, setpoint : 0 .. 255, wind : 0 .. 255,
           compensation : 0 .. 15, swing : Swing, backLed : 0 .. 1]

\* DeviceStatus{}: every member zero.
NoStatus == [run |-> 0, mode |-> 0, setpoint |-> 0, wind |-> 0,
             compensation |-> 0, swing |-> 0, backLed |-> 0]

IsIntent(r) == DOMAIN r \subseteq Field /\ r \in [DOMAIN r -> Int]

NoIntent == [f \in {} |-> 0]

\* field(mask, source): the same intent, cut down to some fields.
Only(r, F) == [f \in DOMAIN r \cap F |-> r[f]]

Names(r, f) == f \in DOMAIN r

-----------------------------------------------------------------------------
(* Temperatures.  A caller's Celsius target is counted in half degrees of  *)
(* the device's unit, so that the rounding of the code is visible; after   *)
(* Normalized it is the whole device degree that is put on the wire, which *)
(* from_device maps one to one to the Celsius value the code keeps.        *)

Minimum == IF Fahrenheit THEN 61 ELSE 16
Maximum == IF Fahrenheit THEN 90 ELSE 32

\* The range is judged before the rounding; NaN is any value out of range.
Encodable(half) == 2 * Minimum <= half /\ half <= 2 * Maximum

Rounded(half) == (half + 1) \div 2

Normalized(r) ==
    IF Names(r, "temperature")
      THEN [r EXCEPT !["temperature"] = Rounded(@)]
      ELSE r

\* The conditions under which enqueue takes a request at all.
Valid(r) ==
    /\ DOMAIN r # {}
    /\ ~Names(r, "power")
    /\ Names(r, "dryOffset") =>
          /\ DryOffsetEnabled /\ ~Fahrenheit
          /\ DOMAIN r = {"dryOffset"}
          /\ r["dryOffset"] \in Offset
    /\ Names(r, "mode") => r["mode"] \in Mode
    /\ Names(r, "swing") => r["swing"] \in Swing
    /\ Names(r, "preset") => r["preset"] \in Preset
    /\ Names(r, "fan") => r["fan"] \in Fan
    /\ Names(r, "temperature") => Encodable(r["temperature"])

\* A newer value of one of these makes an older, unsent one pointless.
Absolute(r) ==
    \E f \in {"temperature", "fan", "display", "dryOffset"} : DOMAIN r = {f}

-----------------------------------------------------------------------------
(* Reading a status.                                                       *)

NormalFan(wind) == IF wind = 1 THEN 0 ELSE wind

\* Sign and magnitude; the nibble 8 ("minus zero") is not an offset.
Nibble(offset) == IF offset < 0 THEN 8 - offset ELSE offset
OffsetOf(nibble) == IF nibble < 8 THEN nibble ELSE 8 - nibble
UnknownNibble == 8

Drying(s) == s.run # 0 /\ s.mode = Dry

\* Engine::matches: the status shows every field of the intent.  A preset is
\* never shown: there is no verified feedback for it.
Matches(s, r) ==
    /\ Names(r, "power") => s.run # 0
    /\ Names(r, "mode") =>
          IF r["mode"] = ModeOff THEN s.run = 0
                                 ELSE s.run # 0 /\ s.mode = r["mode"]
    /\ Names(r, "temperature") => s.setpoint = r["temperature"]
    /\ Names(r, "fan") => NormalFan(s.wind) = r["fan"]
    /\ Names(r, "swing") => s.swing = r["swing"]
    /\ Names(r, "display") => s.backLed = r["display"]
    /\ Names(r, "dryOffset") =>
          Drying(s) /\ s.compensation = Nibble(r["dryOffset"])
    /\ ~Names(r, "preset")

-----------------------------------------------------------------------------
(* The plan of an operation: the setters to send, each with the status it  *)
(* expects afterwards and the status it must find just before.             *)

SetterName == {"query", "on", "mode", "temperature", "fan", "swing", "preset",
               "ecoOff", "display", "dryOffset"}
Packet == [setter : SetterName, value : Int]

IsPlanStep(t) ==
    /\ DOMAIN t = {"packet", "expected", "guard"}
    /\ t.packet \in Packet /\ IsIntent(t.expected) /\ IsIntent(t.guard)

IsPlan(p) == p \in Seq(Range(p)) /\ \A t \in Range(p) : IsPlanStep(t)

Setter(name, value, expected, guard) ==
    [packet |-> [setter |-> name, value |-> value],
     expected |-> expected, guard |-> guard]

When(condition, steps) == IF condition THEN steps ELSE <<>>

Differs(s, r, f) == Names(r, f) /\ ~Matches(s, Only(r, {f}))

ModeGuard(r) == Only(r, {"mode"})

PowerSteps(s, r) ==
    When(Names(r, "mode") /\ r["mode"] # ModeOff /\ s.run = 0,
         <<Setter("on", 0, [f \in {"power"} |-> 1], NoIntent)>>)

ModeSteps(s, r) ==
    When(Differs(s, r, "mode"),
         <<Setter("mode", r["mode"], ModeGuard(r), NoIntent)>>)

\* Mutant: the setpoint is left alone when it matched before the mode command.
TemperatureStepsIfDiffer(s, r) ==
    When(Differs(s, r, "temperature"),
         <<Setter("temperature", r["temperature"],
                  Only(r, {"temperature"}), ModeGuard(r))>>)

\* Always restored after a mode command, even if the old setpoint matches.
TemperatureSteps(s, r) ==
    When(Names(r, "temperature") /\
            (Names(r, "mode") \/ Differs(s, r, "temperature")),
         <<Setter("temperature", r["temperature"],
                  Only(r, {"temperature"}), ModeGuard(r))>>)

FanSteps(s, r) ==
    When(Differs(s, r, "fan"),
         <<Setter("fan", r["fan"], Only(r, {"fan"}), ModeGuard(r))>>)

Swings(swing) == [f \in {"swing"} |-> swing]

Moves(swing, axis) == (swing \div axis) % 2

\* Mutant: both axes are taken to turn at once.
TurnedBoth(before, wanted, axis) == wanted

\* The swing after one axis of `before` is set to what `wanted` says.
Turned(before, wanted, axis) ==
    before + axis * (Moves(wanted, axis) - Moves(before, axis))

\* Mutant: an axis is turned whatever the status says by then.
AxisStepsUnguarded(before, wanted, axis) ==
    When(Moves(before, axis) # Moves(wanted, axis),
         <<Setter("swing", axis + 4 * Moves(wanted, axis),
                  Swings(Turned(before, wanted, axis)), NoIntent)>>)

AxisSteps(before, wanted, axis) ==
    When(Moves(before, axis) # Moves(wanted, axis),
         <<Setter("swing", axis + 4 * Moves(wanted, axis),
                  Swings(Turned(before, wanted, axis)), Swings(before))>>)

\* Vertical first, except on the way from horizontal to vertical.
FirstAxis(before, wanted) ==
    IF before = Horizontal /\ wanted = Vertical THEN Horizontal ELSE Vertical

SwingSteps(s, r) ==
    IF ~Names(r, "swing") THEN <<>> ELSE
    LET first  == FirstAxis(s.swing, r["swing"])
        second == Horizontal + Vertical - first
        halfway == Turned(s.swing, r["swing"], first)
    IN  AxisSteps(s.swing, r["swing"], first) \o
        AxisSteps(halfway, r["swing"], second)

\* Nothing is expected of a preset command.  None is two commands.
PresetSteps(r) ==
    IF ~Names(r, "preset") THEN <<>> ELSE
    <<Setter("preset", r["preset"], NoIntent, NoIntent)>> \o
    When(r["preset"] = 0, <<Setter("ecoOff", 0, NoIntent, NoIntent)>>)

DisplaySteps(s, r) ==
    When(Differs(s, r, "display"),
         <<Setter("display", r["display"], Only(r, {"display"}), NoIntent)>>)

\* Mutant: the mode before the power.
BuiltStepsModeFirst(s, r) ==
    ModeSteps(s, r) \o PowerSteps(s, r) \o TemperatureSteps(s, r) \o
    FanSteps(s, r) \o SwingSteps(s, r) \o PresetSteps(r) \o DisplaySteps(s, r)

\* Mutant: the setpoint before the mode and once more after it.
BuiltStepsTwice(s, r) ==
    PowerSteps(s, r) \o TemperatureSteps(s, r) \o ModeSteps(s, r) \o
    TemperatureSteps(s, r) \o FanSteps(s, r) \o SwingSteps(s, r) \o
    PresetSteps(r) \o DisplaySteps(s, r)

\* Engine::build_steps_.
BuiltSteps(s, r) ==
    PowerSteps(s, r) \o ModeSteps(s, r) \o TemperatureSteps(s, r) \o
    FanSteps(s, r) \o SwingSteps(s, r) \o PresetSteps(r) \o DisplaySteps(s, r)

\* Mutant: the adjustment is sent whatever the status says by then.
DryOffsetStepsUnguarded(s, r) ==
    When(~Matches(s, r),
         <<Setter("dryOffset", Nibble(r["dryOffset"]), r, NoIntent)>>)

\* The one step of a Dry adjustment, guarded by the offset just read.
DryOffsetSteps(s, r) ==
    When(~Matches(s, r),
         <<Setter("dryOffset", Nibble(r["dryOffset"]), r,
                  [f \in {"dryOffset"} |-> OffsetOf(s.compensation)])>>)

Plan(s, r) == IF Names(r, "dryOffset") THEN DryOffsetSteps(s, r)
                                       ELSE BuiltSteps(s, r)

\* The baseline status rules the operation out: an absolute target for a unit
\* with a Dry adjustment that is, or is about to be, in Dry; a Dry adjustment
\* for a unit that is not drying or does not report a known offset.
RuledOut(s, r) ==
    IF Names(r, "dryOffset")
      THEN ~DryOffsetEnabled \/ ~Drying(s) \/ s.compensation = UnknownNibble
      ELSE /\ DryOffsetEnabled
           /\ Names(r, "temperature")
           /\ IF Names(r, "mode") THEN r["mode"] = Dry ELSE s.mode = Dry

\* A setter that the latest status forbids at the moment it is to be sent.
Blocked(s, step) ==
    \/ DryOffsetEnabled /\ Names(step.expected, "temperature") /\ s.mode = Dry
    \/ ~Matches(s, step.guard)

\* What must hold at the end: the whole intent, its preset excepted.
Final(r) == Only(r, Field \ {"preset"})
=============================================================================
