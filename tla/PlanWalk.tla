------------------------------ MODULE PlanWalk ------------------------------
(***************************************************************************)
(* A plan carried out on a unit that obeys: from every baseline status and *)
(* for every request, each setter is applied in turn to the status the     *)
(* unit would report.  This is the algorithm of build_steps_ against its   *)
(* purpose, apart from the timing and the failures of the engine.          *)
(***************************************************************************)
EXTENDS Commands, StatusLayout

CONSTANTS
    Requests,       \* normalized requests
    Baselines,      \* statuses at the baseline poll
    MaxSteps        \* MAX_STEPS

\* The array of steps holds one for each of power, mode, temperature, fan and
\* display, and two for each of swing and preset.  A request is one that enqueue
\* took, made whole by normalize.
ASSUME WalkAssumption ==
    /\ MaxSteps \in Nat /\ MaxSteps >= 9 /\ MaxFrameSize >= StatusFrameSize
    /\ Baselines \subseteq Status
    /\ \A r \in Requests :
          /\ IsIntent(r) /\ Valid([f \in DOMAIN r |->
                IF f = "temperature" THEN 2 * r[f] ELSE r[f]])
          /\ Names(r, "display") => r["display"] \in 0 .. 1

VARIABLES
    request,
    plan,           \* made from the baseline status
    unit,           \* what the unit would report now
    at              \* the setters applied so far

walkVars == <<request, plan, unit, at>>

Setpoints == {s.setpoint : s \in Baselines}

WalkInit ==
    /\ request \in Requests
    /\ unit \in Baselines
    /\ ~RuledOut(unit, request)
    /\ plan = Plan(unit, request)
    /\ at = 0

(***************************************************************************)
(* What a setter does to the unit: it does what the bytes of the packet    *)
(* tell it.  A mode or a preset packet brings along a fan speed, which the *)
(* unit may take or leave, and a mode packet a setpoint, for which it may  *)
(* take the one it remembers for that mode.                                *)
(***************************************************************************)
ReadBack == <<1, 2, 10, 14, 18>>    \* the speeds, as a status shows them

Obeying(s, packet) ==
    LET told == WhatItTells[packet]
        new(f, old) == IF f \in DOMAIN told THEN told[f] ELSE old
        speed == IF "speed" \in DOMAIN told THEN ReadBack[told["speed"] + 1]
                                            ELSE s.wind
        setpoint == new("setpoint", s.setpoint)
        brings == packet.setter = "mode" /\ packet.value # ModeOff
    IN  {[run |-> new("run", s.run), mode |-> new("mode", s.mode),
          setpoint |-> degrees, wind |-> wind,
          compensation |-> new("compensation", s.compensation),
          swing |-> Horizontal * new("horizontal", Moves(s.swing, Horizontal))
                    + Vertical * new("vertical", Moves(s.swing, Vertical)),
          backLed |-> new("backLed", s.backLed)] :
            wind \in {speed} \cup (IF packet.setter = "fan" THEN {} ELSE {s.wind}),
            degrees \in {setpoint} \cup (IF brings THEN Setpoints ELSE {})}

Apply ==
    /\ at < Len(plan)
    /\ at' = at + 1
    /\ unit' \in Obeying(unit, plan[at'].packet)
    /\ UNCHANGED <<request, plan>>

WalkSpec == WalkInit /\ [][Apply]_walkVars

\* The buffer in which a step's packet is encoded; the others are constants.
Storage(packet) ==
    CASE packet.setter \in {"temperature", "dryOffset"} -> "temperature_packet_"
      [] packet.setter = "swing" /\ packet.value % 4 = Horizontal -> "swing_packets_[0]"
      [] packet.setter = "swing" /\ packet.value % 4 = Vertical   -> "swing_packets_[1]"
      [] OTHER -> "constant"

\* "Each dynamic step owns storage until the operation finishes": no two steps
\* of a plan share a buffer, and the plan fits into the array of steps, so that
\* no setter is overwritten before it is sent.
PlanOwnsStorage ==
    /\ Len(plan) <= MaxSteps
    /\ \A i, j \in DOMAIN plan :
          Storage(plan[i].packet) = Storage(plan[j].packet) /\ i # j
          => Storage(plan[i].packet) = "constant"

\* Off together with a setpoint, for a unit whose mode is Dry: Off is sent and
\* then the setpoint is refused, because a unit that is off still says Dry.
OffInDry(s, r) ==
    /\ DryOffsetEnabled /\ s.mode = Dry
    /\ Names(r, "temperature") /\ Names(r, "mode") /\ r["mode"] = ModeOff

\* The unit that obeyed the setters so far never finds the next one blocked,
\* and shows what the last one was to achieve.
PlanFlows ==
    /\ at < Len(plan) =>
          ~Blocked(unit, plan[at + 1]) \/ OffInDry(unit, request)
    /\ at > 0 => Matches(unit, plan[at].expected)

\* The fan speed that a mode or a preset packet brings along stays: no fan step
\* follows it, because the speed matched before or because the preset is last.
FanBrought(steps) ==
    \E i \in DOMAIN steps :
       /\ steps[i].packet.setter \in {"mode", "preset"}
       /\ \A j \in i + 1 .. Len(steps) : steps[j].packet.setter # "fan"

\* At the end the unit shows the whole request, its preset excepted, and the
\* fan speed where the packets themselves bring another one.
PlanReachesGoal ==
    at = Len(plan) =>
        Matches(unit, Only(Final(request),
                           IF FanBrought(plan) THEN Field \ {"fan"} ELSE Field))

\* What a field may change of the unit when it is set: a mode and a preset
\* bring along what is in their packets.
Touches ==
    [mode |-> {"run", "mode", "setpoint", "wind"}, temperature |-> {"setpoint"},
     fan |-> {"wind"}, swing |-> {"swing"}, preset |-> {"wind"},
     display |-> {"backLed"}, dryOffset |-> {"compensation"}]

\* "Only the selected axis's desired value changes", "these offset-only writes
\* preserved raw fan and mode/run": no packet of a plan changes anything that
\* the request does not name.
NothingElseChanges ==
    [][\A f \in DOMAIN unit \ UNION {Touches[g] : g \in DOMAIN request} :
          unit'[f] = unit[f]]_walkVars

\* The bytes handed to the UART, constants and encoded packets alike, are what
\* the framing makes of the body: the checksums written next to the constants
\* are right, no marker goes out unstuffed, and the packet fits the buffer.  "OFF
\* matches the legacy vert_dir/hor_dir packets".
Well(packet) ==
    /\ OnWire(packet) = Wire(Sequence(Body(packet)))
    /\ Len(OnWire(packet)) <= MaxPacketSize
    /\ packet.setter = "swing" /\ packet.value \div 4 = 0 =>
          OnWire(packet) = FixedDirection[packet.value % 4]

PacketsFit == at < Len(plan) => Well(plan[at + 1].packet)

\* What the unit is, a poll reads, whatever the bits say that have no use here;
\* an answer to a setter, of the same shape, leaves the snapshot alone.
StatusIsReadBack == at = Len(plan) =>
    \A idle \in 0 .. 1 :
       /\ Decoded(Answer(unit, StatusClass, idle), NoStatus) = unit
       /\ Decoded(Answer(unit, ControlClass, idle), NoStatus) = NoStatus

\* A step whose packet is that of one axis: from the swing it must find to the
\* one it must achieve, that axis turns to what is wanted, which it was not, and
\* the other one stays as it is.
TurnsOnly(step, wanted, axis) ==
    LET before == step.guard["swing"]
        after  == step.expected["swing"]
    IN  /\ step.packet.value = axis + 4 * Moves(wanted, axis)
        /\ Moves(before, axis) # Moves(wanted, axis)
        /\ Moves(after, axis) = Moves(wanted, axis)
        /\ \A other \in {Horizontal, Vertical} \ {axis} :
              Moves(after, other) = Moves(before, other)

\* "Swing sets explicit values for changed axes": every swing step of a plan
\* turns the one axis that its packet names, from horizontal to vertical and
\* back as well, where both axes change.
OneAxisAtATime ==
    \A i \in DOMAIN plan : plan[i].packet.setter = "swing" =>
        \E axis \in {Horizontal, Vertical} :
            TurnsOnly(plan[i], request["swing"], axis)
=============================================================================
