----------------------------- MODULE WalkProofs -----------------------------
(***************************************************************************)
(* Proofs about build_steps_, for every request and every baseline: the    *)
(* buffers of its packets, their number and the order of the axes; that a  *)
(* unit which obeys the packets is never blocked, shows the request at the *)
(* end and keeps what the request does not name; that decode_status reads  *)
(* of a unit's answer what the unit is; and that every packet goes out as  *)
(* the framing makes it.                                                   *)
(***************************************************************************)
EXTENDS PlanWalk, FiniteSetTheorems, SequenceTheorems, WellFoundedInduction, TLAPS

-----------------------------------------------------------------------------
(* The parts of a plan.                                                    *)

Buffer(step) == Storage(step.packet)

\* A step that turns an axis turns only that one.
TurnsOne(wanted, step) ==
    step.packet.setter = "swing" =>
        \E axis \in {Horizontal, Vertical} : TurnsOnly(step, wanted, axis)

\* A part of at most n steps of a plan for a swing `wanted`, which uses the
\* buffers S, each at most once.
Part(wanted, s, n, S) ==
    /\ s \in Seq(Range(s)) /\ Len(s) <= n
    /\ \A i \in 1 .. Len(s) :
          Buffer(s[i]) \in S \cup {"constant"} /\ TurnsOne(wanted, s[i])
    /\ \A i, j \in 1 .. Len(s) :
          i # j /\ Buffer(s[i]) = Buffer(s[j]) => Buffer(s[i]) = "constant"

\* Sets of buffers.
NoBuffer == {}
TemperatureBuffer == {"temperature_packet_"}
SwingBuffers == {"swing_packets_[0]", "swing_packets_[1]"}
DynamicBuffers == TemperatureBuffer \cup SwingBuffers

Apart(S, T)  == \A x \in S : x \notin T
Within(S, U) == S \subseteq U

LEMMA PartConcat ==
    ASSUME NEW w, NEW s, NEW t, NEW n \in Nat, NEW m \in Nat, NEW S, NEW T,
           Part(w, s, n, S), Part(w, t, m, T), Apart(S, T),
           NEW k \in Nat, k = n + m, NEW U, Within(S, U), Within(T, U)
    PROVE  Part(w, s \o t, k, U)
<1> DEFINE X == Range(s) \cup Range(t)
           u == s \o t
<1> USE DEF Within
<1>1. s \in Seq(X) /\ t \in Seq(X)
  BY DEF Part, Range
<1>2. /\ u \in Seq(X) /\ Len(u) = Len(s) + Len(t)
      /\ Len(s) \in Nat /\ Len(t) \in Nat /\ Len(s) <= n /\ Len(t) <= m
      /\ \A i \in 1 .. Len(s) + Len(t) :
            u[i] = IF i <= Len(s) THEN s[i] ELSE t[i - Len(s)]
  BY <1>1, ConcatProperties, LenProperties DEF Part
<1> HIDE DEF u
<1>3. u \in Seq(Range(u))
  <2>1. DOMAIN u = 1 .. Len(u) /\ Len(u) \in Nat
    BY <1>2, LenProperties
  <2>2. \A i \in 1 .. Len(u) : u[i] \in Range(u)
    BY <2>1 DEF Range
  <2>3. u = [i \in 1 .. Len(u) |-> u[i]]
    BY <1>2, LenProperties
  <2> QED
    BY <2>1, <2>2, <2>3, SeqDef
<1>4. \A i \in 1 .. Len(u) :
         \/ i \in 1 .. Len(s) /\ u[i] = s[i]
         \/ i > Len(s) /\ i - Len(s) \in 1 .. Len(t) /\ u[i] = t[i - Len(s)]
  BY <1>2
<1>5. ASSUME NEW i \in 1 .. Len(u)
      PROVE  Buffer(u[i]) \in U \cup {"constant"} /\ TurnsOne(w, u[i])
  BY <1>4 DEF Part
<1>6. ASSUME NEW i \in 1 .. Len(u), NEW j \in 1 .. Len(u), i # j,
             Buffer(u[i]) = Buffer(u[j])
      PROVE  Buffer(u[i]) = "constant"
  <2>1. CASE i \in 1 .. Len(s) /\ j \in 1 .. Len(s)
    <3>1. u[i] = s[i] /\ u[j] = s[j]
      BY <1>2, <2>1
    <3> QED
      BY <1>6, <2>1, <3>1 DEF Part
  <2>2. CASE ~(i \in 1 .. Len(s)) /\ ~(j \in 1 .. Len(s))
    <3>1. /\ i - Len(s) \in 1 .. Len(t) /\ u[i] = t[i - Len(s)]
          /\ j - Len(s) \in 1 .. Len(t) /\ u[j] = t[j - Len(s)]
      BY <1>4, <2>2
    <3>2. i - Len(s) # j - Len(s)
      BY <1>2, <1>6
    <3> QED
      BY <1>6, <3>1, <3>2 DEF Part
  <2>3. CASE i \in 1 .. Len(s) /\ ~(j \in 1 .. Len(s))
    <3>1. Buffer(u[i]) \in S \cup {"constant"} /\ Buffer(u[j]) \in T \cup {"constant"}
      BY <1>4, <2>3 DEF Part
    <3> QED
      BY <1>6, <3>1 DEF Apart
  <2>4. CASE ~(i \in 1 .. Len(s)) /\ j \in 1 .. Len(s)
    <3>1. Buffer(u[i]) \in T \cup {"constant"} /\ Buffer(u[j]) \in S \cup {"constant"}
      BY <1>4, <2>4 DEF Part
    <3> QED
      BY <1>6, <3>1 DEF Apart
  <2> QED
    BY <2>1, <2>2, <2>3, <2>4
<1>7. Len(u) <= k
  BY <1>2
<1> QED
  BY <1>3, <1>5, <1>6, <1>7 DEF Part, u

LEMMA PartPair ==
    ASSUME NEW w, NEW s, NEW t, NEW S, NEW T, NEW U,
           Part(w, s, 1, S), Part(w, t, 1, T), Apart(S, T), Within(S, U), Within(T, U)
    PROVE  Part(w, s \o t, 2, U)
<1>1. \A n, m, k \in Nat :
         Part(w, s, n, S) /\ Part(w, t, m, T) /\ k = n + m => Part(w, s \o t, k, U)
  BY PartConcat
<1>2. 1 \in Nat /\ 2 \in Nat /\ 2 = 1 + 1
  OBVIOUS
<1> QED
  BY <1>1, <1>2

LEMMA BuffersApart ==
    /\ Apart(NoBuffer, NoBuffer) /\ Apart(NoBuffer, TemperatureBuffer)
    /\ Apart(TemperatureBuffer, NoBuffer) /\ Apart(TemperatureBuffer, SwingBuffers)
    /\ Apart(DynamicBuffers, NoBuffer)
    /\ \A S : Within(NoBuffer, S) /\ Within(S, S)
    /\ Within(TemperatureBuffer, DynamicBuffers) /\ Within(SwingBuffers, DynamicBuffers)
BY DEF Apart, Within, NoBuffer, TemperatureBuffer, SwingBuffers, DynamicBuffers

LEMMA PartNone == \A w, S : \A n \in Nat : Part(w, <<>>, n, S)
BY DEF Part, Range

LEMMA PartOne ==
    ASSUME NEW w, NEW c, NEW step, NEW S,
           c => Buffer(step) \in S \cup {"constant"} /\ TurnsOne(w, step)
    PROVE  Part(w, When(c, <<step>>), 1, S)
<1>1. CASE c
  <2> DEFINE s == <<step>>
  <2>1. s \in Seq(Range(s)) /\ Len(s) = 1 /\ s[1] = step
    BY DEF Range
  <2> HIDE DEF s
  <2>2. Part(w, s, 1, S)
    BY <1>1, <2>1 DEF Part
  <2> QED
    BY <1>1, <2>2 DEF When, s
<1>2. CASE ~c
  BY <1>2, PartNone DEF When
<1> QED
  BY <1>1, <1>2

-----------------------------------------------------------------------------
(* The steps of each field.                                                *)

OneOfTwo(axis) ==
    IF axis = Horizontal THEN "swing_packets_[0]" ELSE "swing_packets_[1]"

LEMMA TurnedFacts ==
    ASSUME NEW before \in Swing, NEW wanted \in Swing, NEW axis \in {Horizontal, Vertical}
    PROVE  LET after == Turned(before, wanted, axis) IN
           /\ after \in Swing
           /\ Moves(after, axis) = Moves(wanted, axis)
           /\ \A other \in {Horizontal, Vertical} :
                 other # axis => Moves(after, other) = Moves(before, other)
<1>1. before \in {0, 1, 2, 3} /\ wanted \in {0, 1, 2, 3}
  BY DEF Swing
<1>2. CASE axis = Horizontal
  BY <1>1, <1>2 DEF Turned, Moves, Horizontal, Vertical, Swing
<1>3. CASE axis = Vertical
  BY <1>1, <1>3 DEF Turned, Moves, Horizontal, Vertical, Swing
<1> QED
  BY <1>2, <1>3

LEMMA AxisPart ==
    ASSUME NEW before \in Swing, NEW wanted \in Swing, NEW axis \in {Horizontal, Vertical}
    PROVE  Part(wanted, AxisSteps(before, wanted, axis), 1, {OneOfTwo(axis)})
<1> DEFINE after == Turned(before, wanted, axis)
           value == axis + 4 * Moves(wanted, axis)
           step == Setter("swing", value, Swings(after), Swings(before))
<1>1. value % 4 = axis
  <2>1. Moves(wanted, axis) \in {0, 1}
    BY DEF Moves, Swing, Horizontal, Vertical
  <2> QED
    BY <2>1 DEF Horizontal, Vertical
<1>2. /\ step.packet.setter = "swing" /\ step.packet.value = value
      /\ step.guard["swing"] = before /\ step.expected["swing"] = after
  BY DEF Setter, Swings
<1> HIDE DEF value
<1>3. Buffer(step) = OneOfTwo(axis)
  BY <1>1, <1>2 DEF Buffer, Storage, OneOfTwo, Horizontal, Vertical
<1>4. ASSUME Moves(before, axis) # Moves(wanted, axis)
      PROVE  TurnsOne(wanted, step)
  <2>1. /\ Moves(after, axis) = Moves(wanted, axis)
        /\ \A other \in {Horizontal, Vertical} :
              other # axis => Moves(after, other) = Moves(before, other)
    BY TurnedFacts
  <2> HIDE DEF after, step
  <2>2. TurnsOnly(step, wanted, axis)
    BY <1>2, <1>4, <2>1 DEF TurnsOnly, value
  <2> QED
    BY <2>2 DEF TurnsOne
<1> QED
  BY <1>3, <1>4, PartOne DEF AxisSteps, value

LEMMA SwingPart ==
    ASSUME NEW s \in Status, NEW r, Names(r, "swing") => r["swing"] \in Swing
    PROVE  Part(r["swing"], SwingSteps(s, r), 2, SwingBuffers)
<1>1. CASE ~Names(r, "swing")
  BY <1>1, PartNone DEF SwingSteps
<1>2. CASE Names(r, "swing")
  <2> DEFINE wanted == r["swing"]
             first == FirstAxis(s.swing, wanted)
             second == Horizontal + Vertical - first
             halfway == Turned(s.swing, wanted, first)
  <2>1. s.swing \in Swing /\ wanted \in Swing
    BY <1>2 DEF Status
  <2>2. /\ first \in {Horizontal, Vertical} /\ second \in {Horizontal, Vertical}
        /\ OneOfTwo(first) # OneOfTwo(second)
        /\ {OneOfTwo(first), OneOfTwo(second)} = SwingBuffers
    BY DEF FirstAxis, Horizontal, Vertical, OneOfTwo, SwingBuffers
  <2>3. halfway \in Swing
    BY <2>1, <2>2, TurnedFacts
  <2>4. SwingSteps(s, r) = AxisSteps(s.swing, wanted, first) \o
                           AxisSteps(halfway, wanted, second)
    BY <1>2 DEF SwingSteps
  <2> HIDE DEF first, second, halfway, wanted
  <2>5. /\ Part(wanted, AxisSteps(s.swing, wanted, first), 1, {OneOfTwo(first)})
        /\ Part(wanted, AxisSteps(halfway, wanted, second), 1, {OneOfTwo(second)})
    BY <2>1, <2>2, <2>3, AxisPart
  <2>6. /\ Apart({OneOfTwo(first)}, {OneOfTwo(second)})
        /\ Within({OneOfTwo(first)}, SwingBuffers) /\ Within({OneOfTwo(second)}, SwingBuffers)
    BY <2>2 DEF Apart, Within
  <2> DEFINE S1 == {OneOfTwo(first)}
             S2 == {OneOfTwo(second)}
  <2>7. /\ Part(wanted, AxisSteps(s.swing, wanted, first), 1, S1)
        /\ Part(wanted, AxisSteps(halfway, wanted, second), 1, S2)
        /\ Apart(S1, S2) /\ Within(S1, SwingBuffers) /\ Within(S2, SwingBuffers)
    BY <2>5, <2>6
  <2> HIDE DEF S1, S2
  <2>8. Part(wanted, SwingSteps(s, r), 2, SwingBuffers)
    BY <2>4, <2>7, PartPair
  <2> QED
    BY <2>8 DEF wanted
<1> QED
  BY <1>1, <1>2

\* Every other step has a packet of its own name.
LEMMA OtherStep ==
    ASSUME NEW w, NEW name, NEW value, NEW expected, NEW guard, name # "swing"
    PROVE  LET step == Setter(name, value, expected, guard) IN
           /\ TurnsOne(w, step)
           /\ Buffer(step) = IF name \in {"temperature", "dryOffset"}
                               THEN "temperature_packet_" ELSE "constant"
BY DEF TurnsOne, Buffer, Storage, Setter

LEMMA PresetPart ==
    ASSUME NEW w, NEW r
    PROVE  Part(w, PresetSteps(r), 2, NoBuffer)
<1>1. CASE ~Names(r, "preset")
  BY <1>1, PartNone DEF PresetSteps
<1>2. CASE Names(r, "preset")
  <2> DEFINE a == Setter("preset", r["preset"], NoIntent, NoIntent)
             b == Setter("ecoOff", 0, NoIntent, NoIntent)
             c == r["preset"] = 0
  <2>1. /\ Buffer(a) = "constant" /\ TurnsOne(w, a)
        /\ Buffer(b) = "constant" /\ TurnsOne(w, b)
    BY OtherStep
  <2>2. PresetSteps(r) = When(TRUE, <<a>>) \o When(c, <<b>>)
    BY <1>2 DEF PresetSteps, When
  <2> HIDE DEF a, b, c
  <2>3. Part(w, When(TRUE, <<a>>), 1, NoBuffer) /\ Part(w, When(c, <<b>>), 1, NoBuffer)
    BY <2>1, PartOne
  <2> QED
    BY <2>2, <2>3, BuffersApart, PartPair
<1> QED
  BY <1>1, <1>2

LEMMA BuiltPart ==
    ASSUME NEW s \in Status, NEW r, Names(r, "swing") => r["swing"] \in Swing
    PROVE  Part(r["swing"], BuiltSteps(s, r), 9, DynamicBuffers)
<1> DEFINE w == r["swing"]
           p1 == PowerSteps(s, r)
           p2 == ModeSteps(s, r)
           p3 == TemperatureSteps(s, r)
           p4 == FanSteps(s, r)
           p5 == SwingSteps(s, r)
           p6 == PresetSteps(r)
           p7 == DisplaySteps(s, r)
<1>1. Part(w, p1, 1, NoBuffer)
  BY OtherStep, PartOne DEF PowerSteps
<1>2. Part(w, p2, 1, NoBuffer)
  BY OtherStep, PartOne DEF ModeSteps
<1>3. Part(w, p3, 1, TemperatureBuffer)
  BY OtherStep, PartOne DEF TemperatureSteps, TemperatureBuffer
<1>4. Part(w, p4, 1, NoBuffer)
  BY OtherStep, PartOne DEF FanSteps
<1>5. Part(w, p5, 2, SwingBuffers)
  BY SwingPart
<1>6. Part(w, p6, 2, NoBuffer)
  BY PresetPart
<1>7. Part(w, p7, 1, NoBuffer)
  <2> DEFINE step == Setter("display", r["display"], Only(r, {"display"}), NoIntent)
  <2>1. Buffer(step) = "constant" /\ TurnsOne(w, step)
    BY OtherStep
  <2> HIDE DEF step
  <2> QED
    BY <2>1, PartOne DEF DisplaySteps, step
<1> HIDE DEF w, p1, p2, p3, p4, p5, p6, p7
<1>8. Part(w, p1 \o p2, 2, NoBuffer)
  BY <1>1, <1>2, BuffersApart, PartPair
<1>9. Part(w, p1 \o p2 \o p3, 3, TemperatureBuffer)
  BY <1>3, <1>8, BuffersApart, PartConcat
<1>10. Part(w, p1 \o p2 \o p3 \o p4, 4, TemperatureBuffer)
  BY <1>4, <1>9, BuffersApart, PartConcat
<1>11. Part(w, p1 \o p2 \o p3 \o p4 \o p5, 6, DynamicBuffers)
  BY <1>5, <1>10, BuffersApart, PartConcat
<1>12. Part(w, p1 \o p2 \o p3 \o p4 \o p5 \o p6, 8, DynamicBuffers)
  BY <1>6, <1>11, BuffersApart, PartConcat
<1>13. Part(w, p1 \o p2 \o p3 \o p4 \o p5 \o p6 \o p7, 9,
            DynamicBuffers)
  BY <1>7, <1>12, BuffersApart, PartConcat
<1> QED
  BY <1>13 DEF BuiltSteps, w, p1, p2, p3, p4, p5, p6, p7

\* A plan has at most nine steps, and needs each buffer at most once.
LEMMA PlanPart ==
    ASSUME NEW s \in Status, NEW r, Names(r, "swing") => r["swing"] \in Swing
    PROVE  Part(r["swing"], Plan(s, r), 9, DynamicBuffers)
<1>1. CASE Names(r, "dryOffset")
  <2>1. Part(r["swing"], DryOffsetSteps(s, r), 1, TemperatureBuffer)
    BY OtherStep, PartOne DEF DryOffsetSteps, TemperatureBuffer
  <2>2. Part(r["swing"], DryOffsetSteps(s, r), 9, DynamicBuffers)
    BY <2>1, LenProperties DEF Part, DynamicBuffers
  <2> QED
    BY <1>1, <2>2 DEF Plan
<1>2. CASE ~Names(r, "dryOffset")
  BY <1>2, BuiltPart DEF Plan
<1> QED
  BY <1>1, <1>2

-----------------------------------------------------------------------------
(* The walk.                                                               *)

WalkInv ==
    /\ request \in Requests
    /\ \E s \in Baselines : plan = Plan(s, request)

\* What enqueue and normalize leave of a request.
LEMMA RequestIs ==
    ASSUME NEW r \in Requests
    PROVE  /\ DOMAIN r \subseteq Field /\ ~Names(r, "power")
           /\ Names(r, "mode") => r["mode"] \in Mode
           /\ Names(r, "temperature") => r["temperature"] \in Minimum .. Maximum
           /\ Names(r, "fan") => r["fan"] \in Fan
           /\ Names(r, "swing") => r["swing"] \in Swing
           /\ Names(r, "preset") => r["preset"] \in Preset
           /\ Names(r, "display") => r["display"] \in 0 .. 1
           /\ Names(r, "dryOffset") =>
                 DOMAIN r = {"dryOffset"} /\ r["dryOffset"] \in Offset
<1> DEFINE h == [f \in DOMAIN r |-> IF f = "temperature" THEN 2 * r[f] ELSE r[f]]
<1>1. IsIntent(r) /\ Valid(h) /\ (Names(r, "display") => r["display"] \in 0 .. 1)
  BY WalkAssumption
<1>2. /\ DOMAIN h = DOMAIN r
      /\ \A f \in DOMAIN r : f # "temperature" => h[f] = r[f]
      /\ "temperature" \in DOMAIN r => h["temperature"] = 2 * r["temperature"]
  OBVIOUS
<1> HIDE DEF h
<1>3. Names(r, "temperature") => r["temperature"] \in Minimum .. Maximum
  <2>1. Names(r, "temperature") => r["temperature"] \in Int
    BY <1>1 DEF IsIntent, Names
  <2> QED
    BY <1>1, <1>2, <2>1 DEF Valid, Names, Encodable, Minimum, Maximum
<1> QED
  BY <1>1, <1>2, <1>3 DEF Valid, Names, IsIntent

LEMMA WalkPart == WalkInv => Part(request["swing"], plan, 9,
                                  DynamicBuffers)
BY WalkAssumption, RequestIs, PlanPart DEF WalkInv

LEMMA WalkKeeps == WalkSpec => []WalkInv
<1>1. WalkInit => WalkInv
  BY DEF WalkInit, WalkInv
<1>2. WalkInv /\ [Apply]_walkVars => WalkInv'
  BY DEF WalkInv, Apply, walkVars
<1> QED
  BY <1>1, <1>2, PTL DEF WalkSpec

\* "Each dynamic step owns storage until the operation finishes": for every
\* request and every baseline, no two steps of the plan are encoded in the same
\* buffer, and the plan fits the array of steps.
THEOREM StorageIsOwned == WalkSpec => []PlanOwnsStorage
<1>1. WalkInv => PlanOwnsStorage
  <2> SUFFICES ASSUME WalkInv PROVE PlanOwnsStorage
    OBVIOUS
  <2>1. Part(request["swing"], plan, 9, DynamicBuffers)
    BY WalkPart
  <2>2. DOMAIN plan = 1 .. Len(plan) /\ Len(plan) <= 9 /\ Len(plan) \in Nat
    BY <2>1, LenProperties DEF Part
  <2>3. ASSUME NEW i \in DOMAIN plan, NEW j \in DOMAIN plan, i # j,
               Storage(plan[i].packet) = Storage(plan[j].packet)
        PROVE  Storage(plan[i].packet) = "constant"
    BY <2>1, <2>2, <2>3 DEF Part, Buffer
  <2> QED
    BY <2>2, <2>3, WalkAssumption DEF PlanOwnsStorage
<1> QED
  BY <1>1, WalkKeeps, PTL

\* "Swing sets explicit values for changed axes": from every swing to every
\* other, each step turns the axis that its packet names to what is wanted, which
\* it was not, and leaves the other one as it is.
THEOREM AxesTurnOneByOne == WalkSpec => []OneAxisAtATime
<1>1. WalkInv => OneAxisAtATime
  <2> SUFFICES ASSUME WalkInv PROVE OneAxisAtATime
    OBVIOUS
  <2>1. Part(request["swing"], plan, 9, DynamicBuffers)
    BY WalkPart
  <2>2. DOMAIN plan = 1 .. Len(plan)
    BY <2>1, LenProperties DEF Part
  <2>3. \A i \in DOMAIN plan : TurnsOne(request["swing"], plan[i])
    BY <2>1, <2>2 DEF Part
  <2> QED
    BY <2>3 DEF OneAxisAtATime, TurnsOne
<1> QED
  BY <1>1, WalkKeeps, PTL

-----------------------------------------------------------------------------
(* What the packets tell the unit.                                         *)

\* The bytes of a packet that hold what a unit is told.
Key(body) == <<body[16], body[18], body[19], body[23], body[32], body[36]>>

LEMMA CommonBytes ==
    /\ DOMAIN Common = 2 .. 45
    /\ Common[16] = 0 /\ Common[18] = 0 /\ Common[19] = 0
    /\ Common[23] = 4 /\ Common[32] = 0 /\ Common[36] = 0
<1>1. DOMAIN Empty(45) = 2 .. 45 /\ \A o \in 2 .. 45 : Empty(45)[o] = 0
  BY DEF Empty
<1>2. \A f : DOMAIN f = 2 .. 45 =>
         LET g == [f EXCEPT ![3] = 64, ![4] = 41, ![7] = 1, ![8] = 1,
                            ![9] = 254, ![10] = 1, ![13] = 101, ![23] = 4]
         IN  /\ DOMAIN g = 2 .. 45 /\ g[23] = 4
             /\ \A o \in {16, 18, 19, 32, 36} : g[o] = f[o]
  OBVIOUS
<1> QED
  BY <1>1, <1>2 DEF Common

LEMMA KeyOfMode ==
    ASSUME NEW p, p.setter = "mode"
    PROVE  /\ p.value = 0 => Key(Body(p)) = <<7, 16, 51, 4, 1, 0>>
           /\ p.value = 1 => Key(Body(p)) = <<1, 48, 47, 4, 1, 0>>
           /\ p.value = 2 => Key(Body(p)) = <<1, 80, 53, 4, 1, 0>>
           /\ p.value = 3 => Key(Body(p)) = <<1, 112, 51, 4, 1, 0>>
           /\ p.value = 4 => Key(Body(p)) = <<0, 4, 0, 4, 1, 0>>
<1>1. Body(p) = ModeList[p.value + 1][1]
  BY DEF Body, Listing
<1>2. \A mode, fan, setpoint :
         Key(ModeBytes(mode, fan, setpoint)) = <<fan, mode, setpoint, 4, 1, 0>>
  BY CommonBytes DEF Key, ModeBytes
<1>3. Key(OffBytes) = <<0, 4, 0, 4, 1, 0>>
  BY CommonBytes DEF Key, OffBytes
<1>4. /\ ModeList[1][1] = ModeBytes(16, 7, 51)
      /\ ModeList[2][1] = ModeBytes(48, 1, 47)
      /\ ModeList[3][1] = ModeBytes(80, 1, 53)
      /\ ModeList[4][1] = ModeBytes(112, 1, 51)
      /\ ModeList[5][1] = OffBytes
  BY DEF ModeList, Listed
<1> QED
  BY <1>1, <1>2, <1>3, <1>4

LEMMA KeyOfFan ==
    ASSUME NEW p, p.setter = "fan"
    PROVE  /\ p.value = 0  => Key(Body(p)) = <<1, 0, 0, 4, 0, 0>>
           /\ p.value = 2  => Key(Body(p)) = <<3, 0, 0, 4, 0, 0>>
           /\ p.value = 10 => Key(Body(p)) = <<5, 0, 0, 4, 0, 0>>
           /\ p.value = 14 => Key(Body(p)) = <<7, 0, 0, 4, 0, 0>>
           /\ p.value = 18 => Key(Body(p)) = <<9, 0, 0, 4, 0, 0>>
<1>1. Body(p) = FanList(p.value)[1]
  BY DEF Body, Listing
<1>2. \A fan, position : Key(FanBytes(fan, position)) = <<fan, 0, 0, 4, 0, 0>>
  BY CommonBytes DEF Key, FanBytes
<1>3. /\ FanList(0)[1] = FanBytes(1, 16) /\ FanList(2)[1] = FanBytes(3, 48)
      /\ FanList(10)[1] = FanBytes(5, 16) /\ FanList(14)[1] = FanBytes(7, 16)
      /\ FanList(18)[1] = FanBytes(9, 16)
  BY DEF FanList, Listed
<1> QED
  BY <1>1, <1>2, <1>3

LEMMA KeyOfPreset ==
    ASSUME NEW p, p.setter = "preset"
    PROVE  /\ p.value \in 0 .. 1 => Key(Body(p)) = <<1, 0, 0, 4, 0, 0>>
           /\ p.value = 2 => Key(Body(p)) = <<0, 0, 0, 4, 0, 0>>
<1>1. Body(p) = PresetList[p.value + 1][1]
  BY DEF Body, Listing
<1>2. \A turbo : Key(TurboBytes(turbo)) = <<1, 0, 0, 4, 0, 0>>
  BY CommonBytes DEF Key, TurboBytes
<1>3. \A byte : Key(With(33, byte)) = <<0, 0, 0, 4, 0, 0>>
  BY CommonBytes DEF Key, With
<1>4. /\ PresetList[1][1] = TurboBytes(84) /\ PresetList[2][1] = TurboBytes(92)
      /\ PresetList[3][1] = With(33, 52)
  BY DEF PresetList, Listed
<1> QED
  BY <1>1, <1>2, <1>3, <1>4

LEMMA KeyOfDisplay ==
    ASSUME NEW p, p.setter = "display"
    PROVE  /\ p.value = 0 => Key(Body(p)) = <<0, 0, 0, 4, 0, 64>>
           /\ p.value = 1 => Key(Body(p)) = <<0, 0, 0, 4, 0, 192>>
<1>1. Body(p) = DisplayList[p.value + 1][1]
  BY DEF Body, Listing
<1>2. \A byte : Key(With(36, byte)) = <<0, 0, 0, 4, 0, byte>>
  BY CommonBytes DEF Key, With
<1>3. DisplayList[1][1] = With(36, 64) /\ DisplayList[2][1] = With(36, 192)
  BY DEF DisplayList, Listed
<1> QED
  BY <1>1, <1>2, <1>3

LEMMA KeyOfOthers ==
    ASSUME NEW p
    PROVE  /\ p.setter = "on" => Key(Body(p)) = <<0, 12, 0, 4, 0, 0>>
           /\ p.setter = "ecoOff" => Key(Body(p)) = <<0, 0, 0, 4, 0, 0>>
           /\ p.setter = "temperature" =>
                 Key(Body(p)) = <<0, 0, 2 * p.value + 1, 4, 0, 0>>
           /\ p.setter = "dryOffset" =>
                 Key(Body(p)) = <<0, 0, 0, p.value * 16 + 12, 0, 0>>
<1>1. p.setter = "on" => Body(p) = With(18, 12)
  BY DEF Body, Listing, Listed
<1>2. p.setter = "ecoOff" => Body(p) = With(33, 20)
  BY DEF Body, Listing, Listed
<1>3. p.setter = "temperature" => Body(p) = With(19, 2 * p.value + 1)
  BY DEF Body, TemperatureBytes
<1>4. p.setter = "dryOffset" => Body(p) = With(23, p.value * 16 + 12)
  BY DEF Body, DryOffsetBytes
<1>5. \A byte : /\ Key(With(18, byte)) = <<0, byte, 0, 4, 0, 0>>
                /\ Key(With(33, byte)) = <<0, 0, 0, 4, 0, 0>>
                /\ Key(With(19, byte)) = <<0, 0, byte, 4, 0, 0>>
                /\ Key(With(23, byte)) = <<0, 0, 0, byte, 0, 0>>
  BY CommonBytes DEF Key, With
<1> QED
  BY <1>1, <1>2, <1>3, <1>4, <1>5

\* The update bit of an axis stays set whether it is to move or to stop.
LEMMA KeyOfSwing ==
    ASSUME NEW p, p.setter = "swing"
    PROVE  /\ p.value = 1 => Key(Body(p)) = <<0, 0, 0, 4, 16, 0>>
           /\ p.value = 5 => Key(Body(p)) = <<0, 0, 0, 4, 48, 0>>
           /\ p.value = 2 => Key(Body(p)) = <<0, 0, 0, 4, 64, 0>>
           /\ p.value = 6 => Key(Body(p)) = <<0, 0, 0, 4, 192, 0>>
<1>1. Body(p) = SwingBytes(p.value % 4, p.value \div 4)
  BY DEF Body
<1>2. /\ DOMAIN VertSwing = 2 .. 45 /\ VertSwing[32] = 192
      /\ \A o \in {16, 18, 19, 23, 36} : VertSwing[o] = Common[o]
  BY CommonBytes DEF VertSwing
<1>3. /\ DOMAIN HorSwing = 2 .. 45 /\ HorSwing[32] = 48
      /\ \A o \in {16, 18, 19, 23, 36} : HorSwing[o] = Common[o]
  BY CommonBytes DEF HorSwing
<1>4. /\ Key(SwingBytes(1, 0)) = <<0, 0, 0, 4, 16, 0>>
      /\ Key(SwingBytes(1, 1)) = <<0, 0, 0, 4, 48, 0>>
  BY <1>3, CommonBytes DEF Key, SwingBytes, Horizontal, Vertical
<1>5. /\ Key(SwingBytes(2, 0)) = <<0, 0, 0, 4, 64, 0>>
      /\ Key(SwingBytes(2, 1)) = <<0, 0, 0, 4, 192, 0>>
  BY <1>2, CommonBytes DEF Key, SwingBytes, Horizontal, Vertical
<1>6. 1 % 4 = 1 /\ 5 % 4 = 1 /\ 2 % 4 = 2 /\ 6 % 4 = 2
      /\ 1 \div 4 = 0 /\ 5 \div 4 = 1 /\ 2 \div 4 = 0 /\ 6 \div 4 = 1
  OBVIOUS
<1> QED
  BY <1>1, <1>4, <1>5, <1>6

-----------------------------------------------------------------------------
(* What the unit makes of it.                                              *)

\* What becomes of a value of the unit whose update bit is in byte k.
Becomes(k, update, unitOf, values, old) ==
    IF Bit(k, update) = 1 THEN (k \div unitOf) % values ELSE old

LEMMA ToldIs ==
    ASSUME NEW b, NEW told, told = Told(b)
    PROVE  \A f \in DOMAIN Layout :
              LET k == b[Layout[f].byte] IN
              /\ f \in DOMAIN told <=> Bit(k, Layout[f].update) = 1
              /\ f \in DOMAIN told =>
                    told[f] = (k \div Layout[f].unit) % Layout[f].values
BY DEF Told

LEMMA BecomesIs ==
    ASSUME NEW b, NEW told, told = Told(b), NEW old
    PROVE  LET new(f) == IF f \in DOMAIN told THEN told[f] ELSE old IN
           /\ new("run") = Becomes(b[18], 4, 8, 2, old)
           /\ new("mode") = Becomes(b[18], 16, 32, 8, old)
           /\ new("setpoint") = Becomes(b[19], 1, 2, 128, old)
           /\ new("horizontal") = Becomes(b[32], 16, 32, 2, old)
           /\ new("vertical") = Becomes(b[32], 64, 128, 2, old)
           /\ new("backLed") = Becomes(b[36], 64, 128, 2, old)
           /\ new("compensation") = Becomes(b[23], 8, 16, 16, old)
           /\ "speed" \in DOMAIN told <=> Bit(b[16], 1) = 1
           /\ "speed" \in DOMAIN told => told["speed"] = (b[16] \div 2) % 128
BY ToldIs DEF Layout, Becomes

LEMMA ObeyingIs ==
    ASSUME NEW s, NEW p \in Packets, NEW y \in Obeying(s, p)
    PROVE  LET k == Key(Body(p)) IN
           /\ y = [run |-> Becomes(k[2], 4, 8, 2, s.run),
                   mode |-> Becomes(k[2], 16, 32, 8, s.mode),
                   setpoint |-> y.setpoint, wind |-> y.wind,
                   compensation |-> Becomes(k[4], 8, 16, 16, s.compensation),
                   swing |-> Horizontal * Becomes(k[5], 16, 32, 2, Moves(s.swing, Horizontal))
                        + Vertical * Becomes(k[5], 64, 128, 2, Moves(s.swing, Vertical)),
                   backLed |-> Becomes(k[6], 64, 128, 2, s.backLed)]
           /\ \/ y.setpoint = Becomes(k[3], 1, 2, 128, s.setpoint)
              \/ p.setter = "mode" /\ p.value # ModeOff /\ y.setpoint \in Setpoints
           /\ \/ y.wind = IF Bit(k[1], 1) = 1 THEN ReadBack[((k[1] \div 2) % 128) + 1]
                                              ELSE s.wind
              \/ p.setter # "fan" /\ y.wind = s.wind
<1> DEFINE b == Body(p)
           told == Told(b)
<1>1. WhatItTells[p] = told
  BY DEF WhatItTells
<1> HIDE DEF b, told
<1> DEFINE new(f, old) == IF f \in DOMAIN told THEN told[f] ELSE old
           speed == IF "speed" \in DOMAIN told THEN ReadBack[told["speed"] + 1]
                                               ELSE s.wind
<1>2. PICK wind \in {speed} \cup (IF p.setter = "fan" THEN {} ELSE {s.wind}),
           degrees \in {new("setpoint", s.setpoint)} \cup
              (IF p.setter = "mode" /\ p.value # ModeOff THEN Setpoints ELSE {}) :
         y = [run |-> new("run", s.run), mode |-> new("mode", s.mode),
              setpoint |-> degrees, wind |-> wind,
              compensation |-> new("compensation", s.compensation),
              swing |-> Horizontal * new("horizontal", Moves(s.swing, Horizontal))
                        + Vertical * new("vertical", Moves(s.swing, Vertical)),
              backLed |-> new("backLed", s.backLed)]
  BY <1>1 DEF Obeying
<1>3. told = Told(b)
  BY DEF told
<1>4. /\ \A old :
            /\ new("run", old) = Becomes(b[18], 4, 8, 2, old)
            /\ new("mode", old) = Becomes(b[18], 16, 32, 8, old)
            /\ new("setpoint", old) = Becomes(b[19], 1, 2, 128, old)
            /\ new("horizontal", old) = Becomes(b[32], 16, 32, 2, old)
            /\ new("vertical", old) = Becomes(b[32], 64, 128, 2, old)
            /\ new("backLed", old) = Becomes(b[36], 64, 128, 2, old)
            /\ new("compensation", old) = Becomes(b[23], 8, 16, 16, old)
      /\ speed = IF Bit(b[16], 1) = 1 THEN ReadBack[((b[16] \div 2) % 128) + 1]
                                      ELSE s.wind
  BY <1>3, BecomesIs
<1>5. LET k == Key(b) IN /\ k[1] = b[16] /\ k[2] = b[18] /\ k[3] = b[19]
                         /\ k[4] = b[23] /\ k[5] = b[32] /\ k[6] = b[36]
  BY DEF Key
<1> HIDE DEF new, speed
<1>6. y.setpoint = degrees /\ y.wind = wind
  BY <1>2
<1> QED
  BY <1>2, <1>4, <1>5, <1>6 DEF b

LEMMA PacketIs ==
    ASSUME NEW p, NEW name, NEW value, p = [setter |-> name, value |-> value]
    PROVE  /\ p.setter = name /\ p.value = value
           /\ name \in {"on", "ecoOff"} /\ value = 0 => p \in Packets
           /\ name = "mode" /\ value \in Mode => p \in Packets
           /\ name = "temperature" /\ value \in Minimum .. Maximum => p \in Packets
           /\ name = "fan" /\ value \in Fan => p \in Packets
           /\ name = "swing" /\ value \in {1, 2, 5, 6} => p \in Packets
           /\ name = "preset" /\ value \in Preset => p \in Packets
           /\ name = "display" /\ value \in 0 .. 1 => p \in Packets
           /\ name = "dryOffset" /\ (\E n \in Offset : value = Nibble(n)) => p \in Packets
BY DEF Packets

LEMMA StatusIs ==
    ASSUME NEW s \in Status
    PROVE  /\ s = [run |-> s.run, mode |-> s.mode, setpoint |-> s.setpoint,
                   wind |-> s.wind, compensation |-> s.compensation,
                   swing |-> s.swing, backLed |-> s.backLed]
           /\ s.run \in 0 .. 3 /\ s.mode \in 0 .. 15 /\ s.setpoint \in 0 .. 255
           /\ s.wind \in 0 .. 255 /\ s.compensation \in 0 .. 15
           /\ s.swing \in Swing /\ s.backLed \in 0 .. 1
           /\ Horizontal * Moves(s.swing, Horizontal)
                 + Vertical * Moves(s.swing, Vertical) = s.swing
<1>1. /\ s = [run |-> s.run, mode |-> s.mode, setpoint |-> s.setpoint,
                   wind |-> s.wind, compensation |-> s.compensation,
                   swing |-> s.swing, backLed |-> s.backLed]
      /\ s.run \in 0 .. 3 /\ s.mode \in 0 .. 15 /\ s.setpoint \in 0 .. 255
      /\ s.wind \in 0 .. 255 /\ s.compensation \in 0 .. 15
      /\ s.swing \in Swing /\ s.backLed \in 0 .. 1
  BY DEF Status
<1>2. \A n \in Swing : Horizontal * Moves(n, Horizontal)
                          + Vertical * Moves(n, Vertical) = n
  <2>1. Swing = {0, 1, 2, 3}
    BY DEF Swing
  <2> QED
    BY <2>1 DEF Moves, Horizontal, Vertical
<1> QED
  BY <1>1, <1>2

\* What is read of the key, in the order of the fields of a status.
LEMMA KeyedUnit ==
    ASSUME NEW s \in Status, NEW p \in Packets, NEW y \in Obeying(s, p),
           NEW k1, NEW k2, NEW k3, NEW k4, NEW k5, NEW k6,
           Key(Body(p)) = <<k1, k2, k3, k4, k5, k6>>
    PROVE  /\ y = [run |-> Becomes(k2, 4, 8, 2, s.run),
                   mode |-> Becomes(k2, 16, 32, 8, s.mode),
                   setpoint |-> y.setpoint, wind |-> y.wind,
                   compensation |-> Becomes(k4, 8, 16, 16, s.compensation),
                   swing |-> Horizontal * Becomes(k5, 16, 32, 2, Moves(s.swing, Horizontal))
                        + Vertical * Becomes(k5, 64, 128, 2, Moves(s.swing, Vertical)),
                   backLed |-> Becomes(k6, 64, 128, 2, s.backLed)]
           /\ \/ y.setpoint = Becomes(k3, 1, 2, 128, s.setpoint)
              \/ p.setter = "mode" /\ p.value # ModeOff /\ y.setpoint \in Setpoints
           /\ \/ y.wind = IF Bit(k1, 1) = 1 THEN ReadBack[((k1 \div 2) % 128) + 1]
                                            ELSE s.wind
              \/ p.setter # "fan" /\ y.wind = s.wind
<1> DEFINE k == <<k1, k2, k3, k4, k5, k6>>
<1>1. k[1] = k1 /\ k[2] = k2 /\ k[3] = k3 /\ k[4] = k4 /\ k[5] = k5 /\ k[6] = k6
  OBVIOUS
<1>2. Key(Body(p)) = k
  OBVIOUS
<1> HIDE DEF k
<1> QED
  BY <1>1, <1>2, ObeyingIs

LEMMA KeyedWind ==
    ASSUME NEW s \in Status, NEW p \in Packets, NEW y \in Obeying(s, p),
           NEW k1, Key(Body(p))[1] = k1
    PROVE  \/ y.wind = IF Bit(k1, 1) = 1 THEN ReadBack[((k1 \div 2) % 128) + 1]
                                         ELSE s.wind
           \/ p.setter # "fan" /\ y.wind = s.wind
BY ObeyingIs

LEMMA KeyedSetpoint ==
    ASSUME NEW s \in Status, NEW p \in Packets, NEW y \in Obeying(s, p),
           NEW k3, Key(Body(p))[3] = k3
    PROVE  \/ y.setpoint = Becomes(k3, 1, 2, 128, s.setpoint)
           \/ p.setter = "mode" /\ y.setpoint \in Setpoints
BY ObeyingIs

LEMMA BitsOfRest ==
    \A old : /\ Becomes(0, 4, 8, 2, old) = old /\ Becomes(0, 16, 32, 8, old) = old
             /\ Becomes(0, 1, 2, 128, old) = old
             /\ Becomes(4, 8, 16, 16, old) = old
             /\ Becomes(0, 8, 16, 16, old) = old
             /\ Becomes(0, 16, 32, 2, old) = old /\ Becomes(0, 64, 128, 2, old) = old
             /\ Becomes(1, 16, 32, 2, old) = old /\ Becomes(1, 64, 128, 2, old) = old
BY DEF Becomes, Bit

LEMMA SpeedBits ==
    /\ Bit(0, 1) = 0 /\ Bit(1, 1) = 1 /\ Bit(3, 1) = 1 /\ Bit(5, 1) = 1
    /\ Bit(7, 1) = 1 /\ Bit(9, 1) = 1
    /\ ReadBack[((1 \div 2) % 128) + 1] = 1 /\ ReadBack[((3 \div 2) % 128) + 1] = 2
    /\ ReadBack[((5 \div 2) % 128) + 1] = 10 /\ ReadBack[((7 \div 2) % 128) + 1] = 14
    /\ ReadBack[((9 \div 2) % 128) + 1] = 18
<1>1. (1 \div 2) % 128 = 0 /\ (3 \div 2) % 128 = 1 /\ (5 \div 2) % 128 = 2
      /\ (7 \div 2) % 128 = 3 /\ (9 \div 2) % 128 = 4
  OBVIOUS
<1> QED
  BY <1>1 DEF Bit, ReadBack

-----------------------------------------------------------------------------
(* What becomes of a unit that obeys, setter by setter.                    *)

LEMMA ObeysOn ==
    ASSUME NEW s \in Status, NEW y \in Obeying(s, [setter |-> "on", value |-> 0])
    PROVE  y = [s EXCEPT !.run = 1]
<1> DEFINE p == [setter |-> "on", value |-> 0]
<1>1. p \in Packets /\ y \in Obeying(s, p) /\ p.setter = "on"
  BY PacketIs
<1>2. Key(Body(p)) = <<0, 12, 0, 4, 0, 0>>
  BY <1>1, KeyOfOthers
<1> HIDE DEF p
<1>3. Becomes(12, 4, 8, 2, s.run) = 1 /\ Becomes(12, 16, 32, 8, s.mode) = s.mode
  BY DEF Becomes, Bit
<1> QED
  BY <1>1, <1>2, <1>3, KeyedUnit, BitsOfRest, SpeedBits, StatusIs

LEMMA ObeysOff ==
    ASSUME NEW s \in Status, NEW y \in Obeying(s, [setter |-> "mode", value |-> ModeOff])
    PROVE  y = [s EXCEPT !.run = 0]
<1> DEFINE p == [setter |-> "mode", value |-> ModeOff]
<1>1. p \in Packets /\ y \in Obeying(s, p) /\ p.setter = "mode" /\ p.value = 4
  BY PacketIs DEF Mode, ModeOff
<1>2. Key(Body(p)) = <<0, 4, 0, 4, 1, 0>>
  BY <1>1, KeyOfMode
<1> HIDE DEF p
<1>3. Becomes(4, 4, 8, 2, s.run) = 0 /\ Becomes(4, 16, 32, 8, s.mode) = s.mode
  BY DEF Becomes, Bit
<1>4. p.value = ModeOff
  BY <1>1 DEF ModeOff
<1> QED
  BY <1>1, <1>2, <1>3, <1>4, KeyedUnit, BitsOfRest, SpeedBits, StatusIs

\* A mode packet may change the fan speed and the setpoint as well.
LEMMA ObeysMode ==
    ASSUME NEW s \in Status, NEW m \in Mode \ {ModeOff},
           NEW y \in Obeying(s, [setter |-> "mode", value |-> m])
    PROVE  /\ y = [run |-> s.run, mode |-> m, setpoint |-> y.setpoint, wind |-> y.wind,
                   compensation |-> s.compensation, swing |-> s.swing,
                   backLed |-> s.backLed]
           /\ y.setpoint \in 0 .. 255 /\ y.wind \in 0 .. 255
<1> DEFINE p == [setter |-> "mode", value |-> m]
<1>1. p \in Packets /\ y \in Obeying(s, p) /\ p.setter = "mode" /\ p.value = m
  BY PacketIs
<1>2. m \in {0, 1, 2, 3}
  BY DEF Mode, ModeOff
<1>3. PICK k1, k2, k3 : /\ Key(Body(p)) = <<k1, k2, k3, 4, 1, 0>>
                        /\ k1 = 1 \/ k1 = 7
                        /\ k2 = 16 + 32 * m
                        /\ k3 \in {47, 51, 53}
  BY <1>1, <1>2, KeyOfMode
<1> HIDE DEF p
<1>4. Becomes(k2, 4, 8, 2, s.run) = s.run /\ Becomes(k2, 16, 32, 8, s.mode) = m
  BY <1>2, <1>3 DEF Becomes, Bit
<1>5. Becomes(k3, 1, 2, 128, s.setpoint) \in 0 .. 255
  BY <1>3 DEF Becomes, Bit
<1>6. \A d \in Setpoints : d \in 0 .. 255
  BY WalkAssumption DEF Setpoints, Status
<1>7. y.wind \in {s.wind, 1, 14}
  <2>1. Key(Body(p))[1] = k1
    BY <1>3
  <2> QED
    BY <1>1, <1>3, <2>1, KeyedWind, SpeedBits
<1>8. y.setpoint \in 0 .. 255
  <2>1. Key(Body(p))[3] = k3
    BY <1>3
  <2> QED
    BY <1>1, <1>5, <1>6, <2>1, KeyedSetpoint
<1>9. y.wind \in 0 .. 255
  BY <1>7, StatusIs
<1> QED
  BY <1>1, <1>3, <1>4, <1>8, <1>9, KeyedUnit, BitsOfRest, StatusIs

LEMMA ObeysTemperature ==
    ASSUME NEW s \in Status, NEW d \in Minimum .. Maximum,
           NEW y \in Obeying(s, [setter |-> "temperature", value |-> d])
    PROVE  y = [s EXCEPT !.setpoint = d]
<1> DEFINE p == [setter |-> "temperature", value |-> d]
<1>1. p \in Packets /\ y \in Obeying(s, p) /\ p.setter = "temperature" /\ p.value = d
  BY PacketIs
<1>2. Key(Body(p)) = <<0, 0, 2 * d + 1, 4, 0, 0>>
  BY <1>1, KeyOfOthers
<1> HIDE DEF p
<1>3. d \in 0 .. 127
  BY DEF Minimum, Maximum
<1>4. Becomes(2 * d + 1, 1, 2, 128, s.setpoint) = d
  BY <1>3 DEF Becomes, Bit
<1> QED
  BY <1>1, <1>2, <1>4, KeyedUnit, BitsOfRest, SpeedBits, StatusIs

LEMMA ObeysFan ==
    ASSUME NEW s \in Status, NEW f \in Fan,
           NEW y \in Obeying(s, [setter |-> "fan", value |-> f])
    PROVE  /\ y = [s EXCEPT !.wind = y.wind]
           /\ y.wind \in 0 .. 255 /\ NormalFan(y.wind) = f
<1> DEFINE p == [setter |-> "fan", value |-> f]
<1>1. p \in Packets /\ y \in Obeying(s, p) /\ p.setter = "fan" /\ p.value = f
  BY PacketIs
<1>2. PICK k1 : /\ Key(Body(p)) = <<k1, 0, 0, 4, 0, 0>>
                /\ \/ f = 0 /\ k1 = 1
                   \/ f = 2 /\ k1 = 3
                   \/ f = 10 /\ k1 = 5
                   \/ f = 14 /\ k1 = 7
                   \/ f = 18 /\ k1 = 9
  BY <1>1, KeyOfFan DEF Fan
<1> HIDE DEF p
<1>3. \/ f = 0 /\ y.wind = 1
      \/ f = 2 /\ y.wind = 2
      \/ f = 10 /\ y.wind = 10
      \/ f = 14 /\ y.wind = 14
      \/ f = 18 /\ y.wind = 18
  <2>1. Key(Body(p))[1] = k1
    BY <1>2
  <2> QED
    BY <1>1, <1>2, <2>1, KeyedWind, SpeedBits
<1>4. y.wind \in 0 .. 255 /\ NormalFan(y.wind) = f
  BY <1>3 DEF NormalFan
<1> QED
  BY <1>1, <1>2, <1>4, KeyedUnit, BitsOfRest, StatusIs

LEMMA ObeysPreset ==
    ASSUME NEW s \in Status, NEW n \in Preset,
           NEW y \in Obeying(s, [setter |-> "preset", value |-> n])
    PROVE  y = [s EXCEPT !.wind = y.wind] /\ y.wind \in 0 .. 255
<1> DEFINE p == [setter |-> "preset", value |-> n]
<1>1. p \in Packets /\ y \in Obeying(s, p) /\ p.setter = "preset" /\ p.value = n
  BY PacketIs
<1>2. PICK k1 \in {0, 1} : Key(Body(p)) = <<k1, 0, 0, 4, 0, 0>>
  BY <1>1, KeyOfPreset DEF Preset
<1> HIDE DEF p
<1>3. y.wind \in {s.wind, 1}
  <2>1. Key(Body(p))[1] = k1
    BY <1>2
  <2> QED
    BY <1>1, <1>2, <2>1, KeyedWind, SpeedBits
<1>4. y.wind \in 0 .. 255
  BY <1>3, StatusIs
<1> QED
  BY <1>1, <1>2, <1>4, KeyedUnit, BitsOfRest, StatusIs

LEMMA ObeysEcoOff ==
    ASSUME NEW s \in Status, NEW y \in Obeying(s, [setter |-> "ecoOff", value |-> 0])
    PROVE  y = s
<1> DEFINE p == [setter |-> "ecoOff", value |-> 0]
<1>1. p \in Packets /\ y \in Obeying(s, p) /\ p.setter = "ecoOff"
  BY PacketIs
<1>2. Key(Body(p)) = <<0, 0, 0, 4, 0, 0>>
  BY <1>1, KeyOfOthers
<1> HIDE DEF p
<1> QED
  BY <1>1, <1>2, KeyedUnit, BitsOfRest, SpeedBits, StatusIs

LEMMA ObeysDisplay ==
    ASSUME NEW s \in Status, NEW n \in 0 .. 1,
           NEW y \in Obeying(s, [setter |-> "display", value |-> n])
    PROVE  y = [s EXCEPT !.backLed = n]
<1> DEFINE p == [setter |-> "display", value |-> n]
<1>1. p \in Packets /\ y \in Obeying(s, p) /\ p.setter = "display" /\ p.value = n
  BY PacketIs
<1>2. PICK k6 : /\ Key(Body(p)) = <<0, 0, 0, 4, 0, k6>>
                /\ \/ n = 0 /\ k6 = 64
                   \/ n = 1 /\ k6 = 192
  BY <1>1, KeyOfDisplay
<1> HIDE DEF p
<1>3. Becomes(k6, 64, 128, 2, s.backLed) = n
  BY <1>2 DEF Becomes, Bit
<1> QED
  BY <1>1, <1>2, <1>3, KeyedUnit, BitsOfRest, SpeedBits, StatusIs

LEMMA ObeysDryOffset ==
    ASSUME NEW s \in Status, NEW n \in Offset,
           NEW y \in Obeying(s, [setter |-> "dryOffset", value |-> Nibble(n)])
    PROVE  y = [s EXCEPT !.compensation = Nibble(n)]
<1> DEFINE p == [setter |-> "dryOffset", value |-> Nibble(n)]
<1>1. p \in Packets /\ y \in Obeying(s, p) /\ p.setter = "dryOffset" /\ p.value = Nibble(n)
  BY PacketIs
<1>2. Key(Body(p)) = <<0, 0, 0, Nibble(n) * 16 + 12, 0, 0>>
  BY <1>1, KeyOfOthers
<1> HIDE DEF p
<1>3. Nibble(n) \in 0 .. 15
  BY DEF Nibble, Offset
<1>4. Becomes(Nibble(n) * 16 + 12, 8, 16, 16, s.compensation) = Nibble(n)
  BY <1>3 DEF Becomes, Bit
<1> QED
  BY <1>1, <1>2, <1>4, KeyedUnit, BitsOfRest, SpeedBits, StatusIs

\* A swing packet sets one axis and leaves the other.
LEMMA ObeysSwing ==
    ASSUME NEW s \in Status, NEW wanted \in Swing, NEW axis \in {Horizontal, Vertical},
           NEW y \in Obeying(s, [setter |-> "swing", value |-> axis + 4 * Moves(wanted, axis)])
    PROVE  y = [s EXCEPT !.swing = Turned(s.swing, wanted, axis)]
<1> DEFINE p == [setter |-> "swing", value |-> axis + 4 * Moves(wanted, axis)]
<1>1. Moves(wanted, axis) \in {0, 1}
  BY DEF Moves, Swing, Horizontal, Vertical
<1>2. p.value \in {1, 2, 5, 6}
  BY <1>1 DEF Horizontal, Vertical
<1>3. p \in Packets /\ y \in Obeying(s, p) /\ p.setter = "swing" /\ p.value = axis + 4 * Moves(wanted, axis)
  BY <1>2, PacketIs
<1> HIDE DEF p
<1> DEFINE h == Moves(s.swing, Horizontal)
           v == Moves(s.swing, Vertical)
<1>4. s.swing = h + 2 * v /\ h \in 0 .. 1 /\ v \in 0 .. 1
  BY StatusIs DEF Moves, Horizontal, Vertical, Swing
<1>5. PICK k5 :
         /\ Key(Body(p)) = <<0, 0, 0, 4, k5, 0>>
         /\ Horizontal * Becomes(k5, 16, 32, 2, h) + Vertical * Becomes(k5, 64, 128, 2, v)
               = Turned(s.swing, wanted, axis)
  <2>1. CASE axis = Horizontal
    <3>1. Turned(s.swing, wanted, axis) = Moves(wanted, axis) + 2 * v
      BY <1>1, <1>4, <2>1 DEF Turned, Horizontal
    <3>2. /\ Becomes(16, 16, 32, 2, h) = 0 /\ Becomes(48, 16, 32, 2, h) = 1
          /\ Becomes(16, 64, 128, 2, v) = v /\ Becomes(48, 64, 128, 2, v) = v
      BY DEF Becomes, Bit
    <3>3. CASE Moves(wanted, axis) = 0
      BY <1>3, <1>4, <2>1, <3>1, <3>2, <3>3, KeyOfSwing DEF Horizontal, Vertical
    <3>4. CASE Moves(wanted, axis) = 1
      BY <1>3, <1>4, <2>1, <3>1, <3>2, <3>4, KeyOfSwing DEF Horizontal, Vertical
    <3> QED
      BY <1>1, <3>3, <3>4
  <2>2. CASE axis = Vertical
    <3>1. Turned(s.swing, wanted, axis) = h + 2 * Moves(wanted, axis)
      BY <1>1, <1>4, <2>2 DEF Turned, Vertical
    <3>2. /\ Becomes(64, 64, 128, 2, v) = 0 /\ Becomes(192, 64, 128, 2, v) = 1
          /\ Becomes(64, 16, 32, 2, h) = h /\ Becomes(192, 16, 32, 2, h) = h
      BY DEF Becomes, Bit
    <3>3. CASE Moves(wanted, axis) = 0
      BY <1>3, <1>4, <2>2, <3>1, <3>2, <3>3, KeyOfSwing DEF Horizontal, Vertical
    <3>4. CASE Moves(wanted, axis) = 1
      BY <1>3, <1>4, <2>2, <3>1, <3>2, <3>4, KeyOfSwing DEF Horizontal, Vertical
    <3> QED
      BY <1>1, <3>3, <3>4
  <2> QED
    BY <2>1, <2>2
<1> HIDE DEF h, v
<1>6. /\ y.setpoint = s.setpoint /\ y.wind = s.wind
  <2>1. Key(Body(p))[1] = 0 /\ Key(Body(p))[3] = 0
    BY <1>5
  <2> QED
    BY <1>3, <2>1, KeyedWind, KeyedSetpoint, BitsOfRest, SpeedBits
<1> QED
  BY <1>3, <1>5, <1>6, KeyedUnit, BitsOfRest, StatusIs DEF h, v

-----------------------------------------------------------------------------
(* Outlines of a plan: the statuses a unit may show before each of its     *)
(* steps, in the manner of Hoare.                                          *)

\* The parts of a status that a request may change.
Changeable(r) == UNION {Touches[g] : g \in DOMAIN r}

\* From any status of P the step is sent, and what the unit makes of it is in
\* Q, is what the step is to achieve, and nothing that the request leaves alone.
Leads(r, P, step, Q) ==
    \A x \in P :
       /\ ~Blocked(x, step) \/ OffInDry(x, r)
       /\ step.packet \in Packets
       /\ \A y \in Obeying(x, step.packet) :
             /\ y \in Q /\ Matches(y, step.expected)
             /\ \A f \in DOMAIN x \ Changeable(r) : y[f] = x[f]

Outlines(r, P, steps, Q, S) ==
    /\ S \in [0 .. Len(steps) -> SUBSET Status]
    /\ P \subseteq S[0] /\ S[Len(steps)] \subseteq Q
    /\ \A i \in 1 .. Len(steps) : Leads(r, S[i - 1], steps[i], S[i])

Outline(r, P, steps, Q) ==
    /\ steps \in Seq(Range(steps))
    /\ \E S : Outlines(r, P, steps, Q, S)

LEMMA StepsConcat ==
    ASSUME NEW s, NEW t, s \in Seq(Range(s)), t \in Seq(Range(t))
    PROVE  LET u == s \o t IN
           /\ u \in Seq(Range(u)) /\ DOMAIN u = 1 .. Len(s) + Len(t)
           /\ Len(s) \in Nat /\ Len(t) \in Nat /\ Len(u) = Len(s) + Len(t)
           /\ DOMAIN s = 1 .. Len(s) /\ DOMAIN t = 1 .. Len(t)
           /\ \A i \in 1 .. Len(s) + Len(t) :
                 u[i] = IF i <= Len(s) THEN s[i] ELSE t[i - Len(s)]
<1> DEFINE X == Range(s) \cup Range(t)
           u == s \o t
<1>1. s \in Seq(X) /\ t \in Seq(X)
  BY DEF Range
<1>2. /\ u \in Seq(X) /\ Len(u) = Len(s) + Len(t)
      /\ Len(s) \in Nat /\ Len(t) \in Nat
      /\ \A i \in 1 .. Len(s) + Len(t) : u[i] = IF i <= Len(s) THEN s[i] ELSE t[i - Len(s)]
  BY <1>1, ConcatProperties, LenProperties
<1> HIDE DEF u
<1>3. DOMAIN u = 1 .. Len(u) /\ DOMAIN s = 1 .. Len(s) /\ DOMAIN t = 1 .. Len(t)
  BY <1>1, <1>2, LenProperties
<1>4. u \in Seq(Range(u))
  <2>1. \A i \in 1 .. Len(u) : u[i] \in Range(u)
    BY <1>3 DEF Range
  <2>2. u = [i \in 1 .. Len(u) |-> u[i]] /\ Len(u) \in Nat
    BY <1>2, LenProperties
  <2> QED
    BY <2>1, <2>2, SeqDef
<1> QED
  BY <1>2, <1>3, <1>4 DEF u

LEMMA OutlineConcat ==
    ASSUME NEW r, NEW P, NEW Q, NEW R, NEW s, NEW t,
           Outline(r, P, s, Q), Outline(r, Q, t, R)
    PROVE  Outline(r, P, s \o t, R)
<1> DEFINE u == s \o t
           n == Len(s)
           m == Len(t)
<1>1. s \in Seq(Range(s)) /\ t \in Seq(Range(t))
  BY DEF Outline
<1>2. /\ u \in Seq(Range(u)) /\ Len(u) = n + m /\ n \in Nat /\ m \in Nat
      /\ \A i \in 1 .. n + m : u[i] = IF i <= n THEN s[i] ELSE t[i - n]
  BY <1>1, StepsConcat
<1> HIDE DEF u, n, m
<1>4. PICK S : Outlines(r, P, s, Q, S)
  BY DEF Outline
<1>5. PICK T : Outlines(r, Q, t, R, T)
  BY DEF Outline
<1> DEFINE W == [i \in 0 .. n + m |-> IF i <= n THEN S[i] ELSE T[i - n]]
<1>6. /\ S \in [0 .. n -> SUBSET Status] /\ T \in [0 .. m -> SUBSET Status]
      /\ P \subseteq S[0] /\ S[n] \subseteq Q /\ Q \subseteq T[0] /\ T[m] \subseteq R
      /\ \A i \in 1 .. n : Leads(r, S[i - 1], s[i], S[i])
      /\ \A i \in 1 .. m : Leads(r, T[i - 1], t[i], T[i])
  BY <1>4, <1>5 DEF Outlines, n, m
<1>7. W \in [0 .. n + m -> SUBSET Status] /\ P \subseteq W[0]
  BY <1>2, <1>6
<1>8. W[n + m] \subseteq R
  <2>1. CASE m = 0
    BY <1>2, <1>6, <2>1
  <2>2. CASE m # 0
    <3>1. W[n + m] = T[m]
      BY <1>2, <2>2
    <3> QED
      BY <1>6, <3>1
  <2> QED
    BY <2>1, <2>2
<1>9. ASSUME NEW i \in 1 .. n + m
      PROVE  Leads(r, W[i - 1], u[i], W[i])
  <2>1. CASE i <= n
    <3>1. W[i - 1] = S[i - 1] /\ W[i] = S[i] /\ u[i] = s[i] /\ i \in 1 .. n
      BY <1>2, <2>1
    <3> QED
      BY <1>6, <3>1
  <2>2. CASE i = n + 1
    <3>1. W[i - 1] = S[n] /\ W[i] = T[1] /\ u[i] = t[1] /\ 1 \in 1 .. m
      <4>1. /\ n \in 0 .. n + m /\ n <= n /\ n + 1 \in 0 .. n + m
            /\ ~(n + 1 <= n) /\ (n + 1) - n = 1 /\ (n + 1) - 1 = n /\ 1 \in 1 .. m
        BY <1>2, <2>2
      <4>2. W[n] = S[n] /\ W[n + 1] = T[1]
        BY <4>1
      <4>3. u[n + 1] = t[1]
        BY <1>2, <4>1
      <4> QED
        BY <2>2, <4>1, <4>2, <4>3
    <3>2. Leads(r, T[1 - 1], t[1], T[1])
      BY <1>6, <3>1
    <3>3. S[n] \subseteq T[0] /\ T[1 - 1] = T[0]
      BY <1>6
    <3> QED
      BY <3>1, <3>2, <3>3 DEF Leads
  <2>3. CASE i > n + 1
    <3>1. /\ W[i - 1] = T[(i - n) - 1] /\ W[i] = T[i - n] /\ u[i] = t[i - n]
          /\ i - n \in 1 .. m
      BY <1>2, <2>3
    <3> QED
      BY <1>6, <3>1
  <2> QED
    BY <1>2, <2>1, <2>2, <2>3
<1> HIDE DEF W
<1>10. Outlines(r, P, u, R, W)
  BY <1>2, <1>7, <1>8, <1>9 DEF Outlines
<1> QED
  BY <1>2, <1>10 DEF Outline, u

LEMMA OutlineNone ==
    ASSUME NEW r, NEW P, NEW Q \in SUBSET Status, P \subseteq Q
    PROVE  Outline(r, P, <<>>, Q)
<1> DEFINE S == [i \in 0 .. 0 |-> Q]
<1>1. Outlines(r, P, <<>>, Q, S)
  BY DEF Outlines
<1> HIDE DEF S
<1> QED
  BY <1>1 DEF Outline

LEMMA OutlineOne ==
    ASSUME NEW r, NEW P \in SUBSET Status, NEW Q \in SUBSET Status, NEW c, NEW step,
           c => Leads(r, P, step, Q), ~c => P \subseteq Q
    PROVE  Outline(r, P, When(c, <<step>>), Q)
<1>1. CASE c
  <2> DEFINE s == <<step>>
             S == [i \in 0 .. 1 |-> IF i = 0 THEN P ELSE Q]
  <2>1. s \in Seq(Range(s)) /\ Len(s) = 1 /\ s[1] = step
    BY DEF Range
  <2>2. S \in [0 .. 1 -> SUBSET Status] /\ S[0] = P /\ S[1] = Q
    OBVIOUS
  <2> HIDE DEF s, S
  <2>3. \A i \in 1 .. 1 : S[i - 1] = P /\ S[i] = Q /\ s[i] = step
    BY <2>1, <2>2
  <2>4. Outlines(r, P, s, Q, S)
    BY <1>1, <2>1, <2>2, <2>3 DEF Outlines
  <2> QED
    BY <1>1, <2>1, <2>4 DEF Outline, When, s
<1>2. CASE ~c
  BY <1>2, OutlineNone DEF When
<1> QED
  BY <1>1, <1>2

-----------------------------------------------------------------------------
(* The statuses between the parts of a plan.                               *)

LEMMA MatchesOne ==
    ASSUME NEW u, NEW r
    PROVE  /\ Matches(u, ModeGuard(r)) <=>
                 (Names(r, "mode") => IF r["mode"] = ModeOff THEN u.run = 0
                                      ELSE u.run # 0 /\ u.mode = r["mode"])
           /\ Matches(u, Only(r, {"mode"})) <=> Matches(u, ModeGuard(r))
           /\ Matches(u, Only(r, {"temperature"})) <=>
                 (Names(r, "temperature") => u.setpoint = r["temperature"])
           /\ Matches(u, Only(r, {"fan"})) <=>
                 (Names(r, "fan") => NormalFan(u.wind) = r["fan"])
           /\ Matches(u, Only(r, {"display"})) <=>
                 (Names(r, "display") => u.backLed = r["display"])
           /\ Matches(u, NoIntent)
           /\ \A w : Matches(u, Swings(w)) <=> u.swing = w
           /\ Matches(u, [f \in {"power"} |-> 1]) <=> u.run # 0
<1>1. \A f \in {"mode", "temperature", "fan", "display"} :
         /\ DOMAIN Only(r, {f}) = IF Names(r, f) THEN {f} ELSE {}
         /\ Names(r, f) => Only(r, {f})[f] = r[f]
  BY DEF Only, Names
<1>2. DOMAIN NoIntent = {}
  BY DEF NoIntent
<1>3. \A w : DOMAIN Swings(w) = {"swing"} /\ Swings(w)["swing"] = w
  BY DEF Swings
<1> QED
  BY <1>1, <1>2, <1>3 DEF Matches, ModeGuard, Names

\* What a field may change, a request that names it may.
LEMMA MayChange ==
    ASSUME NEW r
    PROVE  /\ Names(r, "mode") =>
                 {"run", "mode", "setpoint", "wind"} \subseteq Changeable(r)
           /\ Names(r, "temperature") => "setpoint" \in Changeable(r)
           /\ Names(r, "fan") => "wind" \in Changeable(r)
           /\ Names(r, "swing") => "swing" \in Changeable(r)
           /\ Names(r, "preset") => "wind" \in Changeable(r)
           /\ Names(r, "display") => "backLed" \in Changeable(r)
           /\ Names(r, "dryOffset") => "compensation" \in Changeable(r)
<1>1. \A g \in DOMAIN r : Touches[g] \subseteq Changeable(r)
  BY DEF Changeable
<1> QED
  BY <1>1 DEF Names, Touches

ModeShown(s, r, u) ==
    /\ Matches(u, ModeGuard(r))
    /\ (Names(r, "mode") => r["mode"] = ModeOff) => u.mode = s.mode

\* The fan speed that is asked for stays: it is set after the mode, or was there
\* and no mode packet came, and no preset follows.
FanStays(s, r) ==
    /\ Names(r, "fan") /\ ~Names(r, "preset")
    /\ Differs(s, r, "fan") \/ ~Differs(s, r, "mode")

\* The unit after the steps of the first n fields, from a baseline s, when its
\* swing is w.
Stage(n, s, r, w) ==
    {u \in Status :
       /\ ModeShown(s, r, u)
       /\ IF n >= 3 THEN Matches(u, Only(r, {"temperature"}))
                    ELSE ~Names(r, "mode") => u.setpoint = s.setpoint
       /\ IF n >= 4 THEN FanStays(s, r) => NormalFan(u.wind) = r["fan"]
                    ELSE ~Differs(s, r, "mode") => u.wind = s.wind
       /\ u.swing = w
       /\ IF n >= 7 THEN Matches(u, Only(r, {"display"})) ELSE u.backLed = s.backLed}

\* The unit once it is switched on.
Awake(s, r) ==
    IF Names(r, "mode") /\ r["mode"] # ModeOff /\ s.run = 0
      THEN [s EXCEPT !.run = 1] ELSE s

LEMMA StageIsStatus == \A n, s, r, w : Stage(n, s, r, w) \in SUBSET Status
BY DEF Stage

\* A step with no guard but its expectation is sent from anywhere.
LEMMA NotBlocked ==
    ASSUME NEW x, NEW name, NEW value, NEW expected, NEW guard,
           ~Names(expected, "temperature"), Matches(x, guard)
    PROVE  LET step == Setter(name, value, expected, guard) IN
           /\ ~Blocked(x, step)
           /\ step.packet = [setter |-> name, value |-> value]
           /\ step.expected = expected
BY DEF Blocked, Setter

LEMMA PowerOutline ==
    ASSUME NEW s \in Status, NEW r \in Requests
    PROVE  Outline(r, {s}, PowerSteps(s, r), {Awake(s, r)})
<1> DEFINE c == Names(r, "mode") /\ r["mode"] # ModeOff /\ s.run = 0
           expected == [f \in {"power"} |-> 1]
           step == Setter("on", 0, expected, NoIntent)
<1>1. ASSUME c PROVE Leads(r, {s}, step, {Awake(s, r)})
  <2>1. ~Names(expected, "temperature") /\ Matches(s, NoIntent)
    BY MatchesOne DEF Names
  <2>2. /\ ~Blocked(s, step) /\ step.expected = expected
        /\ step.packet = [setter |-> "on", value |-> 0]
    BY <2>1, NotBlocked
  <2>3. ASSUME NEW y \in Obeying(s, step.packet)
        PROVE  /\ y \in {Awake(s, r)} /\ Matches(y, expected)
               /\ \A f \in DOMAIN s \ Changeable(r) : y[f] = s[f]
    <3>1. y = [s EXCEPT !.run = 1]
      BY <2>2, ObeysOn
    <3>2. y = Awake(s, r)
      BY <1>1, <3>1 DEF Awake
    <3>3. y.run = 1
      BY <3>1 DEF Status
    <3>4. \A f \in DOMAIN s \ {"run"} : y[f] = s[f]
      BY <3>1 DEF Status
    <3>5. "run" \in Changeable(r)
      BY <1>1, MayChange
    <3>6. Matches(y, expected)
      BY <3>3, MatchesOne
    <3> QED
      BY <3>2, <3>4, <3>5, <3>6
  <2>4. step.packet \in Packets
    BY <2>2, PacketIs
  <2> HIDE DEF step, expected
  <2> QED
    BY <2>2, <2>3, <2>4 DEF Leads
<1>2. ~c => {s} \subseteq {Awake(s, r)}
  BY DEF Awake
<1>3. {s} \in SUBSET Status /\ {Awake(s, r)} \in SUBSET Status
  BY DEF Awake, Status
<1> HIDE DEF c, step
<1>4. Outline(r, {s}, When(c, <<step>>), {Awake(s, r)})
  BY <1>1, <1>2, <1>3, OutlineOne
<1> QED
  BY <1>4 DEF PowerSteps, c, step

LEMMA AwakeIs ==
    ASSUME NEW s \in Status, NEW r
    PROVE  LET x == Awake(s, r) IN
           /\ x \in Status /\ x.mode = s.mode /\ x.setpoint = s.setpoint
           /\ x.wind = s.wind /\ x.swing = s.swing /\ x.backLed = s.backLed
           /\ Names(r, "mode") /\ r["mode"] # ModeOff => x.run # 0
           /\ ~Names(r, "mode") \/ r["mode"] = ModeOff \/ s.run # 0 => x = s
BY DEF Awake, Status

LEMMA ModeOutline ==
    ASSUME NEW s \in Status, NEW r \in Requests
    PROVE  Outline(r, {Awake(s, r)}, ModeSteps(s, r), Stage(2, s, r, s.swing))
<1> DEFINE c == Differs(s, r, "mode")
           expected == ModeGuard(r)
           step == Setter("mode", r["mode"], expected, NoIntent)
           x == Awake(s, r)
           Q == Stage(2, s, r, s.swing)
<1>1. ASSUME c PROVE Leads(r, {x}, step, Q)
  <2>1. ~Names(expected, "temperature") /\ Matches(x, NoIntent)
    BY MatchesOne DEF Names, ModeGuard, Only
  <2>2. /\ ~Blocked(x, step) /\ step.expected = expected
        /\ step.packet = [setter |-> "mode", value |-> r["mode"]]
    BY <2>1, NotBlocked
  <2>3. x \in Status /\ Names(r, "mode") /\ r["mode"] \in Mode
    BY <1>1, AwakeIs, RequestIs DEF Differs
  <2>4. ASSUME NEW y \in Obeying(x, step.packet)
        PROVE  /\ y \in Q /\ Matches(y, expected)
               /\ \A f \in DOMAIN x \ Changeable(r) : y[f] = x[f]
    <3>1. /\ y \in Status /\ y.swing = x.swing /\ y.backLed = x.backLed
          /\ \A f \in DOMAIN x \ {"run", "mode", "setpoint", "wind"} : y[f] = x[f]
          /\ IF r["mode"] = ModeOff THEN y.run = 0 /\ y.mode = x.mode
                                    ELSE y.run = x.run /\ y.mode = r["mode"]
      <4>1. CASE r["mode"] = ModeOff
        <5>1. y = [x EXCEPT !.run = 0]
          BY <2>2, <2>3, <4>1, ObeysOff
        <5> QED
          BY <2>3, <4>1, <5>1 DEF Status
      <4>2. CASE r["mode"] # ModeOff
        <5>1. /\ y = [run |-> x.run, mode |-> r["mode"], setpoint |-> y.setpoint,
                      wind |-> y.wind, compensation |-> x.compensation,
                      swing |-> x.swing, backLed |-> x.backLed]
              /\ y.setpoint \in 0 .. 255 /\ y.wind \in 0 .. 255
          BY <2>2, <2>3, <4>2, ObeysMode
        <5>2. r["mode"] \in 0 .. 15
          BY <2>3 DEF Mode, ModeOff
        <5> QED
          BY <2>3, <4>2, <5>1, <5>2 DEF Status
      <4> QED
        BY <4>1, <4>2
    <3>2. Matches(y, ModeGuard(r))
      BY <2>3, <3>1, AwakeIs, MatchesOne
    <3>3. y \in Q
      BY <1>1, <2>3, <3>1, <3>2, AwakeIs DEF Stage, ModeShown
    <3> QED
      BY <2>3, <3>1, <3>2, <3>3, MayChange
  <2>5. step.packet \in Packets
    BY <2>2, <2>3, PacketIs
  <2> HIDE DEF step, expected, x, Q
  <2> QED
    BY <2>2, <2>4, <2>5 DEF Leads
<1>2. ASSUME ~c PROVE {x} \subseteq Q
  <2>1. Matches(s, ModeGuard(r))
    BY <1>2, MatchesOne DEF Differs
  <2>2. x = s
    BY <2>1, AwakeIs, MatchesOne
  <2> QED
    BY <2>1, <2>2 DEF Stage, ModeShown
<1>3. {x} \in SUBSET Status /\ Q \in SUBSET Status
  BY AwakeIs, StageIsStatus
<1> HIDE DEF c, step, x, Q
<1>4. Outline(r, {x}, When(c, <<step>>), Q)
  BY <1>1, <1>2, <1>3, OutlineOne
<1> QED
  BY <1>4 DEF ModeSteps, c, step, x, Q

LEMMA TemperatureOutline ==
    ASSUME NEW s \in Status, NEW r \in Requests, NEW w,
           ~Names(r, "dryOffset"), ~RuledOut(s, r)
    PROVE  Outline(r, Stage(2, s, r, w), TemperatureSteps(s, r), Stage(3, s, r, w))
<1> DEFINE c == Names(r, "temperature") /\ (Names(r, "mode") \/ Differs(s, r, "temperature"))
           expected == Only(r, {"temperature"})
           step == Setter("temperature", r["temperature"], expected, ModeGuard(r))
           P == Stage(2, s, r, w)
           Q == Stage(3, s, r, w)
<1>1. ASSUME c PROVE Leads(r, P, step, Q)
  <2>1. SUFFICES ASSUME NEW x \in P
                 PROVE  /\ ~Blocked(x, step) \/ OffInDry(x, r)
                        /\ step.packet \in Packets
                        /\ \A y \in Obeying(x, step.packet) :
                              /\ y \in Q /\ Matches(y, step.expected)
                              /\ \A f \in DOMAIN x \ Changeable(r) : y[f] = x[f]
    BY DEF Leads
  <2>2. /\ step.packet = [setter |-> "temperature", value |-> r["temperature"]]
        /\ step.expected = expected /\ step.guard = ModeGuard(r)
    BY DEF Setter
  <2>3. x \in Status /\ ModeShown(s, r, x)
    BY DEF Stage
  <2>4. ~Blocked(x, step) \/ OffInDry(x, r)
    <3>1. SUFFICES ASSUME DryOffsetEnabled, x.mode = Dry
                   PROVE  OffInDry(x, r)
      BY <2>2, <2>3 DEF Blocked, ModeShown
    <3>2. IF Names(r, "mode") THEN r["mode"] # Dry ELSE s.mode # Dry
      BY <1>1, <3>1 DEF RuledOut
    <3>3. Names(r, "mode") /\ r["mode"] = ModeOff
      BY <2>3, <3>1, <3>2, MatchesOne DEF ModeShown
    <3> QED
      BY <1>1, <3>1, <3>3 DEF OffInDry
  <2>5. ASSUME NEW y \in Obeying(x, step.packet)
        PROVE  /\ y \in Q /\ Matches(y, expected)
               /\ \A f \in DOMAIN x \ Changeable(r) : y[f] = x[f]
    <3>1. r["temperature"] \in Minimum .. Maximum /\ r["temperature"] \in 0 .. 255
      BY <1>1, RequestIs DEF Minimum, Maximum
    <3>2. y = [x EXCEPT !.setpoint = r["temperature"]]
      BY <2>2, <2>3, <3>1, ObeysTemperature
    <3>3. /\ y \in Status /\ y.setpoint = r["temperature"]
          /\ y.run = x.run /\ y.mode = x.mode /\ y.wind = x.wind /\ y.swing = x.swing
          /\ y.backLed = x.backLed /\ \A f \in DOMAIN x \ {"setpoint"} : y[f] = x[f]
      BY <2>3, <3>1, <3>2 DEF Status
    <3>4. Matches(y, expected) /\ ModeShown(s, r, y)
      BY <2>3, <3>3, MatchesOne DEF ModeShown
    <3>5. y \in Q
      BY <3>3, <3>4 DEF Stage
    <3> QED
      BY <1>1, <3>3, <3>4, <3>5, MayChange
  <2>6. step.packet \in Packets
    BY <1>1, <2>2, RequestIs, PacketIs
  <2> QED
    BY <2>2, <2>4, <2>5, <2>6
<1>2. ASSUME ~c PROVE P \subseteq Q
  <2>1. Names(r, "temperature") => ~Names(r, "mode") /\ Matches(s, expected)
    BY <1>2 DEF Differs
  <2>2. ASSUME NEW x \in P PROVE Matches(x, expected)
    BY <2>1, MatchesOne DEF Stage
  <2> QED
    BY <2>2 DEF Stage
<1>3. P \in SUBSET Status /\ Q \in SUBSET Status
  BY StageIsStatus
<1> HIDE DEF c, step, P, Q
<1>4. Outline(r, P, When(c, <<step>>), Q)
  BY <1>1, <1>2, <1>3, OutlineOne
<1> QED
  BY <1>4 DEF TemperatureSteps, c, step, P, Q

LEMMA FanOutline ==
    ASSUME NEW s \in Status, NEW r \in Requests, NEW w
    PROVE  Outline(r, Stage(3, s, r, w), FanSteps(s, r), Stage(4, s, r, w))
<1> DEFINE c == Differs(s, r, "fan")
           expected == Only(r, {"fan"})
           step == Setter("fan", r["fan"], expected, ModeGuard(r))
           P == Stage(3, s, r, w)
           Q == Stage(4, s, r, w)
<1>1. ASSUME c, NEW x \in P
      PROVE  /\ ~Blocked(x, step) /\ step.packet \in Packets
             /\ \A y \in Obeying(x, step.packet) :
                   /\ y \in Q /\ Matches(y, step.expected)
                   /\ \A f \in DOMAIN x \ Changeable(r) : y[f] = x[f]
  <2>1. x \in Status /\ ModeShown(s, r, x) /\ Names(r, "fan") /\ r["fan"] \in Fan
    BY <1>1, RequestIs DEF Stage, Differs
  <2>2. ~Names(expected, "temperature") /\ Matches(x, ModeGuard(r))
    BY <2>1 DEF Names, Only, ModeShown
  <2>3. /\ ~Blocked(x, step) /\ step.expected = expected
        /\ step.packet = [setter |-> "fan", value |-> r["fan"]]
    BY <2>2, NotBlocked
  <2>4. ASSUME NEW y \in Obeying(x, step.packet)
        PROVE  /\ y \in Q /\ Matches(y, expected)
               /\ \A f \in DOMAIN x \ Changeable(r) : y[f] = x[f]
    <3>1. /\ y = [x EXCEPT !.wind = y.wind]
          /\ y.wind \in 0 .. 255 /\ NormalFan(y.wind) = r["fan"]
      BY <2>1, <2>3, ObeysFan
    <3>2. /\ y \in Status /\ y.setpoint = x.setpoint
          /\ y.run = x.run /\ y.mode = x.mode /\ y.swing = x.swing
          /\ y.backLed = x.backLed /\ \A f \in DOMAIN x \ {"wind"} : y[f] = x[f]
      BY <2>1, <3>1 DEF Status
    <3>3. /\ Matches(y, expected) /\ ModeShown(s, r, y)
          /\ Matches(x, Only(r, {"temperature"})) => Matches(y, Only(r, {"temperature"}))
      <4>1. Matches(y, expected)
        BY <2>1, <3>1, <3>2, MatchesOne
      <4>2. ModeShown(s, r, y)
        BY <2>1, <3>2, MatchesOne DEF ModeShown
      <4>3. Matches(x, Only(r, {"temperature"})) => Matches(y, Only(r, {"temperature"}))
        BY <3>2, MatchesOne
      <4> QED
        BY <4>1, <4>2, <4>3
    <3>4. y \in Q
      BY <3>1, <3>2, <3>3 DEF Stage
    <3> QED
      BY <2>1, <3>2, <3>3, <3>4, MayChange
  <2>5. step.packet \in Packets
    BY <2>1, <2>3, PacketIs
  <2> QED
    BY <2>3, <2>4, <2>5
<1>2. ASSUME ~c PROVE P \subseteq Q
  <2>1. Names(r, "fan") => NormalFan(s.wind) = r["fan"]
    BY <1>2, MatchesOne DEF Differs
  <2>2. ASSUME NEW x \in P, FanStays(s, r) PROVE NormalFan(x.wind) = r["fan"]
    BY <1>2, <2>1, <2>2 DEF Stage, FanStays
  <2> QED
    BY <2>2 DEF Stage
<1>3. P \in SUBSET Status /\ Q \in SUBSET Status
  BY StageIsStatus
<1>4. c => Leads(r, P, step, Q)
  BY <1>1 DEF Leads
<1> HIDE DEF c, step, P, Q
<1>5. Outline(r, P, When(c, <<step>>), Q)
  BY <1>2, <1>3, <1>4, OutlineOne
<1> QED
  BY <1>5 DEF FanSteps, c, step, P, Q

LEMMA AxisOutline ==
    ASSUME NEW s \in Status, NEW r \in Requests, Names(r, "swing"),
           NEW before \in Swing, NEW wanted \in Swing,
           NEW axis \in {Horizontal, Vertical}
    PROVE  Outline(r, Stage(4, s, r, before), AxisSteps(before, wanted, axis),
                   Stage(4, s, r, Turned(before, wanted, axis)))
<1> DEFINE c == Moves(before, axis) # Moves(wanted, axis)
           after == Turned(before, wanted, axis)
           value == axis + 4 * Moves(wanted, axis)
           step == Setter("swing", value, Swings(after), Swings(before))
           P == Stage(4, s, r, before)
           Q == Stage(4, s, r, after)
<1>1. after \in Swing /\ value \in {1, 2, 5, 6}
  <2>1. wanted \in {0, 1, 2, 3} /\ axis \in {1, 2}
    BY DEF Swing, Horizontal, Vertical
  <2>2. Moves(wanted, axis) \in {0, 1}
    BY <2>1 DEF Moves
  <2> QED
    BY <2>1, <2>2, TurnedFacts
<1>2. ASSUME c, NEW x \in P
      PROVE  /\ ~Blocked(x, step) /\ step.packet \in Packets
             /\ \A y \in Obeying(x, step.packet) :
                   /\ y \in Q /\ Matches(y, step.expected)
                   /\ \A f \in DOMAIN x \ Changeable(r) : y[f] = x[f]
  <2>1. x \in Status /\ ModeShown(s, r, x) /\ x.swing = before
    BY <1>2 DEF Stage
  <2>2. ~Names(Swings(after), "temperature") /\ Matches(x, Swings(before))
    BY <2>1, MatchesOne DEF Names, Swings
  <2>3. /\ ~Blocked(x, step) /\ step.expected = Swings(after)
        /\ step.packet = [setter |-> "swing", value |-> value]
    BY <2>2, NotBlocked
  <2>4. ASSUME NEW y \in Obeying(x, step.packet)
        PROVE  /\ y \in Q /\ Matches(y, Swings(after))
               /\ \A f \in DOMAIN x \ Changeable(r) : y[f] = x[f]
    <3>1. y = [x EXCEPT !.swing = after]
      BY <2>1, <2>3, ObeysSwing
    <3>2. /\ y \in Status /\ y.setpoint = x.setpoint /\ y.swing = after
          /\ y.run = x.run /\ y.mode = x.mode /\ y.wind = x.wind
          /\ y.backLed = x.backLed /\ \A f \in DOMAIN x \ {"swing"} : y[f] = x[f]
      BY <1>1, <2>1, <3>1 DEF Status
    <3>3. /\ Matches(y, Swings(after)) /\ ModeShown(s, r, y)
          /\ Matches(x, Only(r, {"temperature"})) => Matches(y, Only(r, {"temperature"}))
      <4>1. Matches(y, Swings(after))
        BY <3>2, MatchesOne
      <4>2. ModeShown(s, r, y)
        BY <2>1, <3>2, MatchesOne DEF ModeShown
      <4>3. Matches(x, Only(r, {"temperature"})) => Matches(y, Only(r, {"temperature"}))
        BY <3>2, MatchesOne
      <4> QED
        BY <4>1, <4>2, <4>3
    <3>4. y \in Q
      BY <3>2, <3>3 DEF Stage
    <3> QED
      BY <3>2, <3>3, <3>4, MayChange
  <2>5. step.packet \in Packets
    BY <1>1, <2>3, PacketIs
  <2> QED
    BY <2>3, <2>4, <2>5
<1>3. ASSUME ~c PROVE P \subseteq Q
  <2>1. after = before
    BY <1>3 DEF Turned, Swing, Moves, Horizontal, Vertical
  <2> QED
    BY <2>1
<1>4. P \in SUBSET Status /\ Q \in SUBSET Status
  BY StageIsStatus
<1>5. c => Leads(r, P, step, Q)
  BY <1>2 DEF Leads
<1> HIDE DEF c, step, P, Q
<1>6. Outline(r, P, When(c, <<step>>), Q)
  BY <1>3, <1>4, <1>5, OutlineOne
<1> QED
  BY <1>6 DEF AxisSteps, c, step, P, Q

\* The swing that the unit is left with.
SwingSought(s, r) == IF Names(r, "swing") THEN r["swing"] ELSE s.swing

LEMMA SwingOutline ==
    ASSUME NEW s \in Status, NEW r \in Requests
    PROVE  Outline(r, Stage(4, s, r, s.swing), SwingSteps(s, r),
                   Stage(4, s, r, SwingSought(s, r)))
<1>1. CASE ~Names(r, "swing")
  BY <1>1, OutlineNone, StageIsStatus DEF SwingSteps, SwingSought
<1>2. CASE Names(r, "swing")
  <2> DEFINE wanted == r["swing"]
             first == FirstAxis(s.swing, wanted)
             second == Horizontal + Vertical - first
             halfway == Turned(s.swing, wanted, first)
  <2>1. s.swing \in Swing /\ wanted \in Swing
    BY <1>2, RequestIs DEF Status
  <2>2. /\ first \in {Horizontal, Vertical} /\ second \in {Horizontal, Vertical}
        /\ first # second
    BY DEF FirstAxis, Horizontal, Vertical
  <2>3. halfway \in Swing
    BY <2>1, <2>2, TurnedFacts
  <2>4. SwingSteps(s, r) = AxisSteps(s.swing, wanted, first) \o
                           AxisSteps(halfway, wanted, second)
    BY <1>2 DEF SwingSteps
  <2>5. Turned(halfway, wanted, second) = wanted
    <3> DEFINE last == Turned(halfway, wanted, second)
    <3>1. /\ last \in Swing /\ Moves(last, second) = Moves(wanted, second)
          /\ Moves(last, first) = Moves(halfway, first)
          /\ Moves(halfway, first) = Moves(wanted, first)
      BY <2>1, <2>2, <2>3, TurnedFacts
    <3>2. \A axis \in {Horizontal, Vertical} : Moves(last, axis) = Moves(wanted, axis)
      BY <2>2, <3>1
    <3> HIDE DEF last
    <3>3. last = wanted
      BY <2>1, <3>1, <3>2 DEF Swing, Moves, Horizontal, Vertical
    <3> QED
      BY <3>3 DEF last
  <2> HIDE DEF first, second, halfway, wanted
  <2>6. Outline(r, Stage(4, s, r, s.swing), AxisSteps(s.swing, wanted, first),
                Stage(4, s, r, halfway))
    BY <1>2, <2>1, <2>2, AxisOutline DEF halfway
  <2>7. Outline(r, Stage(4, s, r, halfway), AxisSteps(halfway, wanted, second),
                Stage(4, s, r, wanted))
    BY <1>2, <2>1, <2>2, <2>3, <2>5, AxisOutline
  <2>8. Outline(r, Stage(4, s, r, s.swing), SwingSteps(s, r), Stage(4, s, r, wanted))
    BY <2>4, <2>6, <2>7, OutlineConcat
  <2> QED
    BY <1>2, <2>8 DEF wanted, SwingSought
<1> QED
  BY <1>1, <1>2

LEMMA PresetOutline ==
    ASSUME NEW s \in Status, NEW r \in Requests, NEW w
    PROVE  Outline(r, Stage(4, s, r, w), PresetSteps(r), Stage(4, s, r, w))
<1> DEFINE P == Stage(4, s, r, w)
<1>1. CASE ~Names(r, "preset")
  BY <1>1, OutlineNone, StageIsStatus DEF PresetSteps
<1>2. CASE Names(r, "preset")
  <2> DEFINE a == Setter("preset", r["preset"], NoIntent, NoIntent)
             b == Setter("ecoOff", 0, NoIntent, NoIntent)
             c == r["preset"] = 0
  <2>1. ASSUME NEW x \in P
        PROVE  /\ x \in Status /\ ~Blocked(x, a) /\ ~Blocked(x, b)
               /\ a.packet = [setter |-> "preset", value |-> r["preset"]]
               /\ b.packet = [setter |-> "ecoOff", value |-> 0]
               /\ a.expected = NoIntent /\ b.expected = NoIntent
               /\ a.packet \in Packets /\ b.packet \in Packets
    <3>1. ~Names(NoIntent, "temperature") /\ Matches(x, NoIntent)
      BY MatchesOne DEF Names, NoIntent
    <3>2. /\ a.packet = [setter |-> "preset", value |-> r["preset"]]
          /\ b.packet = [setter |-> "ecoOff", value |-> 0]
          /\ r["preset"] \in Preset
      BY <1>2, RequestIs DEF Setter
    <3>3. a.packet \in Packets /\ b.packet \in Packets
      BY <3>2, PacketIs
    <3> QED
      BY <3>1, <3>3, NotBlocked DEF Stage
  <2> HIDE DEF a, b
  <2>2. ASSUME NEW x \in P, NEW y \in Obeying(x, a.packet)
        PROVE  /\ y \in P /\ Matches(y, NoIntent)
               /\ \A f \in DOMAIN x \ Changeable(r) : y[f] = x[f]
    <3>1. x \in Status /\ ModeShown(s, r, x)
      BY DEF Stage
    <3>2. y = [x EXCEPT !.wind = y.wind] /\ y.wind \in 0 .. 255
      BY <1>2, <2>1, <3>1, RequestIs, ObeysPreset
    <3>3. /\ y \in Status /\ y.setpoint = x.setpoint /\ y.swing = x.swing
          /\ y.run = x.run /\ y.mode = x.mode
          /\ y.backLed = x.backLed /\ \A f \in DOMAIN x \ {"wind"} : y[f] = x[f]
      BY <3>1, <3>2 DEF Status
    <3>4. /\ ModeShown(s, r, y)
          /\ Matches(x, Only(r, {"temperature"})) => Matches(y, Only(r, {"temperature"}))
      BY <3>1, <3>3, MatchesOne DEF ModeShown
    <3>5. y \in P
      BY <1>2, <3>3, <3>4 DEF Stage, FanStays
    <3> QED
      BY <1>2, <3>3, <3>5, MatchesOne, MayChange
  <2>3. ASSUME NEW x \in P, NEW y \in Obeying(x, b.packet)
        PROVE  y = x /\ Matches(y, NoIntent)
    BY <2>1, ObeysEcoOff, MatchesOne
  <2> HIDE DEF P
  <2>4. Leads(r, P, a, P) /\ Leads(r, P, b, P)
    BY <2>1, <2>2, <2>3 DEF Leads
  <2>5. P \in SUBSET Status
    BY <2>1
  <2> DEFINE first == When(TRUE, <<a>>)
             second == When(c, <<b>>)
  <2>6. Outline(r, P, first, P) /\ Outline(r, P, second, P)
    BY <2>4, <2>5, OutlineOne
  <2>7. PresetSteps(r) = first \o second
    BY <1>2 DEF PresetSteps, When, a, b
  <2> HIDE DEF first, second
  <2>8. Outline(r, P, PresetSteps(r), P)
    BY <2>6, <2>7, OutlineConcat
  <2> QED
    BY <2>8 DEF P
<1> QED
  BY <1>1, <1>2

LEMMA DisplayOutline ==
    ASSUME NEW s \in Status, NEW r \in Requests, NEW w
    PROVE  Outline(r, Stage(4, s, r, w), DisplaySteps(s, r), Stage(7, s, r, w))
<1> DEFINE c == Differs(s, r, "display")
           expected == Only(r, {"display"})
           step == Setter("display", r["display"], expected, NoIntent)
           P == Stage(4, s, r, w)
           Q == Stage(7, s, r, w)
<1>1. ASSUME c, NEW x \in P
      PROVE  /\ ~Blocked(x, step) /\ step.packet \in Packets
             /\ \A y \in Obeying(x, step.packet) :
                   /\ y \in Q /\ Matches(y, step.expected)
                   /\ \A f \in DOMAIN x \ Changeable(r) : y[f] = x[f]
  <2>1. x \in Status /\ ModeShown(s, r, x) /\ Names(r, "display") /\ r["display"] \in 0 .. 1
    BY <1>1, RequestIs DEF Stage, Differs
  <2>2. ~Names(expected, "temperature") /\ Matches(x, NoIntent)
    BY MatchesOne DEF Names, Only
  <2>3. /\ ~Blocked(x, step) /\ step.expected = expected
        /\ step.packet = [setter |-> "display", value |-> r["display"]]
    BY <2>2, NotBlocked
  <2>4. ASSUME NEW y \in Obeying(x, step.packet)
        PROVE  /\ y \in Q /\ Matches(y, expected)
               /\ \A f \in DOMAIN x \ Changeable(r) : y[f] = x[f]
    <3>1. y = [x EXCEPT !.backLed = r["display"]]
      BY <2>1, <2>3, ObeysDisplay
    <3>2. /\ y \in Status /\ y.setpoint = x.setpoint /\ y.wind = x.wind
          /\ y.run = x.run /\ y.mode = x.mode /\ y.swing = x.swing
          /\ y.backLed = r["display"] /\ \A f \in DOMAIN x \ {"backLed"} : y[f] = x[f]
      BY <2>1, <3>1 DEF Status
    <3>3. /\ Matches(y, expected) /\ ModeShown(s, r, y)
          /\ Matches(x, Only(r, {"temperature"})) => Matches(y, Only(r, {"temperature"}))
      <4>1. Matches(y, expected)
        BY <2>1, <3>1, <3>2, MatchesOne
      <4>2. ModeShown(s, r, y)
        BY <2>1, <3>2, MatchesOne DEF ModeShown
      <4>3. Matches(x, Only(r, {"temperature"})) => Matches(y, Only(r, {"temperature"}))
        BY <3>2, MatchesOne
      <4> QED
        BY <4>1, <4>2, <4>3
    <3>4. y \in Q
      BY <3>2, <3>3 DEF Stage
    <3> QED
      BY <2>1, <3>2, <3>3, <3>4, MayChange
  <2>5. step.packet \in Packets
    BY <2>1, <2>3, PacketIs
  <2> QED
    BY <2>3, <2>4, <2>5
<1>2. ASSUME ~c PROVE P \subseteq Q
  <2>1. ASSUME NEW x \in P PROVE Matches(x, expected)
    BY <1>2, MatchesOne DEF Stage, Differs
  <2> QED
    BY <2>1 DEF Stage
<1>3. P \in SUBSET Status /\ Q \in SUBSET Status
  BY StageIsStatus
<1>4. c => Leads(r, P, step, Q)
  BY <1>1 DEF Leads
<1> HIDE DEF c, step, P, Q
<1>5. Outline(r, P, When(c, <<step>>), Q)
  BY <1>2, <1>3, <1>4, OutlineOne
<1> QED
  BY <1>5 DEF DisplaySteps, c, step, P, Q

LEMMA BuiltOutline ==
    ASSUME NEW s \in Status, NEW r \in Requests,
           ~Names(r, "dryOffset"), ~RuledOut(s, r)
    PROVE  Outline(r, {s}, BuiltSteps(s, r), Stage(7, s, r, SwingSought(s, r)))
<1> DEFINE p1 == PowerSteps(s, r)
           p2 == ModeSteps(s, r)
           p3 == TemperatureSteps(s, r)
           p4 == FanSteps(s, r)
           p5 == SwingSteps(s, r)
           p6 == PresetSteps(r)
           p7 == DisplaySteps(s, r)
           w == SwingSought(s, r)
<1>1. Outline(r, {s}, p1, {Awake(s, r)})
  BY PowerOutline
<1>2. Outline(r, {Awake(s, r)}, p2, Stage(2, s, r, s.swing))
  BY ModeOutline
<1>3. Outline(r, Stage(2, s, r, s.swing), p3, Stage(3, s, r, s.swing))
  BY TemperatureOutline
<1>4. Outline(r, Stage(3, s, r, s.swing), p4, Stage(4, s, r, s.swing))
  BY FanOutline
<1>5. Outline(r, Stage(4, s, r, s.swing), p5, Stage(4, s, r, w))
  BY SwingOutline
<1>6. Outline(r, Stage(4, s, r, w), p6, Stage(4, s, r, w))
  BY PresetOutline
<1>7. Outline(r, Stage(4, s, r, w), p7, Stage(7, s, r, w))
  BY DisplayOutline
<1> HIDE DEF p1, p2, p3, p4, p5, p6, p7, w
<1>8. Outline(r, {s}, p1 \o p2, Stage(2, s, r, s.swing))
  BY <1>1, <1>2, OutlineConcat
<1>9. Outline(r, {s}, p1 \o p2 \o p3, Stage(3, s, r, s.swing))
  BY <1>3, <1>8, OutlineConcat
<1>10. Outline(r, {s}, p1 \o p2 \o p3 \o p4, Stage(4, s, r, s.swing))
  BY <1>4, <1>9, OutlineConcat
<1>11. Outline(r, {s}, p1 \o p2 \o p3 \o p4 \o p5, Stage(4, s, r, w))
  BY <1>5, <1>10, OutlineConcat
<1>12. Outline(r, {s}, p1 \o p2 \o p3 \o p4 \o p5 \o p6, Stage(4, s, r, w))
  BY <1>6, <1>11, OutlineConcat
<1>13. Outline(r, {s}, p1 \o p2 \o p3 \o p4 \o p5 \o p6 \o p7, Stage(7, s, r, w))
  BY <1>7, <1>12, OutlineConcat
<1> QED
  BY <1>13 DEF BuiltSteps, p1, p2, p3, p4, p5, p6, p7, w

-----------------------------------------------------------------------------
(* The fan speed that stays, and the goal of a plan.                       *)

NoFan(steps) == \A j \in DOMAIN steps : steps[j].packet.setter # "fan"

IsSteps(steps) == steps \in Seq(Range(steps))

LEMMA BroughtBefore ==
    ASSUME NEW s, NEW t, IsSteps(s), IsSteps(t), FanBrought(s), NoFan(t)
    PROVE  IsSteps(s \o t) /\ FanBrought(s \o t)
<1> DEFINE u == s \o t
           n == Len(s)
           m == Len(t)
<1>1. /\ u \in Seq(Range(u)) /\ DOMAIN u = 1 .. n + m /\ Len(u) = n + m
      /\ n \in Nat /\ m \in Nat /\ DOMAIN s = 1 .. n /\ DOMAIN t = 1 .. m
      /\ \A i \in 1 .. n + m : u[i] = IF i <= n THEN s[i] ELSE t[i - n]
  BY StepsConcat DEF IsSteps
<1> HIDE DEF u, n, m
<1>2. PICK i \in 1 .. n :
         /\ s[i].packet.setter \in {"mode", "preset"}
         /\ \A j \in i + 1 .. n : s[j].packet.setter # "fan"
  BY <1>1 DEF FanBrought, n
<1>3. i \in 1 .. n + m /\ u[i] = s[i]
  BY <1>1
<1>4. ASSUME NEW j \in i + 1 .. n + m
      PROVE  u[j].packet.setter # "fan"
  <2>1. CASE j <= n
    BY <1>1, <1>2, <2>1
  <2>2. CASE j > n
    <3>1. j - n \in 1 .. m /\ u[j] = t[j - n]
      BY <1>1, <2>2
    <3> QED
      BY <1>1, <3>1 DEF NoFan
  <2> QED
    BY <1>1, <2>1, <2>2
<1>5. FanBrought(u)
  BY <1>1, <1>2, <1>3, <1>4 DEF FanBrought
<1> QED
  BY <1>1, <1>5 DEF u, IsSteps

LEMMA BroughtAfter ==
    ASSUME NEW s, NEW t, IsSteps(s), IsSteps(t), FanBrought(t)
    PROVE  IsSteps(s \o t) /\ FanBrought(s \o t)
<1> DEFINE u == s \o t
           n == Len(s)
           m == Len(t)
<1>1. /\ u \in Seq(Range(u)) /\ DOMAIN u = 1 .. n + m /\ Len(u) = n + m
      /\ n \in Nat /\ m \in Nat /\ DOMAIN s = 1 .. n /\ DOMAIN t = 1 .. m
      /\ \A i \in 1 .. n + m : u[i] = IF i <= n THEN s[i] ELSE t[i - n]
  BY StepsConcat DEF IsSteps
<1> HIDE DEF u, n, m
<1>2. PICK i \in 1 .. m :
         /\ t[i].packet.setter \in {"mode", "preset"}
         /\ \A j \in i + 1 .. m : t[j].packet.setter # "fan"
  BY <1>1 DEF FanBrought, m
<1>3. n + i \in 1 .. n + m /\ u[n + i] = t[i]
  BY <1>1
<1>4. ASSUME NEW j \in n + i + 1 .. n + m
      PROVE  u[j].packet.setter # "fan"
  <2>1. j - n \in i + 1 .. m /\ u[j] = t[j - n]
    BY <1>1
  <2> QED
    BY <1>2, <2>1
<1>5. FanBrought(u)
  BY <1>1, <1>2, <1>3, <1>4 DEF FanBrought
<1> QED
  BY <1>1, <1>5 DEF u, IsSteps

LEMMA StepsOne ==
    ASSUME NEW c, NEW name, NEW value, NEW expected, NEW guard
    PROVE  LET steps == When(c, <<Setter(name, value, expected, guard)>>) IN
           /\ IsSteps(steps)
           /\ name # "fan" \/ ~c => NoFan(steps)
           /\ name \in {"mode", "preset"} /\ c => FanBrought(steps)
<1> DEFINE step == Setter(name, value, expected, guard)
           s == <<step>>
<1>1. s \in Seq(Range(s)) /\ Len(s) = 1 /\ s[1] = step /\ DOMAIN s = {1}
  BY DEF Range
<1>2. step.packet.setter = name
  BY DEF Setter
<1>3. <<>> \in Seq(Range(<<>>)) /\ DOMAIN <<>> = {}
  OBVIOUS
<1> HIDE DEF s, step
<1>4. /\ name # "fan" => NoFan(s)
      /\ name \in {"mode", "preset"} => FanBrought(s)
  BY <1>1, <1>2 DEF NoFan, FanBrought
<1>5. NoFan(<<>>)
  BY <1>3 DEF NoFan
<1> QED
  BY <1>1, <1>3, <1>4, <1>5 DEF When, IsSteps, s, step

LEMMA NoFanConcat ==
    ASSUME NEW s, NEW t, IsSteps(s), IsSteps(t)
    PROVE  IsSteps(s \o t) /\ (NoFan(s) /\ NoFan(t) => NoFan(s \o t))
<1> DEFINE u == s \o t
           n == Len(s)
           m == Len(t)
<1>1. /\ u \in Seq(Range(u)) /\ DOMAIN u = 1 .. n + m
      /\ n \in Nat /\ m \in Nat /\ DOMAIN s = 1 .. n /\ DOMAIN t = 1 .. m
      /\ \A i \in 1 .. n + m : u[i] = IF i <= n THEN s[i] ELSE t[i - n]
  BY StepsConcat DEF IsSteps
<1> HIDE DEF u, n, m
<1>2. ASSUME NoFan(s), NoFan(t), NEW j \in 1 .. n + m
      PROVE  u[j].packet.setter # "fan"
  <2>1. CASE j <= n
    BY <1>1, <1>2, <2>1 DEF NoFan
  <2>2. CASE j > n
    <3>1. j - n \in 1 .. m /\ u[j] = t[j - n]
      BY <1>1, <2>2
    <3> QED
      BY <1>1, <1>2, <3>1 DEF NoFan
  <2> QED
    BY <1>1, <2>1, <2>2
<1> QED
  BY <1>1, <1>2 DEF NoFan, IsSteps, u

LEMMA SwingSpares ==
    ASSUME NEW s, NEW r
    PROVE  IsSteps(SwingSteps(s, r)) /\ NoFan(SwingSteps(s, r))
<1>1. \A before, wanted, axis : /\ IsSteps(AxisSteps(before, wanted, axis))
                                /\ NoFan(AxisSteps(before, wanted, axis))
  BY StepsOne DEF AxisSteps
<1>2. IsSteps(<<>>) /\ NoFan(<<>>)
  BY DEF IsSteps, NoFan, Range
<1> QED
  BY <1>1, <1>2, NoFanConcat DEF SwingSteps

LEMMA PresetBrings ==
    ASSUME NEW r
    PROVE  /\ IsSteps(PresetSteps(r)) /\ NoFan(PresetSteps(r))
           /\ Names(r, "preset") => FanBrought(PresetSteps(r))
<1>1. CASE ~Names(r, "preset")
  BY <1>1 DEF PresetSteps, IsSteps, NoFan, Range
<1>2. CASE Names(r, "preset")
  <2> DEFINE a == When(TRUE, <<Setter("preset", r["preset"], NoIntent, NoIntent)>>)
             b == When(r["preset"] = 0, <<Setter("ecoOff", 0, NoIntent, NoIntent)>>)
  <2>1. PresetSteps(r) = a \o b
    BY <1>2 DEF PresetSteps, When
  <2>2. IsSteps(a) /\ NoFan(a) /\ FanBrought(a)
    BY StepsOne
  <2>3. IsSteps(b) /\ NoFan(b)
    BY StepsOne
  <2> HIDE DEF a, b
  <2> QED
    BY <2>1, <2>2, <2>3, BroughtBefore, NoFanConcat
<1> QED
  BY <1>1, <1>2

\* A fan speed that does not stay is one that a packet brings along.
LEMMA FanLost ==
    ASSUME NEW s, NEW r, Names(r, "fan"), ~FanStays(s, r)
    PROVE  FanBrought(BuiltSteps(s, r))
<1> DEFINE p1 == PowerSteps(s, r)
           p2 == ModeSteps(s, r)
           p3 == TemperatureSteps(s, r)
           p4 == FanSteps(s, r)
           p5 == SwingSteps(s, r)
           p6 == PresetSteps(r)
           p7 == DisplaySteps(s, r)
<1>1. IsSteps(p1) /\ IsSteps(p2) /\ (Differs(s, r, "mode") => FanBrought(p2))
  BY StepsOne DEF PowerSteps, ModeSteps
<1>2. IsSteps(p3) /\ NoFan(p3)
  BY StepsOne DEF TemperatureSteps
<1>3. IsSteps(p4) /\ (~Differs(s, r, "fan") => NoFan(p4))
  BY StepsOne DEF FanSteps
<1>4. IsSteps(p5) /\ NoFan(p5)
  BY SwingSpares
<1>5. IsSteps(p6) /\ NoFan(p6) /\ (Names(r, "preset") => FanBrought(p6))
  BY PresetBrings
<1>6. IsSteps(p7) /\ NoFan(p7)
  BY StepsOne DEF DisplaySteps
<1> HIDE DEF p1, p2, p3, p4, p5, p6, p7
<1>7. /\ IsSteps(p1 \o p2) /\ IsSteps(p1 \o p2 \o p3) /\ IsSteps(p1 \o p2 \o p3 \o p4)
      /\ IsSteps(p1 \o p2 \o p3 \o p4 \o p5)
  BY <1>1, <1>2, <1>3, <1>4, NoFanConcat
<1>8. CASE Names(r, "preset")
  <2>1. FanBrought(p1 \o p2 \o p3 \o p4 \o p5 \o p6)
        /\ IsSteps(p1 \o p2 \o p3 \o p4 \o p5 \o p6)
    BY <1>5, <1>7, <1>8, BroughtAfter
  <2>2. FanBrought(p1 \o p2 \o p3 \o p4 \o p5 \o p6 \o p7)
    BY <1>6, <2>1, BroughtBefore
  <2> QED
    BY <2>2 DEF BuiltSteps, p1, p2, p3, p4, p5, p6, p7
<1>9. CASE ~Names(r, "preset")
  <2>1. Differs(s, r, "mode") /\ ~Differs(s, r, "fan")
    BY <1>9 DEF FanStays
  <2>2. FanBrought(p1 \o p2)
    BY <1>1, <2>1, BroughtAfter
  <2>3. FanBrought(p1 \o p2 \o p3)
    BY <1>2, <1>7, <2>2, BroughtBefore
  <2>4. FanBrought(p1 \o p2 \o p3 \o p4)
    BY <1>3, <1>7, <2>1, <2>3, BroughtBefore
  <2>5. FanBrought(p1 \o p2 \o p3 \o p4 \o p5)
    BY <1>4, <1>7, <2>4, BroughtBefore
  <2>6. FanBrought(p1 \o p2 \o p3 \o p4 \o p5 \o p6)
        /\ IsSteps(p1 \o p2 \o p3 \o p4 \o p5 \o p6)
    BY <1>5, <1>7, <2>5, BroughtBefore
  <2>7. FanBrought(p1 \o p2 \o p3 \o p4 \o p5 \o p6 \o p7)
    BY <1>6, <2>6, BroughtBefore
  <2> QED
    BY <2>7 DEF BuiltSteps, p1, p2, p3, p4, p5, p6, p7
<1> QED
  BY <1>8, <1>9

\* What the unit is to show when all of a plan is carried out.
Goal(r, steps) ==
    {u \in Status :
       Matches(u, Only(Final(r), IF FanBrought(steps) THEN Field \ {"fan"} ELSE Field))}

LEMMA GoalOfBuilt ==
    ASSUME NEW s \in Status, NEW r \in Requests, ~Names(r, "dryOffset")
    PROVE  Stage(7, s, r, SwingSought(s, r)) \subseteq Goal(r, BuiltSteps(s, r))
<1> DEFINE F == IF FanBrought(BuiltSteps(s, r)) THEN Field \ {"fan"} ELSE Field
           g == Only(Final(r), F)
<1> SUFFICES ASSUME NEW u \in Stage(7, s, r, SwingSought(s, r))
             PROVE  Matches(u, g)
  BY DEF Goal, Stage
<1>1. /\ Matches(u, ModeGuard(r)) /\ Matches(u, Only(r, {"temperature"}))
      /\ FanStays(s, r) => NormalFan(u.wind) = r["fan"]
      /\ u.swing = SwingSought(s, r) /\ Matches(u, Only(r, {"display"}))
  BY DEF Stage, ModeShown
<1>2. /\ DOMAIN g = (DOMAIN r \cap (Field \ {"preset"})) \cap F
      /\ \A f \in DOMAIN g : g[f] = r[f]
  BY DEF Only, Final
<1>3. "fan" \in F /\ Names(r, "fan") => FanStays(s, r)
  BY FanLost
<1>4. ~Names(r, "power") /\ ~Names(r, "dryOffset")
  BY RequestIs
<1> HIDE DEF g, F
<1>5. \A f \in DOMAIN g : f \in DOMAIN r /\ f # "preset" /\ f \in F
  BY <1>2
<1> QED
  BY <1>1, <1>2, <1>3, <1>4, <1>5, MatchesOne DEF Matches, Names, SwingSought

LEMMA DryOffsetOutline ==
    ASSUME NEW s \in Status, NEW r \in Requests,
           Names(r, "dryOffset"), ~RuledOut(s, r)
    PROVE  Outline(r, {s}, DryOffsetSteps(s, r), {u \in Status : Matches(u, r)})
<1> DEFINE c == ~Matches(s, r)
           guard == [f \in {"dryOffset"} |-> OffsetOf(s.compensation)]
           step == Setter("dryOffset", Nibble(r["dryOffset"]), r, guard)
           Q == {u \in Status : Matches(u, r)}
<1>1. DOMAIN r = {"dryOffset"} /\ r["dryOffset"] \in Offset
  BY RequestIs
<1>2. Drying(s) /\ s.compensation # 8 /\ s.compensation \in 0 .. 15
  BY DEF RuledOut, UnknownNibble, Status
<1>3. Matches(s, guard)
  <2>1. DOMAIN guard = {"dryOffset"} /\ guard["dryOffset"] = OffsetOf(s.compensation)
    OBVIOUS
  <2>2. Nibble(OffsetOf(s.compensation)) = s.compensation
    BY <1>2 DEF Nibble, OffsetOf
  <2> HIDE DEF guard
  <2> QED
    BY <1>2, <2>1, <2>2 DEF Matches, Names
<1>4. /\ ~Blocked(s, step) /\ step.expected = r
      /\ step.packet = [setter |-> "dryOffset", value |-> Nibble(r["dryOffset"])]
  BY <1>1, <1>3, NotBlocked DEF Names
<1>5. step.packet \in Packets
  BY <1>1, <1>4, PacketIs
<1>6. ASSUME NEW y \in Obeying(s, step.packet)
      PROVE  /\ y \in Q /\ Matches(y, r)
             /\ \A f \in DOMAIN s \ Changeable(r) : y[f] = s[f]
  <2>1. y = [s EXCEPT !.compensation = Nibble(r["dryOffset"])]
    BY <1>1, <1>4, ObeysDryOffset
  <2>2. Nibble(r["dryOffset"]) \in 0 .. 15
    BY <1>1 DEF Nibble, Offset
  <2>3. /\ y \in Status /\ y.compensation = Nibble(r["dryOffset"])
        /\ y.run = s.run /\ y.mode = s.mode
        /\ \A f \in DOMAIN s \ {"compensation"} : y[f] = s[f]
    BY <2>1, <2>2 DEF Status
  <2>4. Matches(y, r)
    BY <1>1, <1>2, <2>3 DEF Matches, Names, Drying
  <2> QED
    BY <2>3, <2>4, MayChange
<1>7. ~c => {s} \subseteq Q
  OBVIOUS
<1>8. {s} \in SUBSET Status /\ Q \in SUBSET Status
  OBVIOUS
<1> HIDE DEF step, guard, Q
<1>9. c => Leads(r, {s}, step, Q)
  BY <1>4, <1>5, <1>6 DEF Leads
<1> HIDE DEF c
<1>10. Outline(r, {s}, When(c, <<step>>), Q)
  BY <1>7, <1>8, <1>9, OutlineOne
<1> QED
  BY <1>10 DEF DryOffsetSteps, c, step, guard, Q

LEMMA OutlineWider ==
    ASSUME NEW r, NEW P, NEW steps, NEW Q, NEW R, Outline(r, P, steps, Q), Q \subseteq R
    PROVE  Outline(r, P, steps, R)
<1>1. PICK S : Outlines(r, P, steps, Q, S)
  BY DEF Outline
<1>2. Outlines(r, P, steps, R, S)
  BY <1>1 DEF Outlines
<1> QED
  BY <1>2 DEF Outline

\* Every plan that its baseline does not rule out leads from there to the goal.
LEMMA PlanOutline ==
    ASSUME NEW s \in Status, NEW r \in Requests, ~RuledOut(s, r)
    PROVE  Outline(r, {s}, Plan(s, r), Goal(r, Plan(s, r)))
<1>1. CASE Names(r, "dryOffset")
  <2> DEFINE F == IF FanBrought(Plan(s, r)) THEN Field \ {"fan"} ELSE Field
  <2>1. DOMAIN r = {"dryOffset"}
    BY <1>1, RequestIs
  <2>2. "dryOffset" \in F /\ "dryOffset" \in Field \ {"preset"}
    BY DEF Field
  <2> HIDE DEF F
  <2>3. /\ DOMAIN Only(Final(r), F) = {"dryOffset"}
        /\ Only(Final(r), F)["dryOffset"] = r["dryOffset"]
    BY <2>1, <2>2 DEF Only, Final
  <2>4. ASSUME NEW u \in Status, Matches(u, r) PROVE Matches(u, Only(Final(r), F))
    BY <2>1, <2>3, <2>4 DEF Matches, Names
  <2>5. {u \in Status : Matches(u, r)} \subseteq Goal(r, Plan(s, r))
    BY <2>4 DEF Goal, F
  <2>6. Outline(r, {s}, DryOffsetSteps(s, r), {u \in Status : Matches(u, r)})
    BY <1>1, DryOffsetOutline
  <2> QED
    BY <1>1, <2>5, <2>6, OutlineWider DEF Plan
<1>2. CASE ~Names(r, "dryOffset")
  BY <1>2, BuiltOutline, GoalOfBuilt, OutlineWider DEF Plan
<1> QED
  BY <1>1, <1>2

-----------------------------------------------------------------------------
(* The walk along the outline of its plan.                                 *)

\* The unit is where the outline of its plan has it.
Underway ==
    /\ request \in Requests
    /\ \E s \in Baselines : plan = Plan(s, request)
    /\ at \in 0 .. Len(plan) /\ unit \in Status
    /\ at > 0 => Matches(unit, plan[at].expected)
    /\ plan \in Seq(Range(plan))
    /\ \E P, S : Outlines(request, P, plan, Goal(request, plan), S) /\ unit \in S[at]

LEMMA StepUnderway ==
    ASSUME Underway, Apply
    PROVE  /\ Underway'
           /\ \A f \in DOMAIN unit \ Changeable(request) : unit'[f] = unit[f]
<1>1. /\ at < Len(plan) /\ at' = at + 1 /\ plan' = plan /\ request' = request
      /\ unit' \in Obeying(unit, plan[at + 1].packet)
  BY DEF Apply
<1>2. PICK P, S : /\ Outlines(request, P, plan, Goal(request, plan), S)
                  /\ unit \in S[at]
  BY DEF Underway
<1>3. Len(plan) \in Nat /\ at \in Nat /\ at + 1 \in 1 .. Len(plan)
  BY <1>1, LenProperties DEF Underway
<1>4. Leads(request, S[at], plan[at + 1], S[at + 1])
  <2>1. (at + 1) - 1 = at
    BY <1>3
  <2>2. Leads(request, S[(at + 1) - 1], plan[at + 1], S[at + 1])
    BY <1>2, <1>3 DEF Outlines
  <2> QED
    BY <2>1, <2>2
<1>5. /\ unit' \in S[at + 1] /\ Matches(unit', plan[at + 1].expected)
      /\ \A f \in DOMAIN unit \ Changeable(request) : unit'[f] = unit[f]
  BY <1>1, <1>2, <1>4 DEF Leads
<1>6. unit' \in Status
  BY <1>2, <1>3, <1>5 DEF Outlines
<1>7. \E W, T : Outlines(request, W, plan, Goal(request, plan), T) /\ unit' \in T[at + 1]
  BY <1>2, <1>5
<1> QED
  BY <1>1, <1>3, <1>5, <1>6, <1>7 DEF Underway

LEMMA StartUnderway ==
    ASSUME WalkInit PROVE Underway
<1>1. /\ request \in Requests /\ unit \in Baselines /\ ~RuledOut(unit, request)
      /\ plan = Plan(unit, request) /\ at = 0
  BY DEF WalkInit
<1>2. unit \in Status
  BY <1>1, WalkAssumption
<1>3. Outline(request, {unit}, plan, Goal(request, plan))
  BY <1>1, <1>2, PlanOutline
<1>4. PICK S : Outlines(request, {unit}, plan, Goal(request, plan), S)
  BY <1>3 DEF Outline
<1>5. unit \in S[at]
  BY <1>1, <1>4 DEF Outlines
<1>6. plan \in Seq(Range(plan)) /\ Len(plan) \in Nat
  BY <1>3, LenProperties DEF Outline
<1>7. \E P, T : Outlines(request, P, plan, Goal(request, plan), T) /\ unit \in T[at]
  BY <1>4, <1>5
<1> QED
  BY <1>1, <1>2, <1>6, <1>7 DEF Underway

LEMMA AlwaysUnderway == WalkSpec => []Underway
<1>1. Underway /\ UNCHANGED walkVars => Underway'
  BY DEF Underway, walkVars
<1> QED
  BY <1>1, StartUnderway, StepUnderway, PTL DEF WalkSpec

\* Engine::receive sends the steps of a plan in turn: on a unit that obeys none
\* of them is blocked by its guard, for every request that enqueue takes and
\* every baseline that does not rule it out, and each shows what it is to
\* achieve.  The setpoint of an operation that also says Off is excepted.
THEOREM PlansFlow == WalkSpec => []PlanFlows
<1>1. Underway => PlanFlows
  <2> SUFFICES ASSUME Underway PROVE PlanFlows
    OBVIOUS
  <2>1. ASSUME at < Len(plan)
        PROVE  ~Blocked(unit, plan[at + 1]) \/ OffInDry(unit, request)
    <3>1. PICK P, S : /\ Outlines(request, P, plan, Goal(request, plan), S)
                      /\ unit \in S[at]
      BY DEF Underway
    <3>2. at \in Nat /\ at + 1 \in 1 .. Len(plan) /\ (at + 1) - 1 = at
      BY <2>1, LenProperties DEF Underway
    <3>3. Leads(request, S[(at + 1) - 1], plan[at + 1], S[at + 1])
      BY <3>1, <3>2 DEF Outlines
    <3> QED
      BY <3>1, <3>2, <3>3 DEF Leads
  <2> QED
    BY <2>1 DEF PlanFlows, Underway
<1> QED
  BY <1>1, AlwaysUnderway, PTL

\* The purpose of build_steps_: a unit that obeys the plan shows the request at
\* its end, whatever the mode and preset packets bring along on the way.
THEOREM PlansReachGoals == WalkSpec => []PlanReachesGoal
<1>1. Underway => PlanReachesGoal
  <2> SUFFICES ASSUME Underway, at = Len(plan)
               PROVE  unit \in Goal(request, plan)
    BY DEF PlanReachesGoal, Goal
  <2> QED
    BY DEF Underway, Outlines
<1> QED
  BY <1>1, AlwaysUnderway, PTL

\* "Only the selected axis's desired value changes", "these offset-only writes
\* preserved raw fan and mode/run": nothing the request does not name changes.
THEOREM OnlyTheNamedChanges == WalkSpec => NothingElseChanges
<1>1. Underway /\ [Apply]_walkVars =>
         [\A f \in DOMAIN unit \ UNION {Touches[g] : g \in DOMAIN request} :
             unit'[f] = unit[f]]_walkVars
  BY StepUnderway DEF Changeable
<1> QED
  BY <1>1, AlwaysUnderway, PTL DEF WalkSpec, NothingElseChanges

-----------------------------------------------------------------------------
(* What a unit answers, and what is read of it.                            *)

BodySize == StatusFrameSize - 6

Joined(T, s, t, w) ==
    /\ w \in Seq(T) /\ Len(w) = Len(s) + Len(t) /\ Len(s) \in Nat /\ Len(t) \in Nat
    /\ \A i \in 1 .. Len(s) : w[i] = s[i]
    /\ \A i \in 1 .. Len(t) : w[Len(s) + i] = t[i]

LEMMA JoinedForm ==
    ASSUME NEW T, NEW s \in Seq(T), NEW t \in Seq(T)
    PROVE  Joined(T, s, t, s \o t)
<1>1. /\ s \o t \in Seq(T) /\ Len(s \o t) = Len(s) + Len(t)
      /\ Len(s) \in Nat /\ Len(t) \in Nat
  BY ConcatProperties, LenProperties
<1>2. \A i \in 1 .. Len(s) : (s \o t)[i] = s[i]
  BY <1>1, ConcatProperties
<1>3. \A i \in 1 .. Len(t) : (s \o t)[Len(s) + i] = t[i]
  BY <1>1, ConcatProperties
<1> QED
  BY <1>1, <1>2, <1>3 DEF Joined

LEMMA PartForm ==
    ASSUME NEW T, NEW s, s \in Seq(T), NEW m \in 1 .. Len(s), NEW n \in 1 .. Len(s),
           m <= n, NEW t, t \in Seq(T), Len(t) = n - m + 1,
           \A i \in 1 .. n - m + 1 : s[m + i - 1] = t[i]
    PROVE  SubSeq(s, m, n) = t
<1>1. /\ SubSeq(s, m, n) \in Seq(T) /\ Len(SubSeq(s, m, n)) = n - m + 1
  BY LenProperties, SubSeqProperties
<1>2. \A i \in 1 .. n - m + 1 : SubSeq(s, m, n)[i] = s[m + i - 1]
  BY LenProperties, SubSeqProperties
<1> QED
  BY <1>1, <1>2, SeqEqual

\* The frame of an answer's body, whatever the two bytes of its checksum are.
LEMMA FrameOfAnswer ==
    ASSUME NEW b, b \in Seq(Int), Len(b) = BodySize,
           b[3] = StatusFrameSize - EnvelopeSize
    PROVE  /\ Len(Frame(b)) = StatusFrameSize /\ ValidFrame(Frame(b))
           /\ \A o \in 2 .. StatusFrameSize - 5 : Byte(Frame(b), o) = b[o - 1]
<1> DEFINE c == Checksum(b)
           T == Int \cup {c[1], c[2]}
           hb == Header \o b
           hc == hb \o c
           f == hc \o Footer
<1>1. c \in Seq(T) /\ Len(c) = 2
  <2>1. PICK x, y : c = <<x, y>>
    BY DEF Checksum, Bytes16
  <2>2. <<x, y>> \in Seq({x, y} \cup Int) /\ Len(<<x, y>>) = 2
    OBVIOUS
  <2>3. c[1] = x /\ c[2] = y
    BY <2>1
  <2> HIDE DEF c
  <2>4. T = {x, y} \cup Int
    BY <2>3
  <2> HIDE DEF T
  <2> QED
    BY <2>1, <2>2, <2>4
<1>2. Frame(b) = f
  BY DEF Frame
<1>3. Int \subseteq T
  OBVIOUS
<1> HIDE DEF c, T
<1>4. /\ Header \in Seq(T) /\ Len(Header) = 2 /\ Footer \in Seq(T) /\ Len(Footer) = 2
  <2>1. /\ Header \in Seq(Int) /\ Len(Header) = 2
        /\ Footer \in Seq(Int) /\ Len(Footer) = 2
    BY DEF Header, Footer, Marker, HeaderEnd, FooterEnd
  <2>2. Seq(Int) \subseteq Seq(T)
    BY <1>3
  <2> QED
    BY <2>1, <2>2
<1>5. b \in Seq(T) /\ Len(b) = 76 /\ b[3] = 73
  <2>1. Seq(Int) \subseteq Seq(T)
    BY <1>3
  <2> QED
    BY <2>1 DEF BodySize, StatusFrameSize, EnvelopeSize
<1>6. /\ hb \in Seq(T) /\ Len(hb) = 78 /\ \A i \in 1 .. 76 : hb[2 + i] = b[i]
  <2>1. Joined(T, Header, b, hb)
    BY <1>4, <1>5, JoinedForm
  <2> HIDE DEF hb
  <2> QED
    BY <1>4, <1>5, <2>1 DEF Joined
<1> HIDE DEF hb
<1>7. /\ hc \in Seq(T) /\ Len(hc) = 80 /\ \A i \in 1 .. 78 : hc[i] = hb[i]
      /\ \A i \in 1 .. 2 : hc[78 + i] = c[i]
  <2>1. Joined(T, hb, c, hc)
    BY <1>1, <1>6, JoinedForm
  <2> HIDE DEF hc
  <2> QED
    BY <1>1, <1>6, <2>1 DEF Joined
<1> HIDE DEF hc
<1>8. f \in Seq(T) /\ Len(f) = 82 /\ \A i \in 1 .. 80 : f[i] = hc[i]
  <2>1. Joined(T, hc, Footer, f)
    BY <1>4, <1>7, JoinedForm
  <2> HIDE DEF f
  <2> QED
    BY <1>4, <1>7, <2>1 DEF Joined
<1> HIDE DEF f
<1>9. (\A i \in 1 .. 76 : f[2 + i] = b[i]) /\ (\A i \in 1 .. 2 : f[78 + i] = c[i])
  <2>1. \A i \in 1 .. 76 : 2 + i \in 1 .. 78 /\ 2 + i \in 1 .. 80
    OBVIOUS
  <2>2. \A i \in 1 .. 2 : 78 + i \in 1 .. 80
    OBVIOUS
  <2> QED
    BY <1>6, <1>7, <1>8, <2>1, <2>2
<1>10. SubSeq(f, 3, 78) = b
  <2>1. 3 \in 1 .. Len(f) /\ 78 \in 1 .. Len(f) /\ Len(b) = 78 - 3 + 1
    BY <1>5, <1>8
  <2>2. \A i \in 1 .. 78 - 3 + 1 : i \in 1 .. 76 /\ 3 + i - 1 = 2 + i
    OBVIOUS
  <2>3. \A i \in 1 .. 78 - 3 + 1 : f[3 + i - 1] = b[i]
    BY <1>9, <2>2
  <2> QED
    BY <1>5, <1>8, <2>1, <2>3, PartForm
<1>11. SubSeq(f, 79, 80) = c
  <2>1. 79 \in 1 .. Len(f) /\ 80 \in 1 .. Len(f) /\ Len(c) = 80 - 79 + 1
    BY <1>1, <1>8
  <2>2. \A i \in 1 .. 80 - 79 + 1 : i \in 1 .. 2 /\ 79 + i - 1 = 78 + i
    OBVIOUS
  <2>3. \A i \in 1 .. 80 - 79 + 1 : f[79 + i - 1] = c[i]
    BY <1>9, <2>2
  <2> QED
    BY <1>1, <1>8, <2>1, <2>3, PartForm
<1>12. ValidFrame(f)
  <2>1. Len(f) \in EnvelopeSize .. MaxFrameSize
    BY <1>8, WalkAssumption, FrameAssumption DEF EnvelopeSize, StatusFrameSize
  <2>2. f[5] + EnvelopeSize = Len(f)
    <3>1. 3 \in 1 .. 76 /\ 2 + 3 = 5
      OBVIOUS
    <3> QED
      BY <1>5, <1>8, <1>9, <3>1 DEF EnvelopeSize
  <2>3. Len(f) - 3 = 79 /\ Len(f) - 2 = 80 /\ Len(f) - 4 = 78
    BY <1>8
  <2> QED
    BY <1>10, <1>11, <2>1, <2>2, <2>3 DEF ValidFrame, c
<1>13. \A o \in 2 .. 77 : f[o + 1] = b[o - 1]
  <2>1. \A o \in 2 .. 77 : o - 1 \in 1 .. 76 /\ 2 + (o - 1) = o + 1
    OBVIOUS
  <2> QED
    BY <1>9, <2>1
<1> QED
  BY <1>2, <1>8, <1>12, <1>13 DEF Byte, StatusFrameSize

LEMMA AnswerBytes ==
    ASSUME NEW s \in Status, NEW class \in Int, NEW idle \in 0 .. 1
    PROVE  LET f == Answer(s, class, idle)
           IN  /\ Len(f) = StatusFrameSize /\ ValidFrame(f)
               /\ Byte(f, ClassOffset) = class
               /\ Byte(f, 16) = s.wind
               /\ Byte(f, 18) = s.mode * 16 + s.run * 4 + idle * 3
               /\ Byte(f, 19) = s.setpoint
               /\ Byte(f, 26) = s.compensation * 16 + idle * 15
               /\ Byte(f, 35) = Moves(s.swing, Vertical) * 128
                                  + Moves(s.swing, Horizontal) * 64 + idle * 63
               /\ Byte(f, 37) = s.backLed * 128 + idle * 127
<1> DEFINE h == Moves(s.swing, Horizontal)
           v == Moves(s.swing, Vertical)
           b18 == s.mode * 16 + s.run * 4 + idle * 3
           b26 == s.compensation * 16 + idle * 15
           b35 == v * 128 + h * 64 + idle * 63
           b37 == s.backLed * 128 + idle * 127
           rest == [o \in 2 .. 77 |-> idle * 255]
           bytes == [rest EXCEPT ![2] = 1, ![3] = 64, ![4] = 73, ![13] = class,
                        ![16] = s.wind, ![18] = b18, ![19] = s.setpoint,
                        ![26] = b26, ![35] = b35, ![37] = b37]
           b == [i \in 1 .. 76 |-> bytes[i + 1]]
<1>1. h \in Int /\ v \in Int
  BY StatusIs DEF Moves, Swing, Horizontal, Vertical
<1>2. /\ s.wind \in Int /\ s.setpoint \in Int
      /\ b18 \in Int /\ b26 \in Int /\ b35 \in Int /\ b37 \in Int
  BY <1>1, StatusIs
<1>3. rest \in [2 .. 77 -> Int]
  OBVIOUS
<1>4. Answer(s, class, idle) = Frame(b)
  BY DEF Answer, StatusFrameSize, EnvelopeSize, Response, Control, ClassOffset
<1> HIDE DEF b18, b26, b35, b37, rest
<1>5. /\ bytes \in [2 .. 77 -> Int] /\ bytes[4] = 73 /\ bytes[13] = class
      /\ bytes[16] = s.wind /\ bytes[18] = b18 /\ bytes[19] = s.setpoint
      /\ bytes[26] = b26 /\ bytes[35] = b35 /\ bytes[37] = b37
  BY <1>2, <1>3
<1> HIDE DEF bytes
<1>6. /\ b \in Seq(Int) /\ Len(b) = 76
      /\ \A o \in 2 .. 77 : b[o - 1] = bytes[o]
  <2>1. b \in [1 .. 76 -> Int]
    BY <1>5
  <2>2. b \in Seq(Int) /\ Len(b) = 76
    BY <2>1, LenProperties
  <2>3. \A o \in 2 .. 77 : o - 1 \in 1 .. 76 /\ (o - 1) + 1 = o
    OBVIOUS
  <2> QED
    BY <2>2, <2>3
<1> HIDE DEF b
<1>7. b[3] = 73
  <2>1. 4 \in 2 .. 77 /\ 4 - 1 = 3
    OBVIOUS
  <2> QED
    BY <1>5, <1>6, <2>1
<1>8. /\ Len(Frame(b)) = 82 /\ ValidFrame(Frame(b))
      /\ \A o \in 2 .. 77 : Byte(Frame(b), o) = b[o - 1]
  <2>1. BodySize = 76 /\ StatusFrameSize = 82 /\ EnvelopeSize = 9
    BY DEF BodySize, StatusFrameSize, EnvelopeSize
  <2>2. b \in Seq(Int) /\ Len(b) = BodySize /\ b[3] = StatusFrameSize - EnvelopeSize
    BY <1>6, <1>7, <2>1
  <2>3. /\ Len(Frame(b)) = StatusFrameSize /\ ValidFrame(Frame(b))
        /\ \A o \in 2 .. StatusFrameSize - 5 : Byte(Frame(b), o) = b[o - 1]
    BY <2>2, FrameOfAnswer
  <2>4. StatusFrameSize - 5 = 77
    BY <2>1
  <2> QED
    BY <2>1, <2>3, <2>4
<1>9. \A o \in {13, 16, 18, 19, 26, 35, 37} : Byte(Frame(b), o) = bytes[o]
  <2>1. \A o \in {13, 16, 18, 19, 26, 35, 37} : o \in 2 .. 77
    OBVIOUS
  <2>2. ASSUME NEW o \in {13, 16, 18, 19, 26, 35, 37}
        PROVE  Byte(Frame(b), o) = bytes[o]
    <3>1. o \in 2 .. 77
      BY <2>1, <2>2
    <3>2. Byte(Frame(b), o) = b[o - 1]
      BY <1>8, <3>1
    <3>3. b[o - 1] = bytes[o]
      BY <1>6, <3>1
    <3> QED
      BY <3>2, <3>3
  <2> QED
    BY <2>2
<1>10. /\ Len(Frame(b)) = StatusFrameSize /\ Byte(Frame(b), ClassOffset) = class
       /\ Byte(Frame(b), 16) = s.wind /\ Byte(Frame(b), 18) = b18
       /\ Byte(Frame(b), 19) = s.setpoint /\ Byte(Frame(b), 26) = b26
       /\ Byte(Frame(b), 35) = b35 /\ Byte(Frame(b), 37) = b37
  BY <1>5, <1>8, <1>9 DEF StatusFrameSize, ClassOffset
<1>11. ValidFrame(Frame(b))
  BY <1>8
<1> HIDE DEF h, v
<1> QED
  BY <1>4, <1>10, <1>11 DEF b18, b26, b35, b37, h, v

\* The bits of the bytes, taken apart again.
LEMMA BitsReadBack ==
    ASSUME NEW idle \in 0 .. 1
    PROVE  /\ \A m \in 0 .. 15, n \in 0 .. 3 :
                 /\ ((m * 16 + n * 4 + idle * 3) \div 4) % 4 = n
                 /\ (m * 16 + n * 4 + idle * 3) \div 16 = m
           /\ \A n \in 0 .. 15 : (n * 16 + idle * 15) \div 16 = n
           /\ \A v, h \in 0 .. 1 :
                 /\ ((v * 128 + h * 64 + idle * 63) \div 64) % 2 = h
                 /\ ((v * 128 + h * 64 + idle * 63) \div 128) % 2 = v
           /\ \A n \in 0 .. 1 : ((n * 128 + idle * 127) \div 128) % 2 = n
<1>1. CASE idle = 0
  BY <1>1
<1>2. CASE idle = 1
  BY <1>2
<1> QED
  BY <1>1, <1>2

LEMMA ReadsBack ==
    ASSUME NEW s \in Status, NEW idle \in 0 .. 1
    PROVE  /\ Decoded(Answer(s, StatusClass, idle), NoStatus) = s
           /\ Decoded(Answer(s, ControlClass, idle), NoStatus) = NoStatus
<1> DEFINE f == Answer(s, StatusClass, idle)
           g == Answer(s, ControlClass, idle)
           h == Moves(s.swing, Horizontal)
           v == Moves(s.swing, Vertical)
<1>1. Byte(g, ClassOffset) # StatusClass
  <2>1. ControlClass \in Int /\ ControlClass # StatusClass
    BY DEF ControlClass, StatusClass
  <2> QED
    BY <2>1, AnswerBytes
<1>2. h \in 0 .. 1 /\ v \in 0 .. 1 /\ Horizontal * h + Vertical * v = s.swing
  <2>1. Horizontal * h + Vertical * v = s.swing
    BY StatusIs
  <2>2. s.swing \in 0 .. 3
    BY StatusIs DEF Swing
  <2> QED
    BY <2>1, <2>2 DEF Moves, Horizontal, Vertical
<1>3. StatusClass \in Int
  BY DEF StatusClass
<1>4. /\ IsStatus(f)
      /\ Byte(f, 16) = s.wind
      /\ Byte(f, 18) = s.mode * 16 + s.run * 4 + idle * 3
      /\ Byte(f, 19) = s.setpoint /\ Byte(f, 26) = s.compensation * 16 + idle * 15
      /\ Byte(f, 35) = v * 128 + h * 64 + idle * 63
      /\ Byte(f, 37) = s.backLed * 128 + idle * 127
  BY <1>3, AnswerBytes DEF IsStatus
<1> HIDE DEF f, g, h, v
<1>5. /\ Read(f).run = s.run /\ Read(f).mode = s.mode
      /\ Read(f).compensation = s.compensation /\ Read(f).backLed = s.backLed
      /\ Flag(f, 35, 64) = h /\ Flag(f, 35, 128) = v
  BY <1>2, <1>4, BitsReadBack, StatusIs DEF Read, Flag
<1>6. Read(f) = s
  BY <1>2, <1>4, <1>5, StatusIs DEF Read
<1>7. Decoded(f, NoStatus) = s /\ Decoded(g, NoStatus) = NoStatus
  BY <1>1, <1>4, <1>6 DEF Decoded, IsStatus
<1> QED
  BY <1>7 DEF f, g

\* decode_status reads of an answer what the unit is, whatever the bits say that
\* have no use here, and takes nothing from the answer to a setter, which has
\* the same shape: for every status, not only those a plan passes through.
THEOREM StatusesAreReadBack == WalkSpec => []StatusIsReadBack
<1>1. Underway => StatusIsReadBack
  BY ReadsBack DEF Underway, StatusIsReadBack
<1> QED
  BY <1>1, AlwaysUnderway, PTL

-----------------------------------------------------------------------------
(* The checksum of a command, and what is stuffed of it.                   *)

LEMMA Induction ==
    ASSUME NEW T, 0 \in T, \A n \in Nat : n \in T => n + 1 \in T
    PROVE  Nat \subseteq T
<1> DEFINE R == OpToRel(<, Nat)
           U == Nat \ T
<1>1. IsWellFoundedOn(R, Nat)
  BY NatLessThanWellFounded, Zenon
<1>2. \A x, y \in Nat : x < y => <<x, y>> \in R
  BY Zenon DEF OpToRel
<1> HIDE DEF R
<1> SUFFICES ASSUME U # {} PROVE FALSE
  OBVIOUS
<1>3. PICK m \in U : \A y \in U : ~ (<<y, m>> \in R)
  BY <1>1, WFMin
<1>4. m # 0 /\ m - 1 \in Nat /\ m - 1 < m /\ m = (m - 1) + 1
  BY <1>3
<1>5. m - 1 \in T
  BY <1>2, <1>3, <1>4
<1> QED
  BY <1>3, <1>4, <1>5

Accumulates(w, s, n) == \A i \in 1 .. n : w[i] = Plus16(w[i - 1], s[i])

\* A function that grows as the checksum does ends at the checksum.
LEMMA ChecksumIs ==
    ASSUME NEW s, NEW n \in Nat, Len(s) = n, NEW w, w \in [0 .. n -> Nat], w[0] = 0,
           Accumulates(w, s, n)
    PROVE  Checksum(s) = Bytes16(w[n])
<1> DEFINE IsSum(f) == f = [i \in 0 .. n |-> IF i = 0 THEN 0 ELSE Plus16(f[i - 1], s[i])]
           sum == CHOOSE f : IsSum(f)
<1>1. IsSum(w)
  <2>1. w = [i \in 0 .. n |-> w[i]]
    OBVIOUS
  <2>2. \A i \in 0 .. n : w[i] = IF i = 0 THEN 0 ELSE Plus16(w[i - 1], s[i])
    BY DEF Accumulates
  <2> QED
    BY <2>1, <2>2
<1>2. IsSum(sum)
  BY <1>1
<1>3. Checksum(s) = Bytes16(sum[n])
  BY SMT DEF Checksum
<1> HIDE DEF sum
<1>4. \A i \in 0 .. n : sum[i] = IF i = 0 THEN 0 ELSE Plus16(sum[i - 1], s[i])
  BY <1>2
<1> DEFINE T == {i \in Nat : i <= n => sum[i] = w[i]}
<1>5. 0 \in T
  BY <1>4
<1>6. ASSUME NEW i \in Nat, i \in T PROVE i + 1 \in T
  <2> SUFFICES ASSUME i + 1 <= n PROVE sum[i + 1] = w[i + 1]
    OBVIOUS
  <2>1. /\ i + 1 \in 0 .. n /\ i + 1 \in 1 .. n /\ i + 1 # 0 /\ (i + 1) - 1 = i
        /\ sum[i] = w[i]
    BY <1>6
  <2> QED
    BY <1>4, <2>1 DEF Accumulates
<1> HIDE DEF T
<1>7. n \in T
  BY <1>5, <1>6, Induction
<1> QED
  BY <1>3, <1>7 DEF T

\* The bytes in which commands differ, and those they have in common besides.
Varying == {16, 17, 18, 19, 23, 24, 29, 31, 32, 33, 35, 36, 37}
Fixed   == {3, 4, 7, 8, 9, 10, 13}

CommandBody(b) ==
    /\ b \in [2 .. 45 -> 0 .. 255]
    /\ \A o \in 2 .. 45 : b[o] # Marker /\ (o \notin Varying => b[o] = Common[o])

LEMMA CommonBody ==
    /\ CommandBody(Common)
    /\ Common[3] = 64 /\ Common[4] = 41 /\ Common[7] = 1 /\ Common[8] = 1
    /\ Common[9] = 254 /\ Common[10] = 1 /\ Common[13] = 101
    /\ \A o \in Varying : Common[o] = IF o = 23 THEN 4 ELSE 0
    /\ \A o \in 2 .. 45 \ (Varying \cup Fixed) : Common[o] = 0
<1>1. Empty(45) \in [2 .. 45 -> 0 .. 255] /\ \A o \in 2 .. 45 : Empty(45)[o] = 0
  BY DEF Empty
<1> DEFINE B == 0 .. 255
           e == Empty(45)
           d == [e EXCEPT ![3] = 64, ![4] = 41, ![7] = 1, ![8] = 1]
           c == [d EXCEPT ![9] = 254, ![10] = 1, ![13] = 101, ![23] = 4]
<1>2. Common = c
  BY DEF Common
<1>3. /\ 0 \in B /\ 1 \in B /\ 4 \in B /\ 41 \in B /\ 64 \in B /\ 101 \in B
      /\ 254 \in B
  OBVIOUS
<1> HIDE DEF B, e
<1>4. e \in [2 .. 45 -> B] /\ \A o \in 2 .. 45 : e[o] = 0
  BY <1>1 DEF e, B
<1>5. d \in [2 .. 45 -> B]
  BY <1>3, <1>4
<1>6. /\ d[3] = 64 /\ d[4] = 41 /\ d[7] = 1 /\ d[8] = 1
      /\ \A o \in 2 .. 45 : o \notin {3, 4, 7, 8} => d[o] = 0
  BY <1>4
<1> HIDE DEF d
<1>7. c \in [2 .. 45 -> B]
  BY <1>3, <1>5
<1>8. /\ c[9] = 254 /\ c[10] = 1 /\ c[13] = 101 /\ c[23] = 4
      /\ \A o \in 2 .. 45 : o \notin {9, 10, 13, 23} => c[o] = d[o]
  BY <1>5
<1> HIDE DEF c
<1>9. /\ c[3] = 64 /\ c[4] = 41 /\ c[7] = 1 /\ c[8] = 1 /\ c[9] = 254 /\ c[10] = 1
      /\ c[13] = 101 /\ c[23] = 4
      /\ \A o \in 2 .. 45 : o \notin {3, 4, 7, 8, 9, 10, 13, 23} => c[o] = 0
  BY <1>6, <1>8
<1>10. c \in [2 .. 45 -> 0 .. 255] /\ \A o \in 2 .. 45 : c[o] # Marker
  <2>1. \A o \in 2 .. 45 : c[o] \in {0, 1, 4, 41, 64, 101, 254}
    BY <1>9
  <2>2. \A n \in {0, 1, 4, 41, 64, 101, 254} : n # Marker
    BY DEF Marker
  <2>3. \A o \in 2 .. 45 : c[o] # Marker
    BY <2>1, <2>2
  <2> QED
    BY <1>7, <2>3 DEF B
<1>11. CommandBody(c)
  BY <1>2, <1>10 DEF CommandBody
<1>12. \A o \in Varying : c[o] = IF o = 23 THEN 4 ELSE 0
  BY <1>9 DEF Varying
<1>13. \A o \in 2 .. 45 \ (Varying \cup Fixed) : c[o] = 0
  BY <1>9 DEF Varying, Fixed
<1> QED
  BY <1>2, <1>9, <1>11, <1>12, <1>13

\* What those of five bytes that are among the first n add up to.
UpTo(b, n, o) == IF o <= n + 1 THEN b[o] ELSE 0

Five(b, n, o1, o2, o3, o4, o5) ==
    UpTo(b, n, o1) + UpTo(b, n, o2) + UpTo(b, n, o3) + UpTo(b, n, o4) + UpTo(b, n, o5)

Octet(n) == n \in Nat /\ n <= 255

Few(n) == n \in Nat /\ n <= 1275

\* How these grow from n - 1 to n.
UpToGrows(b, n, o) ==
    /\ UpTo(b, n, o) \in Nat /\ UpTo(b, n, o) <= 255
    /\ n + 1 < o => UpTo(b, n, o) = 0
    /\ n + 1 >= o => UpTo(b, n, o) = b[o]
    /\ n + 1 # o => UpTo(b, n, o) = UpTo(b, n - 1, o)
    /\ n + 1 = o => UpTo(b, n - 1, o) = 0

FiveGrow(b, n, o1, o2, o3, o4, o5) ==
    /\ Few(Five(b, n, o1, o2, o3, o4, o5))
    /\ n + 1 < o1 => Five(b, n, o1, o2, o3, o4, o5) = 0
    /\ n + 1 >= o5 => Five(b, n, o1, o2, o3, o4, o5)
                        = b[o1] + b[o2] + b[o3] + b[o4] + b[o5]
    /\ n + 1 \notin {o1, o2, o3, o4, o5} =>
          Five(b, n, o1, o2, o3, o4, o5) = Five(b, n - 1, o1, o2, o3, o4, o5)
    /\ n + 1 \in {o1, o2, o3, o4, o5} =>
          Five(b, n, o1, o2, o3, o4, o5)
            = Five(b, n - 1, o1, o2, o3, o4, o5) + b[n + 1]

LEMMA UpToGrow ==
    ASSUME NEW b, NEW o \in Int, Octet(b[o]), NEW n \in Int
    PROVE  UpToGrows(b, n, o)
<1> USE DEF UpToGrows, Octet
<1>1. CASE n + 1 < o
  BY <1>1 DEF UpTo
<1>2. CASE n + 1 = o
  BY <1>2 DEF UpTo
<1>3. CASE n + 1 > o
  BY <1>3 DEF UpTo
<1> QED
  BY <1>1, <1>2, <1>3

LEMMA FivesGrow ==
    ASSUME NEW b, NEW o1 \in Int, NEW o2 \in Int, NEW o3 \in Int, NEW o4 \in Int,
           NEW o5 \in Int, o1 < o2, o2 < o3, o3 < o4, o4 < o5,
           Octet(b[o1]), Octet(b[o2]), Octet(b[o3]), Octet(b[o4]), Octet(b[o5]),
           NEW n \in Int
    PROVE  FiveGrow(b, n, o1, o2, o3, o4, o5)
<1> DEFINE Offsets == {o1, o2, o3, o4, o5}
           u(o) == UpTo(b, n, o)
           v(o) == UpTo(b, n - 1, o)
<1>1. /\ Five(b, n, o1, o2, o3, o4, o5) = u(o1) + u(o2) + u(o3) + u(o4) + u(o5)
      /\ Five(b, n - 1, o1, o2, o3, o4, o5) = v(o1) + v(o2) + v(o3) + v(o4) + v(o5)
  BY DEF Five
<1>2. ASSUME NEW o \in Offsets
      PROVE  /\ o \in Int /\ b[o] \in Nat /\ b[o] <= 255
             /\ u(o) \in Nat /\ u(o) <= 255 /\ v(o) \in Nat
             /\ n + 1 < o => u(o) = 0
             /\ n + 1 >= o => u(o) = b[o]
             /\ n + 1 # o => u(o) = v(o)
             /\ n + 1 = o => v(o) = 0
  <2>1. o \in Int /\ Octet(b[o]) /\ n - 1 \in Int
    OBVIOUS
  <2> HIDE DEF Offsets
  <2>2. /\ UpTo(b, n, o) \in Nat /\ UpTo(b, n, o) <= 255
        /\ n + 1 < o => UpTo(b, n, o) = 0
        /\ n + 1 >= o => UpTo(b, n, o) = b[o]
        /\ n + 1 # o => UpTo(b, n, o) = UpTo(b, n - 1, o)
        /\ n + 1 = o => UpTo(b, n - 1, o) = 0
    <3>1. UpToGrows(b, n, o)
      BY <2>1, UpToGrow
    <3> QED
      BY <3>1 DEF UpToGrows
  <2>3. UpTo(b, n - 1, o) \in Nat
    <3>1. UpToGrows(b, n - 1, o)
      BY <2>1, UpToGrow
    <3> QED
      BY <3>1 DEF UpToGrows
  <2> QED
    BY <2>1, <2>2, <2>3 DEF Octet
<1> HIDE DEF u, v
<1>3. /\ u(o1) \in Nat /\ u(o2) \in Nat /\ u(o3) \in Nat /\ u(o4) \in Nat /\ u(o5) \in Nat
      /\ u(o1) <= 255 /\ u(o2) <= 255 /\ u(o3) <= 255 /\ u(o4) <= 255 /\ u(o5) <= 255
      /\ v(o1) \in Nat /\ v(o2) \in Nat /\ v(o3) \in Nat /\ v(o4) \in Nat /\ v(o5) \in Nat
  BY <1>2
<1>4. Few(Five(b, n, o1, o2, o3, o4, o5))
  BY <1>1, <1>3 DEF Few
<1>5. n + 1 < o1 => Five(b, n, o1, o2, o3, o4, o5) = 0
  BY <1>1, <1>2
<1>6. n + 1 >= o5 => Five(b, n, o1, o2, o3, o4, o5)
                       = b[o1] + b[o2] + b[o3] + b[o4] + b[o5]
  BY <1>1, <1>2
<1>7. n + 1 \notin Offsets =>
         Five(b, n, o1, o2, o3, o4, o5) = Five(b, n - 1, o1, o2, o3, o4, o5)
  BY <1>1, <1>2
<1>8. ASSUME n + 1 \in Offsets
      PROVE  Five(b, n, o1, o2, o3, o4, o5)
               = Five(b, n - 1, o1, o2, o3, o4, o5) + b[n + 1]
  <2>1. CASE n + 1 = o1
    <3>1. /\ u(o1) = b[n + 1] /\ v(o1) = 0 /\ b[n + 1] \in Nat
          /\ u(o2) = v(o2) /\ u(o3) = v(o3) /\ u(o4) = v(o4) /\ u(o5) = v(o5)
      BY <1>2, <2>1
    <3> QED
      BY <1>1, <1>3, <3>1
  <2>2. CASE n + 1 = o2
    <3>1. /\ u(o2) = b[n + 1] /\ v(o2) = 0 /\ b[n + 1] \in Nat
          /\ u(o1) = v(o1) /\ u(o3) = v(o3) /\ u(o4) = v(o4) /\ u(o5) = v(o5)
      BY <1>2, <2>2
    <3> QED
      BY <1>1, <1>3, <3>1
  <2>3. CASE n + 1 = o3
    <3>1. /\ u(o3) = b[n + 1] /\ v(o3) = 0 /\ b[n + 1] \in Nat
          /\ u(o1) = v(o1) /\ u(o2) = v(o2) /\ u(o4) = v(o4) /\ u(o5) = v(o5)
      BY <1>2, <2>3
    <3> QED
      BY <1>1, <1>3, <3>1
  <2>4. CASE n + 1 = o4
    <3>1. /\ u(o4) = b[n + 1] /\ v(o4) = 0 /\ b[n + 1] \in Nat
          /\ u(o1) = v(o1) /\ u(o2) = v(o2) /\ u(o3) = v(o3) /\ u(o5) = v(o5)
      BY <1>2, <2>4
    <3> QED
      BY <1>1, <1>3, <3>1
  <2>5. CASE n + 1 = o5
    <3>1. /\ u(o5) = b[n + 1] /\ v(o5) = 0 /\ b[n + 1] \in Nat
          /\ u(o1) = v(o1) /\ u(o2) = v(o2) /\ u(o3) = v(o3) /\ u(o4) = v(o4)
      BY <1>2, <2>5
    <3> QED
      BY <1>1, <1>3, <3>1
  <2> QED
    BY <1>8, <2>1, <2>2, <2>3, <2>4, <2>5
<1> QED
  BY <1>4, <1>5, <1>6, <1>7, <1>8 DEF FiveGrow

\* What the first n bytes of a command add up to, and all of them.
After(b, n) ==
    Five(b, n, 3, 4, 7, 8, 9) + Five(b, n, 10, 13, 16, 17, 18)
    + Five(b, n, 19, 23, 24, 29, 31) + Five(b, n, 32, 33, 35, 36, 37)

Total(b) == 463 + b[16] + b[17] + b[18] + b[19] + b[23] + b[24] + b[29]
                + b[31] + b[32] + b[33] + b[35] + b[36] + b[37]

Summed(n) == n \in Nat /\ n <= 5100

LEMMA AfterGrows ==
    ASSUME NEW b, CommandBody(b)
    PROVE  /\ \A n \in 0 .. 44 : Summed(After(b, n))
           /\ After(b, 0) = 0 /\ After(b, 44) = Total(b)
           /\ \A n \in 1 .. 44 : After(b, n) = After(b, n - 1) + b[n + 1]
<1> DEFINE S1 == {3, 4, 7, 8, 9}
           S2 == {10, 13, 16, 17, 18}
           S3 == {19, 23, 24, 29, 31}
           S4 == {32, 33, 35, 36, 37}
           f1(n) == Five(b, n, 3, 4, 7, 8, 9)
           f2(n) == Five(b, n, 10, 13, 16, 17, 18)
           f3(n) == Five(b, n, 19, 23, 24, 29, 31)
           f4(n) == Five(b, n, 32, 33, 35, 36, 37)
<1>1. \A o \in 2 .. 45 : Octet(b[o])
  <2>1. b \in [2 .. 45 -> 0 .. 255]
    BY DEF CommandBody
  <2>2. \A x \in 0 .. 255 : Octet(x)
    BY DEF Octet
  <2> QED
    BY <2>1, <2>2
<1>2. \A o \in 2 .. 45 : o \notin Varying => b[o] = Common[o]
  BY DEF CommandBody
<1>3. /\ b[3] = 64 /\ b[4] = 41 /\ b[7] = 1 /\ b[8] = 1 /\ b[9] = 254 /\ b[10] = 1
      /\ b[13] = 101
  <2>1. \A o \in {3, 4, 7, 8, 9, 10, 13} : o \in 2 .. 45 /\ o \notin Varying
    BY DEF Varying
  <2>2. \A o \in {3, 4, 7, 8, 9, 10, 13} : b[o] = Common[o]
    BY <1>2, <2>1
  <2> QED
    BY <2>2, CommonBody
<1>4. \A o \in 2 .. 45 : o \notin S1 \cup S2 \cup S3 \cup S4 => b[o] = 0
  <2> SUFFICES ASSUME NEW o \in 2 .. 45, o \notin S1 \cup S2 \cup S3 \cup S4
               PROVE  b[o] = 0
    OBVIOUS
  <2>1. o \notin Varying /\ o \in 2 .. 45 \ (Varying \cup Fixed)
    BY DEF Varying, Fixed
  <2> QED
    BY <1>2, <2>1, CommonBody
<1>5. \A o \in S1 \cup S2 \cup S3 \cup S4 : o \in 2 .. 45
  OBVIOUS
<1>6. \A o \in S1 \cup S2 \cup S3 \cup S4 : Octet(b[o])
  BY <1>1, <1>5
<1>7. ASSUME NEW n \in Int
      PROVE  /\ Few(f1(n)) /\ Few(f2(n)) /\ Few(f3(n)) /\ Few(f4(n))
             /\ n = 0 => f1(n) = 0 /\ f2(n) = 0 /\ f3(n) = 0 /\ f4(n) = 0
             /\ n = 44 => /\ f1(n) = b[3] + b[4] + b[7] + b[8] + b[9]
                          /\ f2(n) = b[10] + b[13] + b[16] + b[17] + b[18]
                          /\ f3(n) = b[19] + b[23] + b[24] + b[29] + b[31]
                          /\ f4(n) = b[32] + b[33] + b[35] + b[36] + b[37]
             /\ f1(n) = IF n + 1 \in S1 THEN f1(n - 1) + b[n + 1] ELSE f1(n - 1)
             /\ f2(n) = IF n + 1 \in S2 THEN f2(n - 1) + b[n + 1] ELSE f2(n - 1)
             /\ f3(n) = IF n + 1 \in S3 THEN f3(n - 1) + b[n + 1] ELSE f3(n - 1)
             /\ f4(n) = IF n + 1 \in S4 THEN f4(n - 1) + b[n + 1] ELSE f4(n - 1)
  <2>1. /\ n = 0 => n + 1 < 3 /\ n + 1 < 10 /\ n + 1 < 19 /\ n + 1 < 32
        /\ n = 44 => n + 1 >= 9 /\ n + 1 >= 18 /\ n + 1 >= 31 /\ n + 1 >= 37
    OBVIOUS
  <2>2. /\ Few(f1(n)) /\ (n + 1 < 3 => f1(n) = 0)
        /\ n + 1 >= 9 => f1(n) = b[3] + b[4] + b[7] + b[8] + b[9]
        /\ f1(n) = IF n + 1 \in S1 THEN f1(n - 1) + b[n + 1] ELSE f1(n - 1)
    <3>1. Octet(b[3]) /\ Octet(b[4]) /\ Octet(b[7]) /\ Octet(b[8]) /\ Octet(b[9])
      BY <1>6
    <3>2. /\ 3 \in Int /\ 4 \in Int /\ 7 \in Int /\ 8 \in Int /\ 9 \in Int
          /\ 3 < 4 /\ 4 < 7 /\ 7 < 8 /\ 8 < 9
      OBVIOUS
    <3>5. FiveGrow(b, n, 3, 4, 7, 8, 9)
      BY <3>1, <3>2, FivesGrow
    <3>3. /\ Few(f1(n)) /\ (n + 1 < 3 => f1(n) = 0)
          /\ n + 1 >= 9 => f1(n) = b[3] + b[4] + b[7] + b[8] + b[9]
      BY <3>5 DEF FiveGrow
    <3>4. /\ n + 1 \notin S1 => f1(n) = f1(n - 1)
          /\ n + 1 \in S1 => f1(n) = f1(n - 1) + b[n + 1]
      BY <3>5 DEF FiveGrow
    <3> HIDE DEF f1, S1
    <3> QED
      BY <3>3, <3>4
  <2>3. /\ Few(f2(n)) /\ (n + 1 < 10 => f2(n) = 0)
        /\ n + 1 >= 18 => f2(n) = b[10] + b[13] + b[16] + b[17] + b[18]
        /\ f2(n) = IF n + 1 \in S2 THEN f2(n - 1) + b[n + 1] ELSE f2(n - 1)
    <3>1. Octet(b[10]) /\ Octet(b[13]) /\ Octet(b[16]) /\ Octet(b[17]) /\ Octet(b[18])
      BY <1>6
    <3>2. /\ 10 \in Int /\ 13 \in Int /\ 16 \in Int /\ 17 \in Int /\ 18 \in Int
          /\ 10 < 13 /\ 13 < 16 /\ 16 < 17 /\ 17 < 18
      OBVIOUS
    <3>5. FiveGrow(b, n, 10, 13, 16, 17, 18)
      BY <3>1, <3>2, FivesGrow
    <3>3. /\ Few(f2(n)) /\ (n + 1 < 10 => f2(n) = 0)
          /\ n + 1 >= 18 => f2(n) = b[10] + b[13] + b[16] + b[17] + b[18]
      BY <3>5 DEF FiveGrow
    <3>4. /\ n + 1 \notin S2 => f2(n) = f2(n - 1)
          /\ n + 1 \in S2 => f2(n) = f2(n - 1) + b[n + 1]
      BY <3>5 DEF FiveGrow
    <3> HIDE DEF f2, S2
    <3> QED
      BY <3>3, <3>4
  <2>4. /\ Few(f3(n)) /\ (n + 1 < 19 => f3(n) = 0)
        /\ n + 1 >= 31 => f3(n) = b[19] + b[23] + b[24] + b[29] + b[31]
        /\ f3(n) = IF n + 1 \in S3 THEN f3(n - 1) + b[n + 1] ELSE f3(n - 1)
    <3>1. Octet(b[19]) /\ Octet(b[23]) /\ Octet(b[24]) /\ Octet(b[29]) /\ Octet(b[31])
      BY <1>6
    <3>2. /\ 19 \in Int /\ 23 \in Int /\ 24 \in Int /\ 29 \in Int /\ 31 \in Int
          /\ 19 < 23 /\ 23 < 24 /\ 24 < 29 /\ 29 < 31
      OBVIOUS
    <3>5. FiveGrow(b, n, 19, 23, 24, 29, 31)
      BY <3>1, <3>2, FivesGrow
    <3>3. /\ Few(f3(n)) /\ (n + 1 < 19 => f3(n) = 0)
          /\ n + 1 >= 31 => f3(n) = b[19] + b[23] + b[24] + b[29] + b[31]
      BY <3>5 DEF FiveGrow
    <3>4. /\ n + 1 \notin S3 => f3(n) = f3(n - 1)
          /\ n + 1 \in S3 => f3(n) = f3(n - 1) + b[n + 1]
      BY <3>5 DEF FiveGrow
    <3> HIDE DEF f3, S3
    <3> QED
      BY <3>3, <3>4
  <2>5. /\ Few(f4(n)) /\ (n + 1 < 32 => f4(n) = 0)
        /\ n + 1 >= 37 => f4(n) = b[32] + b[33] + b[35] + b[36] + b[37]
        /\ f4(n) = IF n + 1 \in S4 THEN f4(n - 1) + b[n + 1] ELSE f4(n - 1)
    <3>1. Octet(b[32]) /\ Octet(b[33]) /\ Octet(b[35]) /\ Octet(b[36]) /\ Octet(b[37])
      BY <1>6
    <3>2. /\ 32 \in Int /\ 33 \in Int /\ 35 \in Int /\ 36 \in Int /\ 37 \in Int
          /\ 32 < 33 /\ 33 < 35 /\ 35 < 36 /\ 36 < 37
      OBVIOUS
    <3>5. FiveGrow(b, n, 32, 33, 35, 36, 37)
      BY <3>1, <3>2, FivesGrow
    <3>3. /\ Few(f4(n)) /\ (n + 1 < 32 => f4(n) = 0)
          /\ n + 1 >= 37 => f4(n) = b[32] + b[33] + b[35] + b[36] + b[37]
      BY <3>5 DEF FiveGrow
    <3>4. /\ n + 1 \notin S4 => f4(n) = f4(n - 1)
          /\ n + 1 \in S4 => f4(n) = f4(n - 1) + b[n + 1]
      BY <3>5 DEF FiveGrow
    <3> HIDE DEF f4, S4
    <3> QED
      BY <3>3, <3>4
  <2> HIDE DEF f1, f2, f3, f4, S1, S2, S3, S4
  <2> QED
    BY <2>1, <2>2, <2>3, <2>4, <2>5
<1>8. \A n : After(b, n) = f1(n) + f2(n) + f3(n) + f4(n)
  BY DEF After
<1> HIDE DEF f1, f2, f3, f4
<1>9. \A n \in 0 .. 44 : Summed(After(b, n))
  <2> TAKE n \in 0 .. 44
  <2>1. n \in Int
    OBVIOUS
  <2>2. Few(f1(n)) /\ Few(f2(n)) /\ Few(f3(n)) /\ Few(f4(n))
    BY <1>7, <2>1
  <2> QED
    BY <1>8, <2>2 DEF Few, Summed
<1>10. After(b, 0) = 0
  BY <1>7, <1>8
<1>11. After(b, 44) = Total(b)
  <2>1. /\ f1(44) = 361 /\ f2(44) = 102 + b[16] + b[17] + b[18]
        /\ f3(44) = b[19] + b[23] + b[24] + b[29] + b[31]
        /\ f4(44) = b[32] + b[33] + b[35] + b[36] + b[37]
    BY <1>3, <1>7
  <2>2. /\ b[16] \in Nat /\ b[17] \in Nat /\ b[18] \in Nat /\ b[19] \in Nat
        /\ b[23] \in Nat /\ b[24] \in Nat /\ b[29] \in Nat /\ b[31] \in Nat
        /\ b[32] \in Nat /\ b[33] \in Nat /\ b[35] \in Nat /\ b[36] \in Nat
        /\ b[37] \in Nat
    BY <1>6 DEF Octet
  <2> QED
    BY <1>8, <2>1, <2>2 DEF Total
<1>12. ASSUME NEW n \in 1 .. 44 PROVE After(b, n) = After(b, n - 1) + b[n + 1]
  <2>1. n \in Int /\ n - 1 \in Int /\ n + 1 \in 2 .. 45
    OBVIOUS
  <2>2. b[n + 1] \in Nat
    BY <1>1, <2>1 DEF Octet
  <2>3. /\ f1(n) \in Nat /\ f2(n) \in Nat /\ f3(n) \in Nat /\ f4(n) \in Nat
        /\ f1(n - 1) \in Nat /\ f2(n - 1) \in Nat /\ f3(n - 1) \in Nat /\ f4(n - 1) \in Nat
    BY <1>7, <2>1 DEF Few
  <2>4. /\ f1(n) = IF n + 1 \in S1 THEN f1(n - 1) + b[n + 1] ELSE f1(n - 1)
        /\ f2(n) = IF n + 1 \in S2 THEN f2(n - 1) + b[n + 1] ELSE f2(n - 1)
        /\ f3(n) = IF n + 1 \in S3 THEN f3(n - 1) + b[n + 1] ELSE f3(n - 1)
        /\ f4(n) = IF n + 1 \in S4 THEN f4(n - 1) + b[n + 1] ELSE f4(n - 1)
    BY <1>7, <2>1
  <2>5. /\ n + 1 \in S1 => n + 1 \notin S2 \cup S3 \cup S4
        /\ n + 1 \in S2 => n + 1 \notin S3 \cup S4
        /\ n + 1 \in S3 => n + 1 \notin S4
    OBVIOUS
  <2>6. n + 1 \notin S1 \cup S2 \cup S3 \cup S4 => b[n + 1] = 0
    BY <1>4, <2>1
  <2> HIDE DEF S1, S2, S3, S4
  <2>7. CASE n + 1 \in S1
    BY <1>8, <2>2, <2>3, <2>4, <2>5, <2>7
  <2>8. CASE n + 1 \in S2
    BY <1>8, <2>2, <2>3, <2>4, <2>5, <2>8
  <2>9. CASE n + 1 \in S3
    BY <1>8, <2>2, <2>3, <2>4, <2>5, <2>9
  <2>10. CASE n + 1 \in S4
    BY <1>8, <2>2, <2>3, <2>4, <2>5, <2>10
  <2>11. CASE n + 1 \notin S1 \cup S2 \cup S3 \cup S4
    BY <1>8, <2>2, <2>3, <2>4, <2>6, <2>11
  <2> QED
    BY <2>7, <2>8, <2>9, <2>10, <2>11
<1> QED
  BY <1>9, <1>10, <1>11, <1>12

LEMMA SequenceOf ==
    ASSUME NEW b, CommandBody(b)
    PROVE  /\ Sequence(b) \in Seq(0 .. 255) /\ Len(Sequence(b)) = 44
           /\ \A i \in 1 .. 44 : Sequence(b)[i] = b[i + 1] /\ Sequence(b)[i] # Marker
<1>1. Cardinality(DOMAIN b) = 44
  <2>1. DOMAIN b = 2 .. 45
    BY DEF CommandBody
  <2>2. Cardinality(2 .. 45) = 44
    <3>1. 2 \in Int /\ 45 \in Int /\ ~ (2 > 45) /\ 45 - 2 + 1 = 44
      OBVIOUS
    <3> QED
      BY <3>1, FS_Interval, Zenon
  <2> QED
    BY <2>1, <2>2
<1>2. Sequence(b) = [i \in 1 .. 44 |-> b[i + 1]]
  BY <1>1 DEF Sequence
<1> DEFINE B == 0 .. 255
           t == [i \in 1 .. 44 |-> b[i + 1]]
<1>3. \A i \in 1 .. 44 : b[i + 1] \in B /\ b[i + 1] # Marker
  <2>1. \A i \in 1 .. 44 : i + 1 \in 2 .. 45
    OBVIOUS
  <2>2. \A o \in 2 .. 45 : b[o] \in B /\ b[o] # Marker
    BY DEF CommandBody
  <2> QED
    BY <2>1, <2>2
<1> HIDE DEF B
<1>4. t \in Seq(B) /\ Len(t) = 44
  <2>1. t \in [1 .. 44 -> B]
    BY <1>3
  <2> QED
    BY <2>1, LenProperties
<1>5. \A i \in 1 .. 44 : t[i] = b[i + 1] /\ t[i] # Marker
  BY <1>3
<1> HIDE DEF t
<1> QED
  BY <1>2, <1>4, <1>5 DEF t, B

LEMMA ChecksumOf ==
    ASSUME NEW b, CommandBody(b)
    PROVE  /\ Checksum(Sequence(b)) = Bytes16(Total(b))
           /\ Summed(Total(b))
<1> DEFINE w == [n \in 0 .. 44 |-> After(b, n)]
<1>1. w \in [0 .. 44 -> Nat] /\ w[0] = 0 /\ w[44] = Total(b)
  <2>1. \A n \in 0 .. 44 : After(b, n) \in Nat
    BY AfterGrows DEF Summed
  <2> QED
    BY <2>1, AfterGrows
<1>2. \A n \in 1 .. 44 : w[n] = Plus16(w[n - 1], Sequence(b)[n])
  <2> SUFFICES ASSUME NEW n \in 1 .. 44
               PROVE  w[n] = Plus16(w[n - 1], Sequence(b)[n])
    OBVIOUS
  <2>1. w[n] = After(b, n) /\ w[n - 1] = After(b, n - 1)
    OBVIOUS
  <2>2. After(b, n) = After(b, n - 1) + b[n + 1] /\ Summed(After(b, n))
    <3>1. n \in 0 .. 44
      OBVIOUS
    <3> QED
      BY <3>1, AfterGrows
  <2>3. Sequence(b)[n] = b[n + 1]
    BY SequenceOf
  <2> HIDE DEF w
  <2>4. \A x : Summed(x) => x % 65536 = x
    BY DEF Summed
  <2> QED
    BY <2>1, <2>2, <2>3, <2>4 DEF Plus16
<1> HIDE DEF w
<1>3. Summed(Total(b))
  <2>1. 44 \in 0 .. 44
    OBVIOUS
  <2> QED
    BY <2>1, AfterGrows
<1> QED
  <2> DEFINE s == Sequence(b)
  <2>1. Len(s) = 44 /\ 44 \in Nat
    BY SequenceOf
  <2>2. Accumulates(w, s, 44)
    BY <1>2 DEF Accumulates
  <2> HIDE DEF s
  <2>3. Checksum(s) = Bytes16(w[44])
    BY <1>1, <2>1, <2>2, ChecksumIs
  <2> QED
    BY <1>1, <1>3, <2>3 DEF s

-----------------------------------------------------------------------------
(* The frame of a command.                                                *)

\* The sequences that FlattenSeq goes through.
Flattens(w, q, n) ==
    \A i \in 1 .. n : w[i] = IF i = 1 THEN q[i] ELSE w[i - 1] \o q[i]

\* A function that grows as FlattenSeq does ends at what it flattens to.
LEMMA FlattenIs ==
    ASSUME NEW q, NEW n \in Nat, n # 0, Len(q) = n,
           NEW w, w = [i \in 1 .. n |-> w[i]], Flattens(w, q, n)
    PROVE  FlattenSeq(q) = w[n]
<1> DEFINE IsFlat(f) == f = [i \in 1 .. n |-> IF i = 1 THEN q[i] ELSE f[i - 1] \o q[i]]
           flat == CHOOSE f : IsFlat(f)
<1>1. IsFlat(w)
  BY DEF Flattens
<1>2. IsFlat(flat)
  BY <1>1
<1>3. FlattenSeq(q) = flat[n]
  BY SMT DEF FlattenSeq
<1> HIDE DEF flat
<1>4. \A i \in 1 .. n : flat[i] = IF i = 1 THEN q[i] ELSE flat[i - 1] \o q[i]
  BY <1>2
<1> DEFINE T == {i \in Nat : i + 1 <= n => flat[i + 1] = w[i + 1]}
<1>5. 0 \in T
  <2>1. flat[1] = w[1]
    BY <1>4 DEF Flattens
  <2> QED
    BY <2>1
<1>6. ASSUME NEW i \in Nat, i \in T PROVE i + 1 \in T
  <2> SUFFICES ASSUME i + 2 <= n PROVE flat[i + 2] = w[i + 2]
    OBVIOUS
  <2>1. /\ i + 2 \in 1 .. n /\ i + 2 # 1 /\ (i + 2) - 1 = i + 1
        /\ flat[i + 1] = w[i + 1]
    BY <1>6
  <2>2. flat[i + 2] = flat[(i + 2) - 1] \o q[i + 2]
    BY <1>4, <2>1
  <2>3. w[i + 2] = w[(i + 2) - 1] \o q[i + 2]
    BY <2>1 DEF Flattens
  <2> QED
    BY <2>1, <2>2, <2>3
<1> HIDE DEF T
<1>7. n - 1 \in T /\ (n - 1) + 1 = n
  BY <1>5, <1>6, Induction
<1>8. flat[n] = w[n]
  BY <1>7 DEF T
<1> QED
  BY <1>3, <1>8

\* What becomes of one byte.
Doubled(byte) == IF byte = Marker THEN <<Marker, Marker>> ELSE <<byte>>

NoMarkers(s, n) == \A i \in 1 .. n : s[i] # Marker

StuffsTwo(s, x, y) == Stuffed(s \o <<x, y>>) = (s \o Doubled(x)) \o Doubled(y)

\* Two bytes behind others that are no markers.
LEMMA StuffedPair ==
    ASSUME NEW S, Marker \in S, NEW s \in Seq(S), NEW n \in Nat, n # 0, Len(s) = n,
           NoMarkers(s, n), NEW x \in S, NEW y \in S
    PROVE  StuffsTwo(s, x, y)
<1> DEFINE p == s \o <<x, y>>
           q == [i \in 1 .. n + 2 |-> Doubled(p[i])]
           w == [i \in 1 .. n + 2 |->
                   IF i <= n THEN SubSeq(s, 1, i)
                   ELSE IF i = n + 1 THEN s \o Doubled(x)
                   ELSE (s \o Doubled(x)) \o Doubled(y)]
<1>1. /\ p \in Seq(S) /\ Len(p) = n + 2 /\ DOMAIN p = 1 .. n + 2
      /\ \A i \in 1 .. n : p[i] = s[i]
      /\ p[n + 1] = x /\ p[n + 2] = y
  <2> DEFINE t == <<x, y>>
  <2>1. t \in Seq(S) /\ Len(t) = 2 /\ t[1] = x /\ t[2] = y
    OBVIOUS
  <2> HIDE DEF t
  <2>2. Joined(S, s, t, s \o t)
    BY <2>1, JoinedForm
  <2> DEFINE r == s \o t
  <2> HIDE DEF r
  <2>3. /\ r \in Seq(S) /\ Len(r) = n + 2
        /\ \A i \in 1 .. n : r[i] = s[i]
        /\ \A i \in 1 .. 2 : r[n + i] = t[i]
    BY <2>1, <2>2 DEF Joined, r
  <2>4. r[n + 1] = x /\ r[n + 2] = y /\ DOMAIN r = 1 .. n + 2
    BY <2>1, <2>3, LenProperties
  <2> QED
    BY <2>3, <2>4 DEF r, t
<1>2. Stuffed(p) = FlattenSeq(q)
  <2> HIDE DEF p
  <2> QED
    BY <1>1 DEF Stuffed, Doubled
<1> HIDE DEF p
<1>3. Len(q) = n + 2 /\ \A i \in 1 .. n + 2 : q[i] = Doubled(p[i])
  OBVIOUS
<1> HIDE DEF q
<1>4. w = [i \in 1 .. n + 2 |-> w[i]]
  OBVIOUS
<1>5. /\ \A i \in 1 .. n : w[i] = SubSeq(s, 1, i)
      /\ w[n + 1] = s \o Doubled(x)
      /\ w[n + 2] = (s \o Doubled(x)) \o Doubled(y)
  OBVIOUS
<1> HIDE DEF w
<1>6. \A i \in 1 .. n : q[i] = <<s[i]>>
  BY <1>1, <1>3 DEF Doubled, NoMarkers
<1>7. q[n + 1] = Doubled(x) /\ q[n + 2] = Doubled(y)
  BY <1>1, <1>3
<1>8. ASSUME NEW i \in 1 .. n + 2
      PROVE  w[i] = IF i = 1 THEN q[i] ELSE w[i - 1] \o q[i]
  <2>1. CASE i = 1
    <3>1. 1 \in 1 .. n /\ w[1] = SubSeq(s, 1, 1) /\ q[1] = <<s[1]>>
      BY <1>5, <1>6
    <3>2. SubSeq(s, 1, 1) = <<s[1]>>
      <4>1. /\ 1 \in 1 .. Len(s) /\ 1 - 1 + 1 = 1 /\ 1 + 1 - 1 = 1
            /\ <<s[1]>> \in Seq(S) /\ Len(<<s[1]>>) = 1 /\ <<s[1]>>[1] = s[1]
        OBVIOUS
      <4>2. SubSeq(s, 1, 1) = SubSeq(s, 1, 0) \o <<s[1]>>
        BY <4>1, SubSeqRecursiveSecond
      <4>3. SubSeq(s, 1, 0) = <<>>
        BY SubSeqEmpty
      <4> QED
        BY <4>1, <4>2, <4>3, ConcatEmptySeq
    <3> QED
      BY <2>1, <3>1, <3>2
  <2>2. CASE i \in 2 .. n
    <3>1. /\ i \in 1 .. n /\ i - 1 \in 1 .. n /\ i # 1
          /\ w[i] = SubSeq(s, 1, i) /\ w[i - 1] = SubSeq(s, 1, i - 1)
          /\ q[i] = <<s[i]>>
      BY <1>5, <1>6, <2>2
    <3>2. SubSeq(s, 1, i) = SubSeq(s, 1, i - 1) \o <<s[i]>>
      BY <3>1, SubSeqRecursiveSecond
    <3> QED
      BY <3>1, <3>2
  <2>3. CASE i = n + 1
    <3>1. i - 1 = n /\ i # 1 /\ w[n] = SubSeq(s, 1, n)
      BY <1>5, <2>3
    <3>2. SubSeq(s, 1, n) = s
      BY SubSeqFull
    <3> QED
      BY <1>5, <1>7, <2>3, <3>1, <3>2
  <2>4. CASE i = n + 2
    <3>1. i - 1 = n + 1 /\ i # 1
      BY <2>4
    <3> QED
      BY <1>5, <1>7, <2>4, <3>1
  <2> QED
    BY <2>1, <2>2, <2>3, <2>4
<1>9. FlattenSeq(q) = w[n + 2]
  <2>1. Flattens(w, q, n + 2)
    BY <1>8 DEF Flattens
  <2>2. n + 2 \in Nat /\ n + 2 # 0
    OBVIOUS
  <2> QED
    BY <1>3, <1>4, <2>1, <2>2, FlattenIs
<1> QED
  BY <1>2, <1>5, <1>9 DEF p, StuffsTwo

OneOrTwo(n) == n = 1 \/ n = 2

LEMMA AtMost64 ==
    ASSUME NEW n, NEW h, NEW s, NEW d, NEW e, NEW f, h = 2, s = 44, f = 2,
           OneOrTwo(d), OneOrTwo(e), n = h + s + d + e + f
    PROVE  n <= 64
<1> QED
  BY DEF OneOrTwo

LEMMA Associative ==
    ASSUME NEW S, NEW s \in Seq(S), NEW t \in Seq(S), NEW u \in Seq(S)
    PROVE  (s \o t) \o u = s \o (t \o u)
<1> QED
  BY ConcatAssociative

LEMMA PairOf == \A x, y : <<x>> \o <<y>> = <<x, y>>
<1> TAKE x, y
<1> DEFINE S == {x, y}
           s == <<x>>
           t == <<y>>
           p == <<x, y>>
           r == s \o t
<1>1. /\ s \in Seq(S) /\ Len(s) = 1 /\ s[1] = x
      /\ t \in Seq(S) /\ Len(t) = 1 /\ t[1] = y
      /\ p \in Seq(S) /\ Len(p) = 2 /\ p[1] = x /\ p[2] = y
  OBVIOUS
<1> HIDE DEF S, s, t, p
<1>2. Joined(S, s, t, r)
  BY <1>1, JoinedForm
<1> HIDE DEF r
<1>3. /\ r \in Seq(S) /\ Len(r) = 2 /\ \A i \in 1 .. 1 : r[i] = s[i]
      /\ \A i \in 1 .. 1 : r[1 + i] = t[i]
  BY <1>1, <1>2 DEF Joined
<1>4. r[1] = x /\ r[2] = y
  BY <1>1, <1>3
<1>5. \A i \in 1 .. 2 : r[i] = p[i]
  BY <1>1, <1>4
<1>6. r = p
  BY <1>1, <1>3, <1>5, SeqEqual
<1> QED
  BY <1>6 DEF r, s, t, p

LEMMA FiveJoined ==
    ASSUME NEW S, NEW h \in Seq(S), NEW s \in Seq(S), NEW d \in Seq(S), NEW e \in Seq(S),
           NEW f \in Seq(S), NEW r, r = (h \o ((s \o d) \o e)) \o f
    PROVE  Len(r) = Len(h) + Len(s) + Len(d) + Len(e) + Len(f)
<1> DEFINE sd == s \o d
           sde == sd \o e
           hsde == h \o sde
           all == hsde \o f
<1>1. Joined(S, s, d, sd)
  BY JoinedForm
<1> HIDE DEF sd
<1>2. sd \in Seq(S)
  BY <1>1 DEF Joined
<1>3. Joined(S, sd, e, sde)
  BY <1>2, JoinedForm
<1> HIDE DEF sde
<1>4. sde \in Seq(S)
  BY <1>3 DEF Joined
<1>5. Joined(S, h, sde, hsde)
  BY <1>4, JoinedForm
<1> HIDE DEF hsde
<1>6. hsde \in Seq(S)
  BY <1>5 DEF Joined
<1>7. Joined(S, hsde, f, all)
  BY <1>6, JoinedForm
<1> HIDE DEF all
<1>8. Len(all) = Len(h) + Len(s) + Len(d) + Len(e) + Len(f)
  BY <1>1, <1>3, <1>5, <1>7 DEF Joined
<1> QED
  BY <1>8 DEF all, hsde, sde, sd

\* The frame of a command: nothing but the bytes of the checksum can be a marker.
LEMMA CommandWire ==
    ASSUME NEW b, CommandBody(b)
    PROVE  /\ Len(Wire(Sequence(b))) <= MaxPacketSize
           /\ Total(b) \div 256 # Marker /\ Total(b) % 256 # Marker =>
                 Wire(Sequence(b)) = AsListed(b, Total(b))
<1> DEFINE B == 0 .. 255
           s == Sequence(b)
           x == Total(b) \div 256
           y == Total(b) % 256
           c == <<x, y>>
           u == (s \o Doubled(x)) \o Doubled(y)
<1>1. s \in Seq(B) /\ Len(s) = 44 /\ NoMarkers(s, 44)
  BY SequenceOf DEF NoMarkers
<1>2. Checksum(s) = c /\ x \in B /\ y \in B
  BY ChecksumOf DEF Bytes16, Summed
<1>3. /\ Header \in Seq(B) /\ Len(Header) = 2 /\ Footer \in Seq(B) /\ Len(Footer) = 2
      /\ Marker \in B
  BY DEF Header, Footer, Marker, HeaderEnd, FooterEnd
<1> HIDE DEF B, s, x, y
<1>4. Stuffed(s \o c) = u
  <2>1. 44 \in Nat /\ 44 # 0
    OBVIOUS
  <2>2. /\ Marker \in B /\ s \in Seq(B) /\ Len(s) = 44 /\ NoMarkers(s, 44)
        /\ x \in B /\ y \in B
    BY <1>1, <1>2, <1>3
  <2>3. StuffsTwo(s, x, y)
    BY <2>1, <2>2, StuffedPair
  <2> QED
    BY <2>3 DEF StuffsTwo
<1>5. Wire(s) = (Header \o u) \o Footer
  BY <1>2, <1>4 DEF Wire
<1>6. Len(Wire(s)) <= 64
  <2>1. \A z \in B : Doubled(z) \in Seq(B) /\ (Len(Doubled(z)) = 1 \/ Len(Doubled(z)) = 2)
    BY <1>3 DEF Doubled
  <2>2. /\ Doubled(x) \in Seq(B) /\ (Len(Doubled(x)) = 1 \/ Len(Doubled(x)) = 2)
        /\ Doubled(y) \in Seq(B) /\ (Len(Doubled(y)) = 1 \/ Len(Doubled(y)) = 2)
    BY <1>2, <2>1
  <2> DEFINE d == Doubled(x)
             e == Doubled(y)
             r == Wire(s)
  <2>3. r = (Header \o ((s \o d) \o e)) \o Footer
    BY <1>5
  <2>4. d \in Seq(B) /\ (Len(d) = 1 \/ Len(d) = 2) /\ e \in Seq(B) /\ (Len(e) = 1 \/ Len(e) = 2)
    BY <2>2
  <2> HIDE DEF d, e, r
  <2>5. s \in Seq(B) /\ Header \in Seq(B) /\ Footer \in Seq(B)
    BY <1>1, <1>3
  <2>6. Len(r) = Len(Header) + Len(s) + Len(d) + Len(e) + Len(Footer)
    BY <2>3, <2>4, <2>5, FiveJoined
  <2>7. OneOrTwo(Len(d)) /\ OneOrTwo(Len(e))
    BY <2>4 DEF OneOrTwo
  <2>8. Len(Header) = 2 /\ Len(s) = 44 /\ Len(Footer) = 2
    BY <1>1, <1>3
  <2>9. Len(r) <= 64
    BY AtMost64, <2>6, <2>7, <2>8
  <2> QED
    BY <2>9 DEF r
<1>7. ASSUME x # Marker, y # Marker
      PROVE  Wire(s) = AsListed(b, Total(b))
  <2>1. Doubled(x) = <<x>> /\ Doubled(y) = <<y>>
    BY <1>7 DEF Doubled
  <2>2. <<x>> \in Seq(B) /\ <<y>> \in Seq(B) /\ c \in Seq(B)
    BY <1>2
  <2>3. <<x>> \o <<y>> = c
    BY PairOf
  <2>4. (s \o <<x>>) \o <<y>> = s \o (<<x>> \o <<y>>)
    BY <1>1, <2>2, Associative
  <2>6. u = s \o c
    BY <2>1, <2>3, <2>4
  <2> HIDE DEF c, u
  <2>7. (Header \o s) \o c = Header \o (s \o c)
    <3>1. Header \in Seq(B) /\ s \in Seq(B) /\ c \in Seq(B)
      BY <1>1, <1>3, <2>2
    <3> QED
      BY <3>1, Associative
  <2>5. AsListed(b, Total(b)) = ((Header \o s) \o c) \o Footer
    BY DEF AsListed, s, c, x, y
  <2> QED
    BY <1>5, <2>5, <2>6, <2>7
<1> QED
  BY <1>6, <1>7 DEF MaxPacketSize, s, x, y

-----------------------------------------------------------------------------
(* The bytes of every packet, and what they add up to.                     *)

\* A command, whatever the values of its bytes.
Made(b) ==
    /\ b = [o \in 2 .. 45 |-> b[o]]
    /\ \A o \in 2 .. 45 : o \notin Varying => b[o] = Common[o]

\* The bytes in which it differs from others.
Varied(b) == <<b[16], b[17], b[18], b[19], b[23], b[24], b[29],
               b[31], b[32], b[33], b[35], b[36], b[37]>>

\* A byte that is sent once.
Plain(n) == n \in Nat /\ n <= 255 /\ n # Marker

LEMMA CommonMade ==
    /\ Made(Common) /\ DOMAIN Common = 2 .. 45
    /\ \A o \in Varying : Common[o] = IF o = 23 THEN 4 ELSE 0
    /\ Varied(Common) = <<0, 0, 0, 0, 4, 0, 0, 0, 0, 0, 0, 0, 0>>
<1>1. Common \in [2 .. 45 -> 0 .. 255]
  BY CommonBody DEF CommandBody
<1>2. Common = [o \in 2 .. 45 |-> Common[o]] /\ DOMAIN Common = 2 .. 45
  BY <1>1
<1>3. \A o \in Varying : Common[o] = IF o = 23 THEN 4 ELSE 0
  BY CommonBody
<1>4. Varied(Common) = <<0, 0, 0, 0, 4, 0, 0, 0, 0, 0, 0, 0, 0>>
  BY <1>3 DEF Varied, Varying
<1> QED
  BY <1>2, <1>3, <1>4 DEF Made

\* Other values at bytes that vary.
LEMMA MadeWith ==
    ASSUME NEW b, Made(b), NEW o \in Varying, NEW n
    PROVE  Made([b EXCEPT ![o] = n])
<1> DEFINE g == [b EXCEPT ![o] = n]
<1>1. DOMAIN b = 2 .. 45
  BY DEF Made
<1>2. DOMAIN g = 2 .. 45 /\ \A m \in 2 .. 45 : m # o => g[m] = b[m]
  BY <1>1
<1>3. g = [m \in 2 .. 45 |-> g[m]]
  BY <1>1
<1> HIDE DEF g
<1>4. \A m \in 2 .. 45 : m \notin Varying => g[m] = Common[m]
  BY <1>2 DEF Made
<1>5. Made(g)
  BY <1>3, <1>4 DEF Made
<1> QED
  BY <1>5 DEF g

LEMMA AllVary ==
    /\ 16 \in Varying /\ 17 \in Varying /\ 18 \in Varying /\ 19 \in Varying
    /\ 23 \in Varying /\ 24 \in Varying /\ 29 \in Varying /\ 31 \in Varying
    /\ 32 \in Varying /\ 33 \in Varying /\ 35 \in Varying /\ 36 \in Varying
    /\ 37 \in Varying
BY DEF Varying

LEMMA MadeWithFour ==
    ASSUME NEW b, Made(b), NEW o1 \in Varying, NEW o2 \in Varying, NEW o3 \in Varying,
           NEW o4 \in Varying, NEW n1, NEW n2, NEW n3, NEW n4
    PROVE  Made([b EXCEPT ![o1] = n1, ![o2] = n2, ![o3] = n3, ![o4] = n4])
<1> DEFINE c1 == [b EXCEPT ![o1] = n1]
           c2 == [c1 EXCEPT ![o2] = n2]
           c3 == [c2 EXCEPT ![o3] = n3]
           c4 == [c3 EXCEPT ![o4] = n4]
<1>1. Made(c1)
  BY MadeWith
<1> HIDE DEF c1
<1>2. Made(c2)
  BY <1>1, MadeWith
<1> HIDE DEF c2
<1>3. Made(c3)
  BY <1>2, MadeWith
<1> HIDE DEF c3
<1>4. Made(c4)
  BY <1>3, MadeWith
<1> QED
  BY <1>4 DEF c1, c2, c3

LEMMA ModeMade ==
    ASSUME NEW mode, NEW fan, NEW setpoint, NEW b, b = ModeBytes(mode, fan, setpoint)
    PROVE  /\ Made(b)
           /\ Varied(b) = <<fan, 1, mode, setpoint, 4, 0, 0, 16, 1, 4, 16, 0, 0>>
<1>1. Made(b)
  <2> DEFINE c == [Common EXCEPT ![16] = fan, ![17] = 1, ![18] = mode, ![19] = setpoint]
             d == [c EXCEPT ![31] = 16]
             e == [d EXCEPT ![32] = 1]
             f == [e EXCEPT ![33] = 4]
  <2>1. Made(c)
    BY AllVary, CommonMade, MadeWithFour
  <2> HIDE DEF c
  <2>2. Made(d)
    BY <2>1, AllVary, MadeWith
  <2> HIDE DEF d
  <2>3. Made(e)
    BY <2>2, AllVary, MadeWith
  <2> HIDE DEF e
  <2>4. Made(f)
    BY <2>3, AllVary, MadeWith
  <2> HIDE DEF f
  <2>5. Made([f EXCEPT ![35] = 16])
    BY <2>4, AllVary, MadeWith
  <2> QED
    BY <2>5 DEF c, d, e, f, ModeBytes
<1>2. Varied(b) = <<fan, 1, mode, setpoint, 4, 0, 0, 16, 1, 4, 16, 0, 0>>
  BY CommonMade DEF Varied, ModeBytes, Varying
<1> QED
  BY <1>1, <1>2

LEMMA OffMade ==
    ASSUME NEW b, b = OffBytes
    PROVE  Made(b) /\ Varied(b) = <<0, 1, 4, 0, 4, 1, 1, 0, 1, 85, 1, 0, 0>>
<1>1. Made(b)
  <2> DEFINE c == [Common EXCEPT ![17] = 1, ![18] = 4, ![24] = 1, ![29] = 1]
             d == [c EXCEPT ![32] = 1]
             e == [d EXCEPT ![33] = 85]
  <2>1. Made(c)
    BY AllVary, CommonMade, MadeWithFour
  <2> HIDE DEF c
  <2>2. Made(d)
    BY <2>1, AllVary, MadeWith
  <2> HIDE DEF d
  <2>3. Made(e)
    BY <2>2, AllVary, MadeWith
  <2> HIDE DEF e
  <2>4. Made([e EXCEPT ![35] = 1])
    BY <2>3, AllVary, MadeWith
  <2> QED
    BY <2>4 DEF c, d, e, OffBytes
<1>2. Varied(b) = <<0, 1, 4, 0, 4, 1, 1, 0, 1, 85, 1, 0, 0>>
  BY CommonMade DEF Varied, Varying, OffBytes
<1> QED
  BY <1>1, <1>2

LEMMA FanMade ==
    ASSUME NEW fan, NEW position, NEW b, b = FanBytes(fan, position)
    PROVE  Made(b) /\ Varied(b) = <<fan, 1, 0, 0, 4, 0, 0, 0, 0, 4, position, 0, 0>>
<1>1. Made(b)
  <2>1. \A f : DOMAIN f = 2 .. 45 =>
           LET g == [f EXCEPT ![16] = fan, ![17] = 1, ![33] = 4,
                              ![35] = position]
           IN  g = [o \in 2 .. 45 |-> g[o]]
    OBVIOUS
  <2>2. \A f : DOMAIN f = 2 .. 45 =>
           LET g == [f EXCEPT ![16] = fan, ![17] = 1, ![33] = 4,
                              ![35] = position]
           IN  \A o \in 2 .. 45 : o \notin Varying => g[o] = f[o]
    BY DEF Varying
  <2> QED
    BY <2>1, <2>2, CommonMade DEF Made, FanBytes
<1>2. Varied(b) = <<fan, 1, 0, 0, 4, 0, 0, 0, 0, 4, position, 0, 0>>
  BY CommonMade DEF Varied, Varying, FanBytes
<1> QED
  BY <1>1, <1>2

LEMMA TurboMade ==
    ASSUME NEW turbo, NEW b, b = TurboBytes(turbo)
    PROVE  Made(b) /\ Varied(b) = <<1, 1, 0, 0, 4, 0, 0, 0, 0, turbo, 16, 0, 0>>
<1>1. Made(b)
  <2>1. \A f : DOMAIN f = 2 .. 45 =>
           LET g == [f EXCEPT ![16] = 1, ![17] = 1, ![33] = turbo,
                              ![35] = 16]
           IN  g = [o \in 2 .. 45 |-> g[o]]
    OBVIOUS
  <2>2. \A f : DOMAIN f = 2 .. 45 =>
           LET g == [f EXCEPT ![16] = 1, ![17] = 1, ![33] = turbo,
                              ![35] = 16]
           IN  \A o \in 2 .. 45 : o \notin Varying => g[o] = f[o]
    BY DEF Varying
  <2> QED
    BY <2>1, <2>2, CommonMade DEF Made, TurboBytes
<1>2. Varied(b) = <<1, 1, 0, 0, 4, 0, 0, 0, 0, turbo, 16, 0, 0>>
  BY CommonMade DEF Varied, Varying, TurboBytes
<1> QED
  BY <1>1, <1>2

LEMMA VerticalStopsMade ==
    ASSUME NEW b, b = [Common EXCEPT ![31] = 1, ![32] = 64]
    PROVE  Made(b) /\ Varied(b) = <<0, 0, 0, 0, 4, 0, 0, 1, 64, 0, 0, 0, 0>>
<1>1. Made(b)
  <2>1. \A f : DOMAIN f = 2 .. 45 =>
           LET g == [f EXCEPT ![31] = 1, ![32] = 64]
           IN  g = [o \in 2 .. 45 |-> g[o]]
    OBVIOUS
  <2>2. \A f : DOMAIN f = 2 .. 45 =>
           LET g == [f EXCEPT ![31] = 1, ![32] = 64]
           IN  \A o \in 2 .. 45 : o \notin Varying => g[o] = f[o]
    BY DEF Varying
  <2> QED
    BY <2>1, <2>2, CommonMade DEF Made
<1>2. Varied(b) = <<0, 0, 0, 0, 4, 0, 0, 1, 64, 0, 0, 0, 0>>
  BY CommonMade DEF Varied, Varying
<1> QED
  BY <1>1, <1>2

LEMMA VerticalMovesMade ==
    ASSUME NEW b, b = [Common EXCEPT ![31] = 1, ![32] = 192]
    PROVE  Made(b) /\ Varied(b) = <<0, 0, 0, 0, 4, 0, 0, 1, 192, 0, 0, 0, 0>>
<1>1. Made(b)
  <2>1. \A f : DOMAIN f = 2 .. 45 =>
           LET g == [f EXCEPT ![31] = 1, ![32] = 192]
           IN  g = [o \in 2 .. 45 |-> g[o]]
    OBVIOUS
  <2>2. \A f : DOMAIN f = 2 .. 45 =>
           LET g == [f EXCEPT ![31] = 1, ![32] = 192]
           IN  \A o \in 2 .. 45 : o \notin Varying => g[o] = f[o]
    BY DEF Varying
  <2> QED
    BY <2>1, <2>2, CommonMade DEF Made
<1>2. Varied(b) = <<0, 0, 0, 0, 4, 0, 0, 1, 192, 0, 0, 0, 0>>
  BY CommonMade DEF Varied, Varying
<1> QED
  BY <1>1, <1>2

LEMMA HorizontalStopsMade ==
    ASSUME NEW b, b = [Common EXCEPT ![32] = 16, ![37] = 20]
    PROVE  Made(b) /\ Varied(b) = <<0, 0, 0, 0, 4, 0, 0, 0, 16, 0, 0, 0, 20>>
<1>1. Made(b)
  <2>1. \A f : DOMAIN f = 2 .. 45 =>
           LET g == [f EXCEPT ![32] = 16, ![37] = 20]
           IN  g = [o \in 2 .. 45 |-> g[o]]
    OBVIOUS
  <2>2. \A f : DOMAIN f = 2 .. 45 =>
           LET g == [f EXCEPT ![32] = 16, ![37] = 20]
           IN  \A o \in 2 .. 45 : o \notin Varying => g[o] = f[o]
    BY DEF Varying
  <2> QED
    BY <2>1, <2>2, CommonMade DEF Made
<1>2. Varied(b) = <<0, 0, 0, 0, 4, 0, 0, 0, 16, 0, 0, 0, 20>>
  BY CommonMade DEF Varied, Varying
<1> QED
  BY <1>1, <1>2

LEMMA HorizontalMovesMade ==
    ASSUME NEW b, b = [Common EXCEPT ![32] = 48, ![37] = 20]
    PROVE  Made(b) /\ Varied(b) = <<0, 0, 0, 0, 4, 0, 0, 0, 48, 0, 0, 0, 20>>
<1>1. Made(b)
  <2>1. \A f : DOMAIN f = 2 .. 45 =>
           LET g == [f EXCEPT ![32] = 48, ![37] = 20]
           IN  g = [o \in 2 .. 45 |-> g[o]]
    OBVIOUS
  <2>2. \A f : DOMAIN f = 2 .. 45 =>
           LET g == [f EXCEPT ![32] = 48, ![37] = 20]
           IN  \A o \in 2 .. 45 : o \notin Varying => g[o] = f[o]
    BY DEF Varying
  <2> QED
    BY <2>1, <2>2, CommonMade DEF Made
<1>2. Varied(b) = <<0, 0, 0, 0, 4, 0, 0, 0, 48, 0, 0, 0, 20>>
  BY CommonMade DEF Varied, Varying
<1> QED
  BY <1>1, <1>2

LEMMA OneMade ==
    ASSUME NEW o \in Varying, NEW n, NEW b, b = With(o, n)
    PROVE  /\ Made(b)
           /\ o = 18 => Varied(b) = <<0, 0, n, 0, 4, 0, 0, 0, 0, 0, 0, 0, 0>>
           /\ o = 19 => Varied(b) = <<0, 0, 0, n, 4, 0, 0, 0, 0, 0, 0, 0, 0>>
           /\ o = 23 => Varied(b) = <<0, 0, 0, 0, n, 0, 0, 0, 0, 0, 0, 0, 0>>
           /\ o = 33 => Varied(b) = <<0, 0, 0, 0, 4, 0, 0, 0, 0, n, 0, 0, 0>>
           /\ o = 36 => Varied(b) = <<0, 0, 0, 0, 4, 0, 0, 0, 0, 0, 0, n, 0>>
<1>1. Made(b)
  BY CommonMade, MadeWith DEF With
<1>2. \A m \in Varying : b[m] = IF m = o THEN n ELSE IF m = 23 THEN 4 ELSE 0
  <2>1. \A m \in Varying : m \in 2 .. 45
    BY DEF Varying
  <2> QED
    BY <2>1, CommonMade DEF With
<1> QED
  BY <1>1, <1>2, AllVary DEF Varied

\* The bytes that vary are all that matters.
LEMMA SameMade ==
    ASSUME NEW b, NEW c, Made(b), Made(c), Varied(b) = Varied(c)
    PROVE  b = c
<1>1. \A o \in Varying : b[o] = c[o]
  BY DEF Varied, Varying
<1>2. \A o \in 2 .. 45 : b[o] = c[o]
  BY <1>1 DEF Made
<1> QED
  BY <1>2 DEF Made

LEMMA SumOf ==
    ASSUME NEW b, Made(b), NEW v1, NEW v2, NEW v3, NEW v4, NEW v5, NEW v6, NEW v7,
           NEW v8, NEW v9, NEW v10, NEW v11, NEW v12, NEW v13,
           Varied(b) = <<v1, v2, v3, v4, v5, v6, v7, v8, v9, v10, v11, v12, v13>>,
           Plain(v1), Plain(v2), Plain(v3), Plain(v4), Plain(v5), Plain(v6), Plain(v7),
           Plain(v8), Plain(v9), Plain(v10), Plain(v11), Plain(v12), Plain(v13)
    PROVE  /\ CommandBody(b)
           /\ Total(b) = 463 + v1 + v2 + v3 + v4 + v5 + v6 + v7
                             + v8 + v9 + v10 + v11 + v12 + v13
<1>1. /\ b[16] = v1 /\ b[17] = v2 /\ b[18] = v3 /\ b[19] = v4 /\ b[23] = v5
      /\ b[24] = v6 /\ b[29] = v7 /\ b[31] = v8 /\ b[32] = v9 /\ b[33] = v10
      /\ b[35] = v11 /\ b[36] = v12 /\ b[37] = v13
  BY DEF Varied
<1>2. \A o \in Varying : Plain(b[o])
  BY <1>1 DEF Varying
<1>3. \A n : Plain(n) => n \in 0 .. 255 /\ n # Marker
  BY DEF Plain
<1>4. \A o \in 2 .. 45 : o \notin Varying => b[o] \in 0 .. 255 /\ b[o] # Marker
  <2>1. \A o \in 2 .. 45 : Common[o] \in 0 .. 255 /\ Common[o] # Marker
    <3> DEFINE c == Common
    <3>1. CommandBody(c)
      BY CommonBody
    <3> HIDE DEF c
    <3>2. \A o \in 2 .. 45 : c[o] \in 0 .. 255 /\ c[o] # Marker
      BY <3>1 DEF CommandBody
    <3> QED
      BY <3>2 DEF c
  <2> QED
    BY <2>1 DEF Made
<1>5. \A o \in 2 .. 45 : b[o] \in 0 .. 255 /\ b[o] # Marker
  BY <1>2, <1>3, <1>4
<1>6. CommandBody(b)
  BY <1>5 DEF Made, CommandBody
<1>7. Total(b) = 463 + v1 + v2 + v3 + v4 + v5 + v6 + v7
                     + v8 + v9 + v10 + v11 + v12 + v13
  BY <1>1 DEF Total
<1> QED
  BY <1>6, <1>7

-----------------------------------------------------------------------------
(* The packets, one kind at a time.                                        *)

\* A packet that is kept as a constant, and one that is encoded.
LEMMA ListedIsWell ==
    ASSUME NEW p, ~ Dynamic(p), NEW b, NEW sum, Listing(p) = Listed(b, sum),
           CommandBody(b), Total(b) = sum, sum \div 256 # Marker, sum % 256 # Marker
    PROVE  Well(p)
<1>1. Body(p) = b /\ Listing(p)[2] = sum /\ p.setter # "swing"
  BY DEF Body, Dynamic, Listed
<1>2. OnWire(p) = AsListed(b, sum)
  BY <1>1 DEF OnWire
<1>3. Wire(Sequence(b)) = AsListed(b, sum) /\ Len(Wire(Sequence(b))) <= MaxPacketSize
  BY CommandWire
<1> QED
  BY <1>1, <1>2, <1>3 DEF Well

LEMMA EncodedIsWell ==
    ASSUME NEW p, Dynamic(p), CommandBody(Body(p)), p.setter # "swing"
    PROVE  Well(p)
<1>1. OnWire(p) = Wire(Sequence(Body(p)))
  BY DEF OnWire
<1>2. Len(Wire(Sequence(Body(p)))) <= MaxPacketSize
  BY CommandWire
<1> QED
  BY <1>1, <1>2 DEF Well

LEMMA ModeIsWell ==
    ASSUME NEW p, p.setter = "mode", p.value \in Mode
    PROVE  Well(p)
<1>1. Listing(p) = ModeList[p.value + 1] /\ ~ Dynamic(p)
  BY DEF Listing, Dynamic
<1>2. CASE p.value = 0
  <2> DEFINE b == ModeBytes(16, 7, 51)
  <2>1. Listing(p) = Listed(b, 579)
    BY <1>1, <1>2 DEF ModeList
  <2>2. Made(b) /\ Varied(b) = <<7, 1, 16, 51, 4, 0, 0, 16, 1, 4, 16, 0, 0>>
    BY ModeMade
  <2> HIDE DEF b
  <2>3. CommandBody(b) /\ Total(b) = 579
    BY <2>2, SumOf DEF Plain, Marker
  <2> QED
    BY <1>1, <2>1, <2>3, ListedIsWell DEF Marker
<1>3. CASE p.value = 1
  <2> DEFINE b == ModeBytes(48, 1, 47)
  <2>1. Listing(p) = Listed(b, 601)
    BY <1>1, <1>3 DEF ModeList
  <2>2. Made(b) /\ Varied(b) = <<1, 1, 48, 47, 4, 0, 0, 16, 1, 4, 16, 0, 0>>
    BY ModeMade
  <2> HIDE DEF b
  <2>3. CommandBody(b) /\ Total(b) = 601
    BY <2>2, SumOf DEF Plain, Marker
  <2> QED
    BY <1>1, <2>1, <2>3, ListedIsWell DEF Marker
<1>4. CASE p.value = 2
  <2> DEFINE b == ModeBytes(80, 1, 53)
  <2>1. Listing(p) = Listed(b, 639)
    BY <1>1, <1>4 DEF ModeList
  <2>2. Made(b) /\ Varied(b) = <<1, 1, 80, 53, 4, 0, 0, 16, 1, 4, 16, 0, 0>>
    BY ModeMade
  <2> HIDE DEF b
  <2>3. CommandBody(b) /\ Total(b) = 639
    BY <2>2, SumOf DEF Plain, Marker
  <2> QED
    BY <1>1, <2>1, <2>3, ListedIsWell DEF Marker
<1>5. CASE p.value = 3
  <2> DEFINE b == ModeBytes(112, 1, 51)
  <2>1. Listing(p) = Listed(b, 669)
    BY <1>1, <1>5 DEF ModeList
  <2>2. Made(b) /\ Varied(b) = <<1, 1, 112, 51, 4, 0, 0, 16, 1, 4, 16, 0, 0>>
    BY ModeMade
  <2> HIDE DEF b
  <2>3. CommandBody(b) /\ Total(b) = 669
    BY <2>2, SumOf DEF Plain, Marker
  <2> QED
    BY <1>1, <2>1, <2>3, ListedIsWell DEF Marker
<1>6. CASE p.value = 4
  <2> DEFINE b == OffBytes
  <2>1. Listing(p) = Listed(b, 561)
    BY <1>1, <1>6 DEF ModeList
  <2>2. Made(b) /\ Varied(b) = <<0, 1, 4, 0, 4, 1, 1, 0, 1, 85, 1, 0, 0>>
    BY OffMade
  <2> HIDE DEF b
  <2>3. CommandBody(b) /\ Total(b) = 561
    BY <2>2, SumOf DEF Plain, Marker
  <2> QED
    BY <1>1, <2>1, <2>3, ListedIsWell DEF Marker
<1>7. p.value \in {0, 1, 2, 3, 4}
  BY DEF Mode, ModeOff
<1> QED
  BY <1>2, <1>3, <1>4, <1>5, <1>6, <1>7

LEMMA FanIsWell ==
    ASSUME NEW p, p.setter = "fan", p.value \in Fan
    PROVE  Well(p)
<1>1. Listing(p) = FanList(p.value) /\ ~ Dynamic(p)
  BY DEF Listing, Dynamic
<1>2. CASE p.value = 0
  <2> DEFINE b == FanBytes(1, 16)
  <2>1. Listing(p) = Listed(b, 489)
    BY <1>1, <1>2 DEF FanList
  <2>2. Made(b) /\ Varied(b) = <<1, 1, 0, 0, 4, 0, 0, 0, 0, 4, 16, 0, 0>>
    BY FanMade
  <2> HIDE DEF b
  <2>3. CommandBody(b) /\ Total(b) = 489
    BY <2>2, SumOf DEF Plain, Marker
  <2> QED
    BY <1>1, <2>1, <2>3, ListedIsWell DEF Marker
<1>3. CASE p.value = 2
  <2> DEFINE b == FanBytes(3, 48)
  <2>1. Listing(p) = Listed(b, 523)
    BY <1>1, <1>3 DEF FanList
  <2>2. Made(b) /\ Varied(b) = <<3, 1, 0, 0, 4, 0, 0, 0, 0, 4, 48, 0, 0>>
    BY FanMade
  <2> HIDE DEF b
  <2>3. CommandBody(b) /\ Total(b) = 523
    BY <2>2, SumOf DEF Plain, Marker
  <2> QED
    BY <1>1, <2>1, <2>3, ListedIsWell DEF Marker
<1>4. CASE p.value = 10
  <2> DEFINE b == FanBytes(5, 16)
  <2>1. Listing(p) = Listed(b, 493)
    BY <1>1, <1>4 DEF FanList
  <2>2. Made(b) /\ Varied(b) = <<5, 1, 0, 0, 4, 0, 0, 0, 0, 4, 16, 0, 0>>
    BY FanMade
  <2> HIDE DEF b
  <2>3. CommandBody(b) /\ Total(b) = 493
    BY <2>2, SumOf DEF Plain, Marker
  <2> QED
    BY <1>1, <2>1, <2>3, ListedIsWell DEF Marker
<1>5. CASE p.value = 14
  <2> DEFINE b == FanBytes(7, 16)
  <2>1. Listing(p) = Listed(b, 495)
    BY <1>1, <1>5 DEF FanList
  <2>2. Made(b) /\ Varied(b) = <<7, 1, 0, 0, 4, 0, 0, 0, 0, 4, 16, 0, 0>>
    BY FanMade
  <2> HIDE DEF b
  <2>3. CommandBody(b) /\ Total(b) = 495
    BY <2>2, SumOf DEF Plain, Marker
  <2> QED
    BY <1>1, <2>1, <2>3, ListedIsWell DEF Marker
<1>6. CASE p.value = 18
  <2> DEFINE b == FanBytes(9, 16)
  <2>1. Listing(p) = Listed(b, 497)
    BY <1>1, <1>6 DEF FanList
  <2>2. Made(b) /\ Varied(b) = <<9, 1, 0, 0, 4, 0, 0, 0, 0, 4, 16, 0, 0>>
    BY FanMade
  <2> HIDE DEF b
  <2>3. CommandBody(b) /\ Total(b) = 497
    BY <2>2, SumOf DEF Plain, Marker
  <2> QED
    BY <1>1, <2>1, <2>3, ListedIsWell DEF Marker
<1> QED
  BY <1>2, <1>3, <1>4, <1>5, <1>6 DEF Fan

LEMMA PresetIsWell ==
    ASSUME NEW p, p.setter = "preset", p.value \in Preset
    PROVE  Well(p)
<1>1. Listing(p) = PresetList[p.value + 1] /\ ~ Dynamic(p)
  BY DEF Listing, Dynamic
<1>2. CASE p.value = 0
  <2> DEFINE b == TurboBytes(84)
  <2>1. Listing(p) = Listed(b, 569)
    BY <1>1, <1>2 DEF PresetList
  <2>2. Made(b) /\ Varied(b) = <<1, 1, 0, 0, 4, 0, 0, 0, 0, 84, 16, 0, 0>>
    BY TurboMade
  <2> HIDE DEF b
  <2>3. CommandBody(b) /\ Total(b) = 569
    BY <2>2, SumOf DEF Plain, Marker
  <2> QED
    BY <1>1, <2>1, <2>3, ListedIsWell DEF Marker
<1>3. CASE p.value = 1
  <2> DEFINE b == TurboBytes(92)
  <2>1. Listing(p) = Listed(b, 577)
    BY <1>1, <1>3 DEF PresetList
  <2>2. Made(b) /\ Varied(b) = <<1, 1, 0, 0, 4, 0, 0, 0, 0, 92, 16, 0, 0>>
    BY TurboMade
  <2> HIDE DEF b
  <2>3. CommandBody(b) /\ Total(b) = 577
    BY <2>2, SumOf DEF Plain, Marker
  <2> QED
    BY <1>1, <2>1, <2>3, ListedIsWell DEF Marker
<1>4. CASE p.value = 2
  <2> DEFINE b == With(33, 52)
  <2>1. Listing(p) = Listed(b, 519)
    BY <1>1, <1>4 DEF PresetList
  <2>2. Made(b) /\ Varied(b) = <<0, 0, 0, 0, 4, 0, 0, 0, 0, 52, 0, 0, 0>>
    BY OneMade DEF Varying
  <2> HIDE DEF b
  <2>3. CommandBody(b) /\ Total(b) = 519
    BY <2>2, SumOf DEF Plain, Marker
  <2> QED
    BY <1>1, <2>1, <2>3, ListedIsWell DEF Marker
<1>5. p.value \in {0, 1, 2}
  BY DEF Preset
<1> QED
  BY <1>2, <1>3, <1>4, <1>5

LEMMA DisplayIsWell ==
    ASSUME NEW p, p.setter = "display", p.value \in 0 .. 1
    PROVE  Well(p)
<1>1. Listing(p) = DisplayList[p.value + 1] /\ ~ Dynamic(p)
  BY DEF Listing, Dynamic
<1>2. CASE p.value = 0
  <2> DEFINE b == With(36, 64)
  <2>1. Listing(p) = Listed(b, 531)
    BY <1>1, <1>2 DEF DisplayList
  <2>2. Made(b) /\ Varied(b) = <<0, 0, 0, 0, 4, 0, 0, 0, 0, 0, 0, 64, 0>>
    BY OneMade DEF Varying
  <2> HIDE DEF b
  <2>3. CommandBody(b) /\ Total(b) = 531
    BY <2>2, SumOf DEF Plain, Marker
  <2> QED
    BY <1>1, <2>1, <2>3, ListedIsWell DEF Marker
<1>3. CASE p.value = 1
  <2> DEFINE b == With(36, 192)
  <2>1. Listing(p) = Listed(b, 659)
    BY <1>1, <1>3 DEF DisplayList
  <2>2. Made(b) /\ Varied(b) = <<0, 0, 0, 0, 4, 0, 0, 0, 0, 0, 0, 192, 0>>
    BY OneMade DEF Varying
  <2> HIDE DEF b
  <2>3. CommandBody(b) /\ Total(b) = 659
    BY <2>2, SumOf DEF Plain, Marker
  <2> QED
    BY <1>1, <2>1, <2>3, ListedIsWell DEF Marker
<1>4. p.value \in {0, 1}
  OBVIOUS
<1> QED
  BY <1>2, <1>3, <1>4

LEMMA SimpleIsWell ==
    ASSUME NEW p, p.setter \in {"on", "ecoOff"}
    PROVE  Well(p)
<1>1. ~ Dynamic(p)
  BY DEF Dynamic
<1>2. CASE p.setter = "on"
  <2> DEFINE b == With(18, 12)
  <2>1. Listing(p) = Listed(b, 479)
    BY <1>2 DEF Listing
  <2>2. Made(b) /\ Varied(b) = <<0, 0, 12, 0, 4, 0, 0, 0, 0, 0, 0, 0, 0>>
    BY OneMade DEF Varying
  <2> HIDE DEF b
  <2>3. CommandBody(b) /\ Total(b) = 479
    BY <2>2, SumOf DEF Plain, Marker
  <2> QED
    BY <1>1, <2>1, <2>3, ListedIsWell DEF Marker
<1>3. CASE p.setter = "ecoOff"
  <2> DEFINE b == With(33, 20)
  <2>1. Listing(p) = Listed(b, 487)
    BY <1>3 DEF Listing
  <2>2. Made(b) /\ Varied(b) = <<0, 0, 0, 0, 4, 0, 0, 0, 0, 20, 0, 0, 0>>
    BY OneMade DEF Varying
  <2> HIDE DEF b
  <2>3. CommandBody(b) /\ Total(b) = 487
    BY <2>2, SumOf DEF Plain, Marker
  <2> QED
    BY <1>1, <2>1, <2>3, ListedIsWell DEF Marker
<1> QED
  BY <1>2, <1>3

LEMMA TemperatureIsWell ==
    ASSUME NEW p, p.setter = "temperature", p.value \in Minimum .. Maximum
    PROVE  Well(p)
<1> DEFINE b == With(19, 2 * p.value + 1)
           n == 2 * p.value + 1
<1>1. Body(p) = b /\ Dynamic(p)
  BY DEF Body, TemperatureBytes, Dynamic
<1>2. p.value \in Nat /\ p.value <= 90
  BY UnitAssumption DEF Minimum, Maximum
<1>3. Plain(n)
  BY <1>2 DEF Plain, Marker
<1>4. Made(b) /\ Varied(b) = <<0, 0, 0, n, 4, 0, 0, 0, 0, 0, 0, 0, 0>>
  BY OneMade DEF Varying
<1> HIDE DEF b, n
<1>5. Plain(0) /\ Plain(4)
  BY DEF Plain, Marker
<1>6. CommandBody(b)
  BY <1>3, <1>4, <1>5, SumOf
<1> QED
  BY <1>1, <1>6, EncodedIsWell

LEMMA DryOffsetIsWell ==
    ASSUME NEW p, p.setter = "dryOffset", \E k \in Offset : p.value = Nibble(k)
    PROVE  Well(p)
<1> DEFINE b == With(23, p.value * 16 + 12)
           n == p.value * 16 + 12
<1>1. Body(p) = b /\ Dynamic(p)
  BY DEF Body, DryOffsetBytes, Dynamic
<1>2. p.value \in Nat /\ p.value <= 15
  BY DEF Offset, Nibble
<1>3. Plain(n)
  BY <1>2 DEF Plain, Marker
<1>4. Made(b) /\ Varied(b) = <<0, 0, 0, 0, n, 0, 0, 0, 0, 0, 0, 0, 0>>
  BY OneMade DEF Varying
<1> HIDE DEF b, n
<1>5. Plain(0)
  BY DEF Plain, Marker
<1>6. CommandBody(b)
  BY <1>3, <1>4, <1>5, SumOf
<1> QED
  BY <1>1, <1>6, EncodedIsWell

\* A swing packet with another value at the byte of both axes.
LEMMA StoppedMade ==
    ASSUME NEW b, Made(b), NEW n, NEW k, NEW c, c = [b EXCEPT ![32] = n],
           NEW v8, NEW v13, Varied(b) = <<0, 0, 0, 0, 4, 0, 0, v8, k, 0, 0, 0, v13>>
    PROVE  Made(c) /\ Varied(c) = <<0, 0, 0, 0, 4, 0, 0, v8, n, 0, 0, 0, v13>>
<1>1. 32 \in Varying
  BY DEF Varying
<1>2. Made(c)
  BY <1>1, MadeWith
<1>3. DOMAIN b = 2 .. 45
  BY DEF Made
<1>4. Varied(c) = <<0, 0, 0, 0, 4, 0, 0, v8, n, 0, 0, 0, v13>>
  BY <1>3 DEF Varied
<1> QED
  BY <1>2, <1>4

\* The packets of the axes.
HorStopped  == [Common EXCEPT ![32] = 16, ![37] = 20]
HorMoving   == [Common EXCEPT ![32] = 48, ![37] = 20]
VertStopped == [Common EXCEPT ![31] = 1, ![32] = 64]
VertMoving  == [Common EXCEPT ![31] = 1, ![32] = 192]

LEMMA SwingBodies ==
    /\ SwingBytes(Horizontal, 0) = HorStopped
    /\ SwingBytes(Horizontal, 1) = HorMoving
    /\ SwingBytes(Vertical, 0) = VertStopped
    /\ SwingBytes(Vertical, 1) = VertMoving
<1>1. /\ Made(HorSwing)
      /\ Varied(HorSwing) = <<0, 0, 0, 0, 4, 0, 0, 0, 48, 0, 0, 0, 20>>
  BY HorizontalMovesMade DEF HorSwing
<1>2. /\ Made(VertSwing)
      /\ Varied(VertSwing) = <<0, 0, 0, 0, 4, 0, 0, 1, 192, 0, 0, 0, 0>>
  BY VerticalMovesMade DEF VertSwing
<1>3. HorSwing[32] = 48 /\ VertSwing[32] = 192
  BY <1>1, <1>2 DEF Varied
<1>4. /\ SwingBytes(Horizontal, 0) = [HorSwing EXCEPT ![32] = 16]
      /\ SwingBytes(Horizontal, 1) = [HorSwing EXCEPT ![32] = 48]
  <2>1. /\ SwingBytes(Horizontal, 0) = [HorSwing EXCEPT ![32] = HorSwing[32] - 32]
        /\ SwingBytes(Horizontal, 1) = [HorSwing EXCEPT ![32] = HorSwing[32]]
    BY DEF SwingBytes, Horizontal, Vertical
  <2>2. HorSwing[32] - 32 = 16 /\ HorSwing[32] = 48
    BY <1>3
  <2> QED
    BY <2>1, <2>2
<1>5. /\ SwingBytes(Vertical, 0) = [VertSwing EXCEPT ![32] = 64]
      /\ SwingBytes(Vertical, 1) = [VertSwing EXCEPT ![32] = 192]
  <2>1. /\ SwingBytes(Vertical, 0) = [VertSwing EXCEPT ![32] = VertSwing[32] - 128]
        /\ SwingBytes(Vertical, 1) = [VertSwing EXCEPT ![32] = VertSwing[32]]
    BY DEF SwingBytes, Horizontal, Vertical
  <2>2. VertSwing[32] - 128 = 64 /\ VertSwing[32] = 192
    BY <1>3
  <2> QED
    BY <2>1, <2>2
<1>6. SwingBytes(Horizontal, 0) = HorStopped
  <2> DEFINE b == SwingBytes(Horizontal, 0)
             c == HorStopped
  <2>1. Made(b) /\ Varied(b) = <<0, 0, 0, 0, 4, 0, 0, 0, 16, 0, 0, 0, 20>>
    BY <1>1, <1>4, StoppedMade
  <2>2. Made(c) /\ Varied(c) = <<0, 0, 0, 0, 4, 0, 0, 0, 16, 0, 0, 0, 20>>
    BY HorizontalStopsMade DEF HorStopped
  <2> HIDE DEF b, c
  <2>3. b = c
    BY <2>1, <2>2, SameMade
  <2> QED
    BY <2>3 DEF b, c
<1>7. SwingBytes(Horizontal, 1) = HorMoving
  <2> DEFINE b == SwingBytes(Horizontal, 1)
             c == HorMoving
  <2>1. Made(b) /\ Varied(b) = <<0, 0, 0, 0, 4, 0, 0, 0, 48, 0, 0, 0, 20>>
    BY <1>1, <1>4, StoppedMade
  <2>2. Made(c) /\ Varied(c) = <<0, 0, 0, 0, 4, 0, 0, 0, 48, 0, 0, 0, 20>>
    BY HorizontalMovesMade DEF HorMoving
  <2> HIDE DEF b, c
  <2>3. b = c
    BY <2>1, <2>2, SameMade
  <2> QED
    BY <2>3 DEF b, c
<1>8. SwingBytes(Vertical, 0) = VertStopped
  <2> DEFINE b == SwingBytes(Vertical, 0)
             c == VertStopped
  <2>1. Made(b) /\ Varied(b) = <<0, 0, 0, 0, 4, 0, 0, 1, 64, 0, 0, 0, 0>>
    BY <1>2, <1>5, StoppedMade
  <2>2. Made(c) /\ Varied(c) = <<0, 0, 0, 0, 4, 0, 0, 1, 64, 0, 0, 0, 0>>
    BY VerticalStopsMade DEF VertStopped
  <2> HIDE DEF b, c
  <2>3. b = c
    BY <2>1, <2>2, SameMade
  <2> QED
    BY <2>3 DEF b, c
<1>9. SwingBytes(Vertical, 1) = VertMoving
  <2> DEFINE b == SwingBytes(Vertical, 1)
             c == VertMoving
  <2>1. Made(b) /\ Varied(b) = <<0, 0, 0, 0, 4, 0, 0, 1, 192, 0, 0, 0, 0>>
    BY <1>2, <1>5, StoppedMade
  <2>2. Made(c) /\ Varied(c) = <<0, 0, 0, 0, 4, 0, 0, 1, 192, 0, 0, 0, 0>>
    BY VerticalMovesMade DEF VertMoving
  <2> HIDE DEF b, c
  <2>3. b = c
    BY <2>1, <2>2, SameMade
  <2> QED
    BY <2>3 DEF b, c
<1> QED
  BY <1>6, <1>7, <1>8, <1>9

LEMMA SwingIsWell ==
    ASSUME NEW p, p.setter = "swing", p.value \in {1, 2, 5, 6}
    PROVE  Well(p)
<1> DEFINE b == Body(p)
           axis == p.value % 4
<1>1. b = SwingBytes(axis, p.value \div 4) /\ Dynamic(p)
  BY DEF Body, Dynamic
<1>2. /\ p.value = 1 => axis = Horizontal /\ p.value \div 4 = 0
      /\ p.value = 5 => axis = Horizontal /\ p.value \div 4 = 1
      /\ p.value = 2 => axis = Vertical /\ p.value \div 4 = 0
      /\ p.value = 6 => axis = Vertical /\ p.value \div 4 = 1
  BY DEF Horizontal, Vertical
<1>3. /\ p.value = 1 => b = HorStopped
      /\ p.value = 5 => b = HorMoving
      /\ p.value = 2 => b = VertStopped
      /\ p.value = 6 => b = VertMoving
  BY <1>1, <1>2, SwingBodies
<1> HIDE DEF b, axis
<1>4. OnWire(p) = Wire(Sequence(b))
  BY <1>1 DEF OnWire, b
<1>5. CASE p.value = 1
  <2>1. Made(b) /\ Varied(b) = <<0, 0, 0, 0, 4, 0, 0, 0, 16, 0, 0, 0, 20>>
    BY <1>3, <1>5, HorizontalStopsMade DEF HorStopped
  <2>2. CommandBody(b) /\ Total(b) = 503
    BY <2>1, SumOf DEF Plain, Marker
  <2>3. Wire(Sequence(b)) = AsListed(b, 503) /\ Len(Wire(Sequence(b))) <= MaxPacketSize
    BY <2>2, CommandWire DEF Marker
  <2>4. FixedDirection[axis] = AsListed(b, 503)
    <3>1. axis = Horizontal /\ b = HorStopped
      BY <1>2, <1>3, <1>5
    <3> QED
      BY <3>1 DEF FixedDirection, HorStopped, Horizontal, Vertical
  <2> QED
    BY <1>4, <2>3, <2>4 DEF Well, b, axis
<1>6. CASE p.value = 5
  <2>1. Made(b) /\ Varied(b) = <<0, 0, 0, 0, 4, 0, 0, 0, 48, 0, 0, 0, 20>>
    BY <1>3, <1>6, HorizontalMovesMade DEF HorMoving
  <2>2. CommandBody(b) /\ Total(b) = 535
    BY <2>1, SumOf DEF Plain, Marker
  <2>3. Len(Wire(Sequence(b))) <= MaxPacketSize
    BY <2>2, CommandWire
  <2> QED
    BY <1>2, <1>4, <1>6, <2>3 DEF Well, b
<1>7. CASE p.value = 2
  <2>1. Made(b) /\ Varied(b) = <<0, 0, 0, 0, 4, 0, 0, 1, 64, 0, 0, 0, 0>>
    BY <1>3, <1>7, VerticalStopsMade DEF VertStopped
  <2>2. CommandBody(b) /\ Total(b) = 532
    BY <2>1, SumOf DEF Plain, Marker
  <2>3. Wire(Sequence(b)) = AsListed(b, 532) /\ Len(Wire(Sequence(b))) <= MaxPacketSize
    BY <2>2, CommandWire DEF Marker
  <2>4. FixedDirection[axis] = AsListed(b, 532)
    <3>1. axis = Vertical /\ b = VertStopped
      BY <1>2, <1>3, <1>7
    <3> QED
      BY <3>1 DEF FixedDirection, VertStopped, Horizontal, Vertical
  <2> QED
    BY <1>4, <2>3, <2>4 DEF Well, b, axis
<1>8. CASE p.value = 6
  <2>1. Made(b) /\ Varied(b) = <<0, 0, 0, 0, 4, 0, 0, 1, 192, 0, 0, 0, 0>>
    BY <1>3, <1>8, VerticalMovesMade DEF VertMoving
  <2>2. CommandBody(b) /\ Total(b) = 660
    BY <2>1, SumOf DEF Plain, Marker
  <2>3. Len(Wire(Sequence(b))) <= MaxPacketSize
    BY <2>2, CommandWire
  <2> QED
    BY <1>2, <1>4, <1>8, <2>3 DEF Well, b
<1> QED
  BY <1>5, <1>6, <1>7, <1>8

\* Whatever a plan sends.
LEMMA PacketsAreWell == \A p \in Packets : Well(p)
<1> TAKE p \in Packets
<1>1. \/ p.setter \in {"on", "ecoOff"}
      \/ p.setter = "mode" /\ p.value \in Mode
      \/ p.setter = "temperature" /\ p.value \in Minimum .. Maximum
      \/ p.setter = "fan" /\ p.value \in Fan
      \/ p.setter = "swing" /\ p.value \in {1, 2, 5, 6}
      \/ p.setter = "preset" /\ p.value \in Preset
      \/ p.setter = "display" /\ p.value \in 0 .. 1
      \/ p.setter = "dryOffset" /\ \E k \in Offset : p.value = Nibble(k)
  BY DEF Packets
<1> QED
  BY <1>1, SimpleIsWell, ModeIsWell, TemperatureIsWell, FanIsWell, SwingIsWell,
     PresetIsWell, DisplayIsWell, DryOffsetIsWell

\* encode_command and the packets kept as constants: whatever a plan hands to
\* the UART is what the framing makes of its body.  The checksums written next to
\* the constants are theirs, no marker goes out unstuffed, the frame fits
\* MAX_COMMAND_WIRE_SIZE, and an axis that stops gets vert_dir or hor_dir.
THEOREM PacketsAreRight == WalkSpec => []PacketsFit
<1>1. Underway => PacketsFit
  <2> SUFFICES ASSUME Underway, at < Len(plan) PROVE Well(plan[at + 1].packet)
    BY DEF PacketsFit
  <2>1. PICK P, S : /\ Outlines(request, P, plan, Goal(request, plan), S)
                    /\ unit \in S[at]
    BY DEF Underway
  <2>2. at \in Nat /\ at + 1 \in 1 .. Len(plan) /\ (at + 1) - 1 = at
    BY LenProperties DEF Underway
  <2>3. Leads(request, S[(at + 1) - 1], plan[at + 1], S[at + 1])
    BY <2>1, <2>2 DEF Outlines
  <2>4. plan[at + 1].packet \in Packets
    BY <2>1, <2>2, <2>3 DEF Leads
  <2> QED
    BY <2>4, PacketsAreWell
<1> QED
  BY <1>1, AlwaysUnderway, PTL
=============================================================================
