-------------------------- MODULE TransportProofs --------------------------
(***************************************************************************)
(* Proofs about the engine, for every value of the constants.              *)
(***************************************************************************)
EXTENDS TransportProperties, FiniteSetTheorems, SequenceTheorems, TLAPS

(***************************************************************************)
(* The clock.                                                              *)
(***************************************************************************)
LEMMA ClockFacts ==
    /\ HalfRange \in Nat \ {0} /\ Rollover \in BOOLEAN
    /\ ClockSize = 2 * HalfRange /\ ClockSize \in Nat
    /\ \A t : t \in Elapsed <=> t \in Int /\ 0 <= t /\ t < 2 * HalfRange
BY ClockAssumption DEF ClockSize, Elapsed

LEMMA OlderType == ASSUME NEW t \in Elapsed PROVE Older(t) \in Elapsed
BY ClockFacts DEF Older, ClockSize

LEMMA AheadType ==
    ASSUME NEW d \in Nat, d < HalfRange
    PROVE  Ahead(d) \in Elapsed
BY ClockFacts DEF Ahead, ClockSize

\* The timestamp (now + d) + e, for small d and e, is now + (d + e).
LEMMA LaterAhead ==
    ASSUME NEW d \in Nat \ {0}, NEW e \in Nat, d + e < HalfRange
    PROVE  /\ Later(Ahead(d), e) \in Elapsed
           /\ Later(Ahead(d), e) = Ahead(d + e)
BY ClockFacts DEF Later, Ahead, ClockSize

(***************************************************************************)
(* Sequences.                                                              *)
(***************************************************************************)
LEMMA FunctionIsSeq ==
    ASSUME NEW S, NEW n \in Nat, NEW f \in [1 .. n -> S]
    PROVE  f \in Seq(S) /\ Len(f) = n /\ DOMAIN f = 1 .. n
<1>1. f \in Seq(S)
  BY SeqDef
<1>2. Len(f) \in Nat /\ DOMAIN f = 1 .. Len(f)
  BY <1>1, LenProperties
<1>3. 1 .. Len(f) = 1 .. n
  BY <1>2
<1> QED
  BY <1>1, <1>2, <1>3

LEMMA SeqRetype ==
    ASSUME NEW S, NEW T, NEW s \in Seq(S), \A i \in 1 .. Len(s) : s[i] \in T
    PROVE  s \in Seq(T)
<1>1. Len(s) \in Nat /\ s \in [1 .. Len(s) -> S]
  BY LenProperties
<1>2. s \in [1 .. Len(s) -> T]
  BY <1>1
<1> QED
  BY <1>1, <1>2, FunctionIsSeq

(***************************************************************************)
(* The constants.                                                          *)
(***************************************************************************)
LEMMA ConstantFacts ==
    /\ QueueCapacity \in Nat \ {0} /\ MaxSteps \in Nat \ {0}
    /\ PollWire \in Nat \ {0} /\ SetterWire \in Nat \ {0}
    /\ ResponseTimeout \in Nat \ {0} /\ OperationTimeout \in Nat \ {0}
    /\ MaxPolls \in Nat \ {0} /\ MaxLag \in Nat \ {0}
    /\ GenerationSize \in Nat /\ GenerationSize > 1
    /\ OperationTimeout + MaxLag < HalfRange
    /\ SetterWire + ResponseTimeout + MaxLag < HalfRange
    /\ PollWire + ResponseTimeout + MaxLag < HalfRange
BY TransportAssumption

LEMMA EnvironmentFacts ==
    /\ Statuses \subseteq Status /\ NoStatus \in Status
    /\ NoOperation \notin Operation
    /\ \A r \in Requests : IsIntent(r)
<1>1. NoStatus \in Status
  <2>1. 0 \in 0 .. 3 /\ 0 \in 0 .. 15 /\ 0 \in 0 .. 255 /\ 0 \in Swing /\ 0 \in 0 .. 1
    BY DEF Swing
  <2>2. QED BY <2>1 DEF NoStatus, Status
<1>2. QED BY <1>1, TransportAssumption

(***************************************************************************)
(* Intents and plans.                                                      *)
(***************************************************************************)
LEMMA OnlyIsIntent ==
    ASSUME NEW r, IsIntent(r), NEW F
    PROVE  IsIntent(Only(r, F))
BY DEF IsIntent, Only

LEMMA NoIntentIsIntent == IsIntent(NoIntent)
BY DEF IsIntent, NoIntent

LEMMA AcceptedIsIntent ==
    ASSUME NEW r \in Accepted
    PROVE  IsIntent(r)
<1>1. PICK x \in Requests : Valid(x) /\ r = Normalized(x)
  BY DEF Accepted
<1>2. IsIntent(x)
  BY EnvironmentFacts
<1>3. CASE Names(x, "temperature")
  <2>1. x["temperature"] \in Int
    BY <1>2, <1>3 DEF IsIntent, Names
  <2>2. Rounded(x["temperature"]) \in Int
    BY <2>1 DEF Rounded
  <2>3. r = [x EXCEPT !["temperature"] = Rounded(x["temperature"])]
    BY <1>1, <1>3 DEF Normalized
  <2> QED
    BY <1>2, <2>2, <2>3 DEF IsIntent
<1>4. CASE ~Names(x, "temperature")
  BY <1>1, <1>2, <1>4 DEF Normalized
<1> QED
  BY <1>3, <1>4

LEMMA SetterIsStep ==
    ASSUME NEW name \in SetterName, NEW value \in Int, NEW expected, NEW guard,
           IsIntent(expected), IsIntent(guard)
    PROVE  IsPlanStep(Setter(name, value, expected, guard))
BY DEF IsPlanStep, Setter, Packet

LEMMA EmptyPlan == IsPlan(<<>>)
BY DEF IsPlan, Range

LEMMA OneStepPlan ==
    ASSUME NEW t, IsPlanStep(t), NEW condition \in BOOLEAN
    PROVE  IsPlan(When(condition, <<t>>))
<1>1. IsPlan(<<t>>)
  BY DEF IsPlan, Range
<1> QED
  BY <1>1, EmptyPlan DEF When

LEMMA PlanConcat ==
    ASSUME NEW p, NEW q, IsPlan(p), IsPlan(q)
    PROVE  IsPlan(p \o q)
<1> DEFINE S == Range(p) \cup Range(q)
<1>1. p \in Seq(S) /\ q \in Seq(S)
  BY DEF IsPlan, Range
<1>2. /\ p \o q \in Seq(S)
      /\ Len(p \o q) = Len(p) + Len(q)
      /\ \A i \in 1 .. Len(p) + Len(q) :
            (p \o q)[i] = IF i <= Len(p) THEN p[i] ELSE q[i - Len(p)]
  BY <1>1, ConcatProperties
<1>3. \A t \in Range(p \o q) : t \in S
  BY <1>2 DEF Range
<1>4. \A t \in S : IsPlanStep(t)
  BY DEF IsPlan
<1>5. p \o q \in Seq(Range(p \o q))
  <2>1. DOMAIN (p \o q) = 1 .. Len(p \o q)
    BY <1>2, LenProperties
  <2>2. \A i \in 1 .. Len(p \o q) : (p \o q)[i] \in Range(p \o q)
    BY <2>1 DEF Range
  <2> QED
    BY <1>2, <2>2, SeqRetype
<1> QED
  BY <1>3, <1>4, <1>5 DEF IsPlan

LEMMA SwingStepsPlan ==
    ASSUME NEW s \in Status, NEW r, IsIntent(r)
    PROVE  IsPlan(SwingSteps(s, r))
<1>1. \A w \in Int : IsIntent(Swings(w))
  BY DEF IsIntent, Swings, Field
<1>2. \A before, wanted, axis \in Int :
          axis \in {1, 2} => IsPlan(AxisSteps(before, wanted, axis))
  <2> SUFFICES ASSUME NEW before \in Int, NEW wanted \in Int, NEW axis \in {1, 2}
               PROVE  IsPlan(AxisSteps(before, wanted, axis))
    OBVIOUS
  <2>1. /\ Moves(before, axis) \in Int /\ Moves(wanted, axis) \in Int
        /\ Turned(before, wanted, axis) \in Int
    BY DEF Moves, Turned
  <2>2. IsPlanStep(Setter("swing", axis + 4 * Moves(wanted, axis),
                          Swings(Turned(before, wanted, axis)), Swings(before)))
    BY <1>1, <2>1, SetterIsStep DEF SetterName
  <2> QED
    BY <2>2, OneStepPlan DEF AxisSteps
<1>3. CASE ~Names(r, "swing")
  BY <1>3, EmptyPlan DEF SwingSteps
<1>4. CASE Names(r, "swing")
  <2> DEFINE first   == FirstAxis(s.swing, r["swing"])
             second  == Horizontal + Vertical - first
             halfway == Turned(s.swing, r["swing"], first)
  <2>1. s.swing \in Int /\ r["swing"] \in Int
    BY <1>4 DEF Status, Swing, IsIntent, Names
  <2>2. first \in {1, 2} /\ second \in {1, 2}
    BY DEF FirstAxis, Horizontal, Vertical
  <2>3. halfway \in Int
    BY <2>1, <2>2 DEF Turned, Moves
  <2>4. IsPlan(AxisSteps(s.swing, r["swing"], first))
    BY <1>2, <2>1, <2>2
  <2>5. IsPlan(AxisSteps(halfway, r["swing"], second))
    BY <1>2, <2>1, <2>2, <2>3
  <2> QED
    BY <1>4, <2>4, <2>5, PlanConcat DEF SwingSteps
<1> QED
  BY <1>3, <1>4

LEMMA PresetStepsPlan ==
    ASSUME NEW r, IsIntent(r)
    PROVE  IsPlan(PresetSteps(r))
<1>1. CASE ~Names(r, "preset")
  BY <1>1, EmptyPlan DEF PresetSteps
<1>2. CASE Names(r, "preset")
  <2>1. r["preset"] \in Int
    BY <1>2 DEF IsIntent, Names
  <2>2. IsPlanStep(Setter("preset", r["preset"], NoIntent, NoIntent))
    BY <2>1, NoIntentIsIntent, SetterIsStep DEF SetterName
  <2>3. IsPlanStep(Setter("ecoOff", 0, NoIntent, NoIntent))
    BY NoIntentIsIntent, SetterIsStep DEF SetterName
  <2>4. IsPlan(<<Setter("preset", r["preset"], NoIntent, NoIntent)>>)
    BY <2>2, OneStepPlan DEF When
  <2>5. IsPlan(When(r["preset"] = 0, <<Setter("ecoOff", 0, NoIntent, NoIntent)>>))
    BY <2>3, OneStepPlan
  <2> QED
    BY <1>2, <2>4, <2>5, PlanConcat DEF PresetSteps
<1> QED
  BY <1>1, <1>2

LEMMA FieldStepsPlan ==
    ASSUME NEW s \in Status, NEW r, IsIntent(r)
    PROVE  /\ IsPlan(PowerSteps(s, r)) /\ IsPlan(ModeSteps(s, r))
           /\ IsPlan(TemperatureSteps(s, r)) /\ IsPlan(FanSteps(s, r))
           /\ IsPlan(DisplaySteps(s, r))
<1> USE DEF SetterName
<1>1. /\ IsIntent(ModeGuard(r)) /\ IsIntent(NoIntent)
      /\ \A f : IsIntent(Only(r, {f}))
      /\ IsIntent([f \in {"power"} |-> 1])
  BY OnlyIsIntent, NoIntentIsIntent DEF ModeGuard, IsIntent, Field
<1>2. \A f : Names(r, f) => r[f] \in Int
  BY DEF Names, IsIntent
<1>3. IsPlan(PowerSteps(s, r))
  <2>1. IsPlanStep(Setter("on", 0, [f \in {"power"} |-> 1], NoIntent))
    BY <1>1, SetterIsStep
  <2> QED
    BY <2>1, OneStepPlan DEF PowerSteps
<1>4. IsPlan(ModeSteps(s, r))
  <2>1. CASE Differs(s, r, "mode")
    <3>1. IsPlanStep(Setter("mode", r["mode"], ModeGuard(r), NoIntent))
      BY <1>1, <1>2, <2>1, SetterIsStep DEF Differs
    <3> QED
      BY <2>1, <3>1, OneStepPlan DEF ModeSteps
  <2> QED
    BY <2>1, EmptyPlan DEF ModeSteps, When
<1>5. IsPlan(TemperatureSteps(s, r))
  <2>1. CASE Names(r, "temperature")
    <3>1. IsPlanStep(Setter("temperature", r["temperature"],
                            Only(r, {"temperature"}), ModeGuard(r)))
      BY <1>1, <1>2, <2>1, SetterIsStep
    <3>2. IsPlan(<<Setter("temperature", r["temperature"],
                          Only(r, {"temperature"}), ModeGuard(r))>>)
      BY <3>1, OneStepPlan DEF When
    <3> QED
      BY <3>2, EmptyPlan DEF TemperatureSteps, When
  <2> QED
    BY <2>1, EmptyPlan DEF TemperatureSteps, When
<1>6. IsPlan(FanSteps(s, r))
  <2>1. CASE Differs(s, r, "fan")
    <3>1. IsPlanStep(Setter("fan", r["fan"], Only(r, {"fan"}), ModeGuard(r)))
      BY <1>1, <1>2, <2>1, SetterIsStep DEF Differs
    <3> QED
      BY <2>1, <3>1, OneStepPlan DEF FanSteps
  <2> QED
    BY <2>1, EmptyPlan DEF FanSteps, When
<1>7. IsPlan(DisplaySteps(s, r))
  <2>1. CASE Differs(s, r, "display")
    <3>1. IsPlanStep(Setter("display", r["display"], Only(r, {"display"}), NoIntent))
      BY <1>1, <1>2, <2>1, SetterIsStep DEF Differs
    <3> QED
      BY <2>1, <3>1, OneStepPlan DEF DisplaySteps
  <2> QED
    BY <2>1, EmptyPlan DEF DisplaySteps, When
<1> QED
  BY <1>3, <1>4, <1>5, <1>6, <1>7

\* Every plan the engine makes consists of well-formed steps.
THEOREM PlanIsPlan ==
    ASSUME NEW s \in Status, NEW r \in Accepted
    PROVE  IsPlan(Plan(s, r))
<1>1. IsIntent(r)
  BY AcceptedIsIntent
<1>2. IsPlan(BuiltSteps(s, r))
  <2> DEFINE p1 == PowerSteps(s, r) \o ModeSteps(s, r)
             p2 == p1 \o TemperatureSteps(s, r)
             p3 == p2 \o FanSteps(s, r)
             p4 == p3 \o SwingSteps(s, r)
             p5 == p4 \o PresetSteps(r)
  <2> HIDE DEF p1, p2, p3, p4, p5
  <2>1. IsPlan(p1)
    BY <1>1, FieldStepsPlan, PlanConcat DEF p1
  <2>2. IsPlan(p2)
    BY <1>1, <2>1, FieldStepsPlan, PlanConcat DEF p2
  <2>3. IsPlan(p3)
    BY <1>1, <2>2, FieldStepsPlan, PlanConcat DEF p3
  <2>4. IsPlan(p4)
    BY <1>1, <2>3, SwingStepsPlan, PlanConcat DEF p4
  <2>5. IsPlan(p5)
    BY <1>1, <2>4, PresetStepsPlan, PlanConcat DEF p5
  <2>6. IsPlan(p5 \o DisplaySteps(s, r))
    BY <1>1, <2>5, FieldStepsPlan, PlanConcat
  <2> QED
    BY <2>6 DEF BuiltSteps, p1, p2, p3, p4, p5
<1>3. Names(r, "dryOffset") => IsPlan(DryOffsetSteps(s, r))
  <2> SUFFICES ASSUME Names(r, "dryOffset") PROVE IsPlan(DryOffsetSteps(s, r))
    OBVIOUS
  <2>1. Nibble(r["dryOffset"]) \in Int
    BY <1>1 DEF Names, IsIntent, Nibble
  <2>2. OffsetOf(s.compensation) \in Int
    BY DEF Status, OffsetOf
  <2>3. IsIntent([f \in {"dryOffset"} |-> OffsetOf(s.compensation)])
    BY <2>2 DEF IsIntent, Field
  <2>4. IsPlanStep(Setter("dryOffset", Nibble(r["dryOffset"]), r,
                          [f \in {"dryOffset"} |-> OffsetOf(s.compensation)]))
    BY <1>1, <2>1, <2>3, SetterIsStep DEF SetterName
  <2> QED
    BY <2>4, OneStepPlan DEF DryOffsetSteps
<1> QED
  BY <1>2, <1>3 DEF Plan

LEMMA PlanFacts ==
    ASSUME NEW p, IsPlan(p)
    PROVE  /\ Len(p) \in Nat /\ DOMAIN p = 1 .. Len(p)
           /\ Len(p) = 0 <=> p = <<>>
           /\ \A i \in DOMAIN p : p[i].packet \in Packet
<1>1. p \in Seq(Range(p)) /\ \A t \in Range(p) : IsPlanStep(t)
  BY DEF IsPlan
<1>2. Len(p) \in Nat /\ DOMAIN p = 1 .. Len(p)
  BY <1>1, LenProperties
<1>3. Len(p) = 0 <=> p = <<>>
  BY <1>1, EmptySeq
<1>4. \A i \in DOMAIN p : p[i] \in Range(p)
  BY DEF Range
<1> QED
  BY <1>1, <1>2, <1>3, <1>4 DEF IsPlanStep

(***************************************************************************)
(* What a step reports, and what expiry leaves of the queue.               *)
(***************************************************************************)
LEMMA OutcomeType ==
    ASSUME NEW op \in Operation, NEW result \in Result
    PROVE  Outcome(op, result) \in Callback
BY ConstantFacts DEF Operation, Generation, Outcome, Callback

LEMMA OutcomesType ==
    ASSUME NEW ops \in Seq(Operation), NEW result \in Result
    PROVE  /\ Outcomes(ops, result) \in Seq(Callback)
           /\ Len(Outcomes(ops, result)) = Len(ops)
<1>1. Len(ops) \in Nat /\ DOMAIN ops = 1 .. Len(ops)
  BY LenProperties
<1>2. \A i \in 1 .. Len(ops) : Outcome(ops[i], result) \in Callback
  BY ElementOfSeq, OutcomeType
<1>3. Outcomes(ops, result) \in [1 .. Len(ops) -> Callback]
  BY <1>1, <1>2 DEF Outcomes
<1> QED
  BY <1>1, <1>3, FunctionIsSeq

LEMMA VerdictType ==
    ASSUME NEW op \in Operation \cup {NoOperation}, NEW result \in Result
    PROVE  Verdict(op, result) \in Seq(Callback)
<1>1. \A c \in Callback : <<c>> \in Seq(Callback)
  OBVIOUS
<1>2. CASE op # NoOperation
  BY <1>1, <1>2, OutcomeType DEF Verdict
<1>3. CASE op = NoOperation
  <2>1. [generation |-> 0, result |-> result] \in Callback
    BY ConstantFacts DEF Callback
  <2> QED
    BY <1>1, <1>3, <2>1, EmptySeq DEF Verdict, When
<1> QED
  BY <1>2, <1>3

LEMMA ExpirySplits ==
    ASSUME queue \in Seq(Operation)
    PROVE  /\ Cardinality(Lapsed) \in 0 .. Len(queue)
           /\ Waiting \in Seq(Operation)
           /\ Len(Waiting) = Len(queue) - Cardinality(Lapsed)
           /\ \A i \in 1 .. Len(Waiting) : Waiting[i] = queue[i + Cardinality(Lapsed)]
           /\ Lapses \in Seq(Callback)
<1> DEFINE k == Cardinality(Lapsed)
<1>1. Len(queue) \in Nat /\ DOMAIN queue = 1 .. Len(queue)
  BY LenProperties
<1>2. IsFiniteSet(1 .. Len(queue)) /\ Cardinality(1 .. Len(queue)) = Len(queue)
  BY <1>1, FS_Interval
<1>3. k \in 0 .. Len(queue)
  <2>1. Lapsed \subseteq 1 .. Len(queue)
    BY <1>1 DEF Lapsed
  <2>2. IsFiniteSet(Lapsed) /\ k <= Len(queue)
    BY <1>2, <2>1, FS_Subset
  <2>3. k \in Nat
    BY <2>2, FS_CardinalityType
  <2> QED
    BY <1>1, <2>2, <2>3
<1> HIDE DEF k
<1>4. \A i \in 1 .. Len(queue) : queue[i] \in Operation
  BY ElementOfSeq
<1>5. /\ Waiting \in Seq(Operation)
      /\ Len(Waiting) = Len(queue) - k
      /\ \A i \in 1 .. Len(Waiting) : Waiting[i] = queue[i + k]
  <2>1. Waiting = SubSeq(queue, 1 + k, Len(queue))
    BY DEF Waiting, k
  <2>2. \A i \in 1 + k .. Len(queue) : queue[i] \in Operation
    BY <1>3, <1>4
  <2>3. 1 + k \in Int /\ Len(queue) \in Int
    BY <1>1, <1>3
  <2>4. /\ Waiting \in Seq(Operation)
        /\ Len(Waiting) = IF 1 + k <= Len(queue) THEN Len(queue) - (1 + k) + 1 ELSE 0
        /\ \A i \in 1 .. Len(queue) - (1 + k) + 1 : Waiting[i] = queue[1 + k + i - 1]
    BY <2>1, <2>2, <2>3, SubSeqProperties
  <2>5. Len(Waiting) = Len(queue) - k
    <3>1. \A n \in Nat : \A j \in 0 .. n :
              (IF 1 + j <= n THEN n - (1 + j) + 1 ELSE 0) = n - j
      OBVIOUS
    <3>2. (IF 1 + k <= Len(queue) THEN Len(queue) - (1 + k) + 1 ELSE 0)
             = Len(queue) - k
      BY <1>1, <1>3, <3>1
    <3> QED
      BY <2>4, <3>2
  <2>6. ASSUME NEW i \in 1 .. Len(Waiting)
        PROVE  Waiting[i] = queue[i + k]
    <3>1. 1 + k + i - 1 = i + k /\ i \in 1 .. Len(queue) - (1 + k) + 1
      BY <1>1, <1>3, <2>5
    <3> QED
      BY <2>4, <3>1
  <2> QED
    BY <2>4, <2>5, <2>6
<1>6. Lapses \in Seq(Callback)
  <2>1. SubSeq(queue, 1, k) \in Seq(Operation)
    BY <1>1, <1>3, <1>4, SubSeqProperties
  <2>2. "EXPIRED" \in Result
    BY DEF Result
  <2> QED
    BY <2>1, <2>2, OutcomesType DEF Lapses, k
<1> QED
  BY <1>3, <1>5, <1>6 DEF k

(***************************************************************************)
(* The inductive invariant: the types need SettersSentOnce, for the step   *)
(* that is sent lies within the plan, and SettersSentOnce needs to know in *)
(* which phases the engine is without an operation.                        *)
(***************************************************************************)
Resting == {"IDLE", "RECOVERY", "POLL_DRAIN", "WAIT_STATUS"}

IInv ==
    /\ TypeOK
    /\ SettersSentOnce
    /\ RecoveryIsReadOnly
    /\ ~Active => phase \in Resting

LEMMA FinishResult ==
    ASSUME NEW op \in Operation \cup {NoOperation}, NEW result \in Result,
           NEW q \in Seq(Operation), NEW events \in Seq(Callback),
           FinishWith(op, result, q, events),
           pollRequested \in BOOLEAN, recovering \in BOOLEAN, deadline \in Elapsed
    PROVE  /\ queue' \in Seq(Operation) /\ Len(queue') <= Len(q)
           /\ current' = NoOperation
           /\ steps' = <<>> /\ step' = 1 /\ setters' = 0
           /\ pollRequested' \in BOOLEAN /\ recovering' \in BOOLEAN
           /\ deadline' \in Elapsed
           /\ phase' \in {"IDLE", "RECOVERY"}
           /\ phase' = "RECOVERY" <=> recovering'
           /\ finished' \in Seq(Callback)
<1>1. Verdict(op, result) \in Seq(Callback)
  BY VerdictType
<1>2. Outcomes(q, "CANCELLED") \in Seq(Callback)
  BY OutcomesType DEF Result
<1>3. /\ events \o Verdict(op, result) \in Seq(Callback)
      /\ (events \o Verdict(op, result)) \o Outcomes(q, "CANCELLED") \in Seq(Callback)
  BY <1>1, <1>2, ConcatProperties
<1>4. Len(q) \in Nat /\ <<>> \in Seq(Operation) /\ Len(<<>>) = 0
  BY LenProperties, EmptySeq
<1>5. Ahead(ResponseTimeout) \in Elapsed
  BY ConstantFacts, ClockFacts, AheadType
<1>6. CASE Failure(result)
  <2>1. /\ finished' = events \o Verdict(op, result) \o Outcomes(q, "CANCELLED")
        /\ queue' = <<>> /\ deadline' = Ahead(ResponseTimeout)
        /\ current' = NoOperation /\ steps' = <<>> /\ step' = 1 /\ setters' = 0
    BY <1>6 DEF FinishWith
  <2>2. /\ pollRequested' \in BOOLEAN /\ recovering' \in BOOLEAN
        /\ phase' \in {"IDLE", "RECOVERY"}
        /\ phase' = "RECOVERY" <=> recovering'
    BY <1>6 DEF FinishWith
  <2> QED
    BY <1>3, <1>4, <1>5, <2>1, <2>2
<1>7. CASE ~Failure(result)
  <2>1. /\ finished' = events \o Verdict(op, result)
        /\ queue' = q /\ deadline' = deadline
        /\ current' = NoOperation /\ steps' = <<>> /\ step' = 1 /\ setters' = 0
    BY <1>7 DEF FinishWith
  <2>2. /\ pollRequested' \in BOOLEAN /\ recovering' \in BOOLEAN
        /\ phase' \in {"IDLE", "RECOVERY"}
        /\ phase' = "RECOVERY" <=> recovering'
    BY <1>7 DEF FinishWith
  <2> QED
    BY <1>3, <1>4, <2>1, <2>2
<1> QED
  BY <1>6, <1>7

LEMMA FinishKeepsIInv ==
    ASSUME IInv,
           NEW op \in Operation \cup {NoOperation}, NEW result \in Result,
           NEW q \in Seq(Operation), Len(q) <= QueueCapacity,
           NEW events \in Seq(Callback),
           FinishWith(op, result, q, events),
           nextGeneration' = nextGeneration,
           status' \in Status, unverified' \in BOOLEAN,
           baselinePoll' \in BOOLEAN, responseSeen' \in BOOLEAN,
           confirmationPolls' \in Nat,
           txUntil' \in Elapsed, txStarted' \in BOOLEAN,
           sent' \in Seq(Packet), lag' \in 0 .. MaxLag
    PROVE  IInv'
<1>1. /\ queue' \in Seq(Operation) /\ Len(queue') <= Len(q)
      /\ current' = NoOperation
      /\ steps' = <<>> /\ step' = 1 /\ setters' = 0
      /\ pollRequested' \in BOOLEAN /\ recovering' \in BOOLEAN
      /\ deadline' \in Elapsed
      /\ phase' \in {"IDLE", "RECOVERY"}
      /\ phase' = "RECOVERY" <=> recovering'
      /\ finished' \in Seq(Callback)
  BY FinishResult DEF IInv, TypeOK, PollingOK, TimersOK
<1>2. OperationsOK'
  <2>1. Len(queue') \in Nat /\ Len(q) \in Nat
    BY <1>1, LenProperties
  <2> QED
    BY <1>1, <2>1, ConstantFacts DEF IInv, TypeOK, OperationsOK
<1>3. PlanOK'
  <2>1. Len(<<>>) = 0
    BY EmptySeq
  <2> QED
    BY <1>1, <2>1, EmptyPlan, ConstantFacts DEF PlanOK
<1>4. TypeOK'
  BY <1>1, <1>2, <1>3 DEF TypeOK, PollingOK, TimersOK, OutputsOK, Phase
<1>5. SettersSentOnce' /\ RecoveryIsReadOnly' /\ (~Active => phase \in Resting)'
  BY <1>1 DEF SettersSentOnce, RecoveryIsReadOnly, Active, Resting
<1> QED
  BY <1>4, <1>5 DEF IInv

LEMMA PacketSeq == \A packet \in Packet : <<packet>> \in Seq(Packet)
OBVIOUS

LEMMA QueryIsPacket == Query \in Packet
BY DEF Query, Packet, SetterName

LEMMA RefuseType ==
    ASSUME NEW packet \in Packet, Refuse(packet)
    PROVE  sent' \in Seq(Packet) /\ txStarted' = txStarted /\ txUntil' = txUntil
BY PacketSeq, EmptySeq DEF Refuse, When

LEMMA TransmitType ==
    ASSUME NEW packet \in Packet, NEW wire \in {PollWire, SetterWire},
           Transmit(packet, wire)
    PROVE  /\ sent' \in Seq(Packet) /\ txStarted' = TRUE
           /\ txUntil' \in Elapsed
           /\ Later(txUntil', ResponseTimeout) \in Elapsed
<1>1. wire \in Nat \ {0} /\ wire < HalfRange /\ wire + ResponseTimeout < HalfRange
  BY ConstantFacts, ClockFacts
<1>2. txUntil' = Ahead(wire) /\ sent' = <<packet>> /\ txStarted' = TRUE
  BY DEF Transmit
<1>3. txUntil' \in Elapsed
  BY <1>1, <1>2, AheadType
<1>4. Later(txUntil', ResponseTimeout) \in Elapsed
  BY <1>1, <1>2, LaterAhead, ConstantFacts
<1> QED
  BY <1>2, <1>3, <1>4, PacketSeq

\* A poll on behalf of op: its setters must be accounted for before it.
LEMMA PollKeepsIInv ==
    ASSUME IInv,
           NEW op \in Operation \cup {NoOperation}, NEW baseline \in BOOLEAN,
           NEW q \in Seq(Operation), Len(q) <= QueueCapacity,
           NEW events \in Seq(Callback),
           PollWith(op, baseline, q, events),
           lag' \in 0 .. MaxLag,
           recovering => op = NoOperation,
           IF op = NoOperation \/ baseline
             THEN setters = 0 /\ steps = <<>>
             ELSE step \in DOMAIN steps /\ setters = step
    PROVE  IInv'
<1>1. /\ baselinePoll' = baseline /\ responseSeen' = FALSE
      /\ nextGeneration' = nextGeneration /\ status' = status
      /\ unverified' = unverified
  BY DEF PollWith
<1>2. confirmationPolls' \in Nat
  BY DEF PollWith, IInv, TypeOK, PollingOK
<1>3. CASE Refuse(Query) /\ FinishWith(op, "WRITE_FAILED", q, events)
  <2>1. sent' \in Seq(Packet) /\ txStarted' = txStarted /\ txUntil' = txUntil
    BY <1>3, QueryIsPacket, RefuseType
  <2>2. "WRITE_FAILED" \in Result
    BY DEF Result
  <2>3. /\ status' \in Status /\ unverified' \in BOOLEAN
        /\ baselinePoll' \in BOOLEAN /\ responseSeen' \in BOOLEAN
        /\ txUntil' \in Elapsed /\ txStarted' \in BOOLEAN
    BY <1>1, <2>1 DEF IInv, TypeOK, PlanOK, TimersOK
  <2> QED
    BY <1>1, <1>2, <1>3, <2>1, <2>2, <2>3, FinishKeepsIInv
<1>4. CASE /\ Transmit(Query, PollWire)
           /\ current' = op /\ queue' = q /\ finished' = events
           /\ pollRequested' = FALSE
           /\ deadline' = Later(txUntil', ResponseTimeout)
           /\ phase' = "POLL_DRAIN"
           /\ UNCHANGED <<steps, step, setters, recovering>>
  <2>1. /\ sent' \in Seq(Packet) /\ txStarted' = TRUE
        /\ txUntil' \in Elapsed /\ deadline' \in Elapsed
    BY <1>4, QueryIsPacket, TransmitType
  <2>2. TypeOK'
    BY <1>1, <1>2, <1>4, <2>1
    DEF IInv, TypeOK, OperationsOK, PlanOK, PollingOK, TimersOK, OutputsOK, Phase
  <2>3. SettersSentOnce'
    BY <1>1, <1>4 DEF SettersSentOnce, Active, Exchange
  <2>4. RecoveryIsReadOnly' /\ (~Active => phase \in Resting)'
    BY <1>4 DEF RecoveryIsReadOnly, Active, Resting
  <2> QED
    BY <2>2, <2>3, <2>4 DEF IInv
<1> QED
  BY <1>3, <1>4 DEF PollWith

(***************************************************************************)
(* One lemma per group of actions.                                         *)
(***************************************************************************)
LEMMA InitIInv == Init => IInv
<1> SUFFICES ASSUME Init PROVE IInv
  OBVIOUS
<1>1. /\ Len(<<>>) = 0 /\ <<>> \in Seq(Operation)
      /\ <<>> \in Seq(Callback) /\ <<>> \in Seq(Packet)
  BY EmptySeq
<1>2. 0 \in Elapsed
  BY ClockFacts
<1>3. TypeOK
  <2>1. OperationsOK
    <3>1. queue = <<>> /\ nextGeneration = 0 /\ current = NoOperation
      BY DEF Init
    <3>2. 0 <= QueueCapacity /\ 0 \in 0 .. (GenerationSize - 1)
      BY ConstantFacts
    <3> QED
      BY <1>1, <3>1, <3>2 DEF OperationsOK
  <2>2. PlanOK
    <3>1. steps = <<>> /\ step \in Nat \ {0} /\ setters \in Nat
      BY DEF Init
    <3>2. unverified \in BOOLEAN
      BY DEF Init
    <3>3. IsPlan(steps) /\ Len(steps) <= MaxSteps
      BY <1>1, <3>1, ConstantFacts, EmptyPlan
    <3> QED
      BY <3>1, <3>2, <3>3 DEF PlanOK
  <2>3. PollingOK /\ TimersOK /\ OutputsOK
    BY <1>1, <1>2 DEF Init, PollingOK, TimersOK, OutputsOK, Phase
  <2>4. status \in Status /\ lag \in 0 .. MaxLag
    BY ConstantFacts, EnvironmentFacts DEF Init
  <2> QED
    BY <2>1, <2>2, <2>3, <2>4 DEF TypeOK
<1>4. SettersSentOnce /\ RecoveryIsReadOnly /\ (~Active => phase \in Resting)
  BY DEF Init, SettersSentOnce, RecoveryIsReadOnly, Active, Resting
<1> QED
  BY <1>3, <1>4 DEF IInv

LEMMA AgedType ==
    ASSUME NEW op \in Operation
    PROVE  /\ Aged(op) \in Operation
           /\ Aged(op).age = Older(op.age)
           /\ Aged(op).generation = op.generation /\ Aged(op).request = op.request
<1>1. Older(op.age) \in Elapsed
  BY OlderType DEF Operation
<1>2. Aged(op) = [op EXCEPT !.age = Older(op.age)]
  BY DEF Aged, Operation
<1> QED
  BY <1>1, <1>2 DEF Operation

LEMMA AgedQueue ==
    ASSUME queue \in Seq(Operation), queue' = [i \in DOMAIN queue |-> Aged(queue[i])]
    PROVE  /\ queue' \in Seq(Operation) /\ Len(queue') = Len(queue)
           /\ \A i \in 1 .. Len(queue) : queue'[i] = Aged(queue[i])
<1>1. Len(queue) \in Nat /\ DOMAIN queue = 1 .. Len(queue)
  BY LenProperties
<1>2. queue' \in [1 .. Len(queue) -> Operation]
  BY <1>1, ElementOfSeq, AgedType
<1> QED
  BY <1>1, <1>2, FunctionIsSeq

LEMMA AdvanceKeepsIInv == ASSUME IInv, Advance PROVE IInv'
<1>1. OperationsOK'
  <2>1. queue' \in Seq(Operation) /\ Len(queue') = Len(queue)
    BY AgedQueue DEF Advance, IInv, TypeOK, OperationsOK
  <2>2. current' \in Operation \cup {NoOperation}
    BY AgedType DEF Advance, IInv, TypeOK, OperationsOK, Active
  <2> QED
    BY <2>1, <2>2 DEF Advance, IInv, TypeOK, OperationsOK
<1>2. deadline' \in Elapsed /\ txUntil' \in Elapsed
  BY OlderType DEF Advance, IInv, TypeOK, TimersOK
<1>3. lag' \in 0 .. MaxLag
  BY ConstantFacts DEF Advance, IInv, TypeOK
<1>4. OutputsOK'
  BY EmptySeq DEF Advance, OutputsOK
<1>5. TypeOK'
  BY <1>1, <1>2, <1>3, <1>4
  DEF Advance, plan, polling, IInv, TypeOK, PlanOK, PollingOK, TimersOK
<1>6. Active' = Active
  BY AgedType, EnvironmentFacts DEF Advance, Active, IInv, TypeOK, OperationsOK
<1>7. SettersSentOnce' /\ RecoveryIsReadOnly' /\ (~Active => phase \in Resting)'
  BY <1>6 DEF Advance, plan, polling, IInv, SettersSentOnce, RecoveryIsReadOnly, Resting
<1> QED
  BY <1>5, <1>7 DEF IInv

LEMMA RequestPollKeepsIInv == ASSUME IInv, RequestPoll PROVE IInv'
<1>1. pollRequested' \in BOOLEAN
  BY DEF RequestPoll, IInv, TypeOK, PollingOK
<1>2. OutputsOK'
  BY EmptySeq DEF RequestPoll, OutputsOK
<1>3. TypeOK'
  BY <1>1, <1>2
  DEF RequestPoll, plan, timers, IInv, TypeOK, OperationsOK, PlanOK, PollingOK, TimersOK
<1> QED
  BY <1>3
  DEF RequestPoll, plan, timers, IInv, SettersSentOnce, RecoveryIsReadOnly, Active, Resting

LEMMA EntryType ==
    ASSUME NEW r \in Requests, Valid(r), nextGeneration \in 0 .. (GenerationSize - 1)
    PROVE  Entry(r) \in Operation /\ NextGeneration \in Generation
<1>1. Normalized(r) \in Accepted
  BY DEF Accepted
<1>2. NextGeneration \in Generation
  BY ConstantFacts DEF NextGeneration, Generation
<1>3. 0 \in Elapsed
  BY ClockFacts
<1> QED
  BY <1>1, <1>2, <1>3 DEF Entry, Operation

LEMMA EnqueueKeepsIInv ==
    ASSUME IInv, NEW r \in Requests, Enqueue(r)
    PROVE  IInv'
<1>1. /\ sent' = <<>> /\ Untouched
      /\ Reject(r) \/ Admit(r) \/ Supersede(r)
  BY DEF Enqueue, Reject, Admit, Supersede
<1>2. /\ queue \in Seq(Operation) /\ Len(queue) <= QueueCapacity /\ Len(queue) \in Nat
      /\ nextGeneration \in 0 .. (GenerationSize - 1)
      /\ NextGeneration \in Generation => NextGeneration \in 0 .. (GenerationSize - 1)
  BY LenProperties, ConstantFacts DEF IInv, TypeOK, OperationsOK, Generation
<1>3. /\ queue' \in Seq(Operation) /\ Len(queue') <= QueueCapacity
      /\ nextGeneration' \in 0 .. (GenerationSize - 1)
      /\ finished' \in Seq(Callback)
  <2>1. CASE Reject(r)
    BY <1>2, <2>1, EmptySeq DEF Reject
  <2>2. CASE Admit(r)
    <3>1. Entry(r) \in Operation /\ NextGeneration \in Generation
      BY <1>2, <2>2, EntryType DEF Admit
    <3>2. queue' \in Seq(Operation) /\ Len(queue') = Len(queue) + 1
      BY <1>2, <2>2, <3>1, AppendProperties DEF Admit
    <3> QED
      BY <1>2, <2>2, <3>1, <3>2, ConstantFacts, EmptySeq DEF Admit
  <2>3. CASE Supersede(r)
    <3>1. Entry(r) \in Operation /\ NextGeneration \in Generation
      BY <1>2, <2>3, EntryType DEF Supersede
    <3>2. Len(queue) \in 1 .. Len(queue)
      BY <1>2, <2>3, EmptySeq DEF Supersede, Replaces
    <3>3. queue' \in Seq(Operation) /\ Len(queue') = Len(queue)
      BY <1>2, <2>3, <3>1, <3>2, ExceptSeq DEF Supersede
    <3>4. queue[Len(queue)] \in Operation /\ "SUPERSEDED" \in Result
      BY <1>2, <3>2, ElementOfSeq DEF Result
    <3>5. finished' \in Seq(Callback)
      <4>1. Outcome(queue[Len(queue)], "SUPERSEDED") \in Callback
        BY <3>4, OutcomeType
      <4> QED
        BY <2>3, <4>1 DEF Supersede
    <3> QED
      BY <1>2, <2>3, <3>1, <3>3, <3>5 DEF Supersede
  <2> QED
    BY <1>1, <2>1, <2>2, <2>3
<1>4. TypeOK'
  BY <1>1, <1>3, EmptySeq
  DEF Untouched, plan, polling, timers, IInv, TypeOK, OperationsOK, PlanOK, PollingOK,
      TimersOK, OutputsOK
<1>5. SettersSentOnce' /\ RecoveryIsReadOnly' /\ (~Active => phase \in Resting)'
  BY <1>1
  DEF Untouched, plan, polling, timers, IInv, SettersSentOnce, RecoveryIsReadOnly,
      Active, Resting
<1> QED
  BY <1>4, <1>5 DEF IInv

LEMMA WaitingFacts ==
    ASSUME IInv
    PROVE  /\ Waiting \in Seq(Operation) /\ Len(Waiting) <= QueueCapacity
           /\ Lapses \in Seq(Callback)
<1>1. queue \in Seq(Operation) /\ Len(queue) \in Nat /\ Len(queue) <= QueueCapacity
  BY LenProperties DEF IInv, TypeOK, OperationsOK
<1>2. /\ Cardinality(Lapsed) \in 0 .. Len(queue)
      /\ Waiting \in Seq(Operation) /\ Lapses \in Seq(Callback)
      /\ Len(Waiting) = Len(queue) - Cardinality(Lapsed)
  BY <1>1, ExpirySplits
<1>3. Len(Waiting) <= QueueCapacity
  BY <1>1, <1>2, ConstantFacts
<1> QED
  BY <1>2, <1>3

\* The ways in which tick ends an operation.
LEMMA TickFinishKeepsIInv ==
    ASSUME IInv, NEW result \in Result,
           Finish(result, Waiting, Lapses), sent' = <<>>, lag' = 0,
           nextGeneration' = nextGeneration, status' = status,
           unverified' = unverified, baselinePoll' = baselinePoll,
           responseSeen' = responseSeen, confirmationPolls' = confirmationPolls,
           txUntil' = txUntil, txStarted' = txStarted
    PROVE  IInv'
<1>1. FinishWith(current, result, Waiting, Lapses)
  BY DEF Finish
<1>2. /\ current \in Operation \cup {NoOperation}
      /\ status' \in Status /\ unverified' \in BOOLEAN
      /\ baselinePoll' \in BOOLEAN /\ responseSeen' \in BOOLEAN
      /\ confirmationPolls' \in Nat
      /\ txUntil' \in Elapsed /\ txStarted' \in BOOLEAN
  BY DEF IInv, TypeOK, OperationsOK, PlanOK, PollingOK, TimersOK
<1>3. sent' \in Seq(Packet)
  BY EmptySeq
<1>4. lag' \in 0 .. MaxLag
  BY ConstantFacts
<1> QED
  BY <1>1, <1>2, <1>3, <1>4, WaitingFacts, FinishKeepsIInv

LEMMA TickExpiredKeepsIInv == ASSUME IInv, TickExpired PROVE IInv'
<1>1. Finish("EXPIRED", Waiting, Lapses) /\ sent' = <<>> /\ lag' = 0
  BY DEF TickExpired, TickIn, Tick
<1>2. /\ nextGeneration' = nextGeneration /\ status' = status /\ unverified' = unverified
      /\ baselinePoll' = baselinePoll /\ responseSeen' = responseSeen
      /\ confirmationPolls' = confirmationPolls
      /\ txUntil' = txUntil /\ txStarted' = txStarted
  BY DEF TickExpired
<1> QED
  BY <1>1, <1>2, TickFinishKeepsIInv DEF Result

LEMMA TickBlockedKeepsIInv == ASSUME IInv, TickBlocked PROVE IInv'
<1>1. Finish("PREREQUISITE", Waiting, Lapses) /\ sent' = <<>> /\ lag' = 0
  BY DEF TickBlocked, TickIn, Tick
<1>2. /\ nextGeneration' = nextGeneration /\ status' = status /\ unverified' = unverified
      /\ baselinePoll' = baselinePoll /\ responseSeen' = responseSeen
      /\ confirmationPolls' = confirmationPolls
      /\ txUntil' = txUntil /\ txStarted' = txStarted
  BY DEF TickBlocked
<1> QED
  BY <1>1, <1>2, TickFinishKeepsIInv DEF Result

LEMMA TickTimeoutKeepsIInv == ASSUME IInv, TickTimeout PROVE IInv'
<1>1. Finish("TIMEOUT", Waiting, Lapses) /\ sent' = <<>> /\ lag' = 0
  BY DEF TickTimeout, TickIn, Tick
<1>2. /\ nextGeneration' = nextGeneration /\ status' = status /\ unverified' = unverified
      /\ baselinePoll' = baselinePoll /\ responseSeen' = responseSeen
      /\ confirmationPolls' = confirmationPolls
      /\ txUntil' = txUntil /\ txStarted' = txStarted
  BY DEF TickTimeout
<1> QED
  BY <1>1, <1>2, TickFinishKeepsIInv DEF Result

\* The turns of the loop that send nothing and end nothing.
LEMMA QuietlyKeepsTypeOK ==
    ASSUME IInv, Quietly, lag' = 0, phase' \in Phase
    PROVE  TypeOK'
<1>1. queue' \in Seq(Operation) /\ Len(queue') <= QueueCapacity
  BY WaitingFacts DEF Quietly
<1>2. OutputsOK'
  BY WaitingFacts, EmptySeq DEF Quietly, OutputsOK
<1>3. lag' \in 0 .. MaxLag
  BY ConstantFacts
<1> QED
  BY <1>1, <1>2, <1>3
  DEF Quietly, plan, polling, IInv, TypeOK, OperationsOK, PlanOK, PollingOK, TimersOK

LEMMA TickWaitsKeepsIInv == ASSUME IInv, TickWaits PROVE IInv'
<1>1. Quietly /\ lag' = 0 /\ phase' = phase
  BY DEF TickWaits, Tick
<1>2. TypeOK'
  BY <1>1, QuietlyKeepsTypeOK DEF IInv, TypeOK, TimersOK
<1> QED
  BY <1>1, <1>2
  DEF Quietly, plan, polling, IInv, SettersSentOnce, RecoveryIsReadOnly, Active, Resting

LEMMA TickDrainedKeepsIInv == ASSUME IInv, TickDrained PROVE IInv'
<1>1. /\ Quietly /\ lag' = 0
      /\ \/ phase = "CONTROL_DRAIN" /\ phase' = "CONTROL_SETTLE"
         \/ phase = "POLL_DRAIN" /\ phase' = "WAIT_STATUS"
  BY DEF TickDrained, TickIn, Tick
<1>2. TypeOK'
  BY <1>1, QuietlyKeepsTypeOK DEF Phase
<1>3. SettersSentOnce'
  BY <1>1 DEF Quietly, plan, polling, IInv, SettersSentOnce, Active, Exchange
<1>4. RecoveryIsReadOnly' /\ (~Active => phase \in Resting)'
  BY <1>1 DEF Quietly, plan, polling, IInv, RecoveryIsReadOnly, Active, Resting
<1> QED
  BY <1>2, <1>3, <1>4 DEF IInv

\* The ways in which tick sends a query.
LEMMA TickPollKeepsIInv ==
    ASSUME IInv, NEW baseline \in BOOLEAN,
           Poll(baseline, Waiting, Lapses), lag' = 0, recovering => ~Active,
           IF ~Active \/ baseline
             THEN setters = 0 /\ steps = <<>>
             ELSE step \in DOMAIN steps /\ setters = step
    PROVE  IInv'
<1>1. PollWith(current, baseline, Waiting, Lapses) /\ lag' \in 0 .. MaxLag
  BY ConstantFacts DEF Poll
<1>2. current \in Operation \cup {NoOperation}
  BY DEF IInv, TypeOK, OperationsOK
<1> QED
  BY <1>1, <1>2, WaitingFacts, PollKeepsIInv DEF Active

LEMMA TickPollsKeepIInv ==
    ASSUME IInv, TickIdlePoll \/ TickSettled \/ TickReread \/ TickRecovery
    PROVE  IInv'
<1>1. CASE TickIdlePoll
  <2>1. phase = "IDLE" /\ lag' = 0 /\ Poll(FALSE, Waiting, Lapses)
    BY <1>1 DEF TickIdlePoll, TickIn, Tick
  <2>2. ~Active /\ setters = 0 /\ steps = <<>>
    BY <2>1 DEF IInv, SettersSentOnce, Exchange
  <2> QED
    BY <2>1, <2>2, TickPollKeepsIInv
<1>2. CASE TickSettled
  <2>1. phase = "CONTROL_SETTLE" /\ lag' = 0 /\ Poll(FALSE, Waiting, Lapses)
    BY <1>2 DEF TickSettled, TickIn, Tick
  <2>2. Active /\ step \in DOMAIN steps /\ setters = step
    BY <2>1 DEF IInv, SettersSentOnce, Resting
  <2>3. recovering => ~Active
    BY DEF IInv, RecoveryIsReadOnly
  <2> QED
    BY <2>1, <2>2, <2>3, TickPollKeepsIInv
<1>3. CASE TickReread
  <2>1. /\ phase = "WAIT_STATUS" /\ lag' = 0 /\ Active /\ ~baselinePoll
        /\ Poll(baselinePoll, Waiting, Lapses)
    BY <1>3 DEF TickReread, RereadAllowed, TickIn, Tick
  <2>2. step \in DOMAIN steps /\ setters = step
    BY <2>1 DEF IInv, SettersSentOnce
  <2>3. recovering => ~Active
    BY DEF IInv, RecoveryIsReadOnly
  <2>4. baselinePoll \in BOOLEAN
    BY DEF IInv, TypeOK, PollingOK
  <2> QED
    BY <2>1, <2>2, <2>3, <2>4, TickPollKeepsIInv
<1>4. CASE TickRecovery
  <2>1. phase = "RECOVERY" /\ lag' = 0 /\ Poll(FALSE, Waiting, Lapses)
    BY <1>4 DEF TickRecovery, TickIn, Tick
  <2>2. ~Active /\ setters = 0 /\ steps = <<>>
    BY <2>1 DEF IInv, SettersSentOnce, RecoveryIsReadOnly
  <2> QED
    BY <2>1, <2>2, TickPollKeepsIInv
<1> QED
  BY <1>1, <1>2, <1>3, <1>4

LEMMA TickIdleStartKeepsIInv == ASSUME IInv, TickIdleStart PROVE IInv'
<1>1. /\ phase = "IDLE" /\ lag' = 0 /\ Waiting # <<>>
      /\ PollWith(Head(Waiting), TRUE, Tail(Waiting), Lapses)
  BY DEF TickIdleStart, TickIn, Tick
<1>2. ~Active /\ setters = 0 /\ steps = <<>> /\ ~recovering
  BY <1>1 DEF IInv, SettersSentOnce, RecoveryIsReadOnly, Exchange
<1>3. Waiting \in Seq(Operation) /\ Len(Waiting) \in Nat /\ Len(Waiting) <= QueueCapacity
  BY WaitingFacts, LenProperties
<1>4. /\ Head(Waiting) \in Operation /\ Tail(Waiting) \in Seq(Operation)
      /\ Len(Tail(Waiting)) = Len(Waiting) - 1
  BY <1>1, <1>3, HeadTailProperties
<1>5. Len(Tail(Waiting)) <= QueueCapacity
  BY <1>3, <1>4, ConstantFacts
<1>6. lag' \in 0 .. MaxLag
  BY <1>1, ConstantFacts
<1> QED
  BY <1>1, <1>2, <1>4, <1>5, <1>6, WaitingFacts, PollKeepsIInv

LEMMA TickSendKeepsIInv == ASSUME IInv, TickSend PROVE IInv'
<1>1. /\ phase = "CONTROL_READY" /\ lag' = 0
      /\ nextGeneration' = nextGeneration /\ status' = status
      /\ unverified' = unverified /\ baselinePoll' = baselinePoll
      /\ responseSeen' = responseSeen /\ confirmationPolls' = confirmationPolls
  BY DEF TickSend, TickIn, Tick
<1>2. Active /\ step \in DOMAIN steps /\ setters = step - 1
  BY <1>1 DEF IInv, SettersSentOnce, Resting
<1>3. steps[step].packet \in Packet
  BY <1>2, PlanFacts DEF IInv, TypeOK, PlanOK
<1>4. lag' \in 0 .. MaxLag
  BY <1>1, ConstantFacts
<1>5. CASE /\ Transmit(steps[step].packet, SetterWire)
           /\ queue' = Waiting /\ finished' = Lapses
           /\ setters' = setters + 1
           /\ deadline' = Later(txUntil', ResponseTimeout)
           /\ phase' = "CONTROL_DRAIN"
           /\ UNCHANGED <<current, steps, step, pollRequested, recovering>>
  <2>1. /\ sent' \in Seq(Packet) /\ txStarted' = TRUE
        /\ txUntil' \in Elapsed /\ deadline' \in Elapsed
    BY <1>3, <1>5, TransmitType
  <2>2. setters' = step /\ setters' \in Nat
    BY <1>2, <1>5 DEF IInv, TypeOK, PlanOK
  <2>3. TypeOK'
    BY <1>1, <1>4, <1>5, <2>1, <2>2, WaitingFacts
    DEF IInv, TypeOK, OperationsOK, PlanOK, PollingOK, TimersOK, OutputsOK, Phase
  <2>4. SettersSentOnce'
    BY <1>2, <1>5, <2>2 DEF SettersSentOnce, Active, Exchange
  <2>5. RecoveryIsReadOnly' /\ (~Active => phase \in Resting)'
    BY <1>2, <1>5 DEF IInv, RecoveryIsReadOnly, Active
  <2> QED
    BY <2>3, <2>4, <2>5 DEF IInv
<1>6. CASE /\ Refuse(steps[step].packet)
           /\ Finish("WRITE_FAILED", Waiting, Lapses)
  <2>1. sent' \in Seq(Packet) /\ txStarted' = txStarted /\ txUntil' = txUntil
    BY <1>3, <1>6, RefuseType
  <2>2. FinishWith(current, "WRITE_FAILED", Waiting, Lapses) /\ "WRITE_FAILED" \in Result
    BY <1>6 DEF Finish, Result
  <2>3. /\ current \in Operation \cup {NoOperation}
        /\ status' \in Status /\ unverified' \in BOOLEAN
        /\ baselinePoll' \in BOOLEAN /\ responseSeen' \in BOOLEAN
        /\ confirmationPolls' \in Nat
        /\ txUntil' \in Elapsed /\ txStarted' \in BOOLEAN
    BY <1>1, <2>1 DEF IInv, TypeOK, OperationsOK, PlanOK, PollingOK, TimersOK
  <2> QED
    BY <1>1, <1>4, <2>1, <2>2, <2>3, WaitingFacts, FinishKeepsIInv
<1> QED
  BY <1>5, <1>6 DEF TickSend

LEMMA TickKeepsIInv == ASSUME IInv, TickSteps PROVE IInv'
BY TickExpiredKeepsIInv, TickWaitsKeepsIInv, TickPollsKeepIInv, TickIdleStartKeepsIInv,
   TickBlockedKeepsIInv, TickSendKeepsIInv, TickDrainedKeepsIInv, TickTimeoutKeepsIInv
DEF TickSteps

\* The ways in which an answer ends an operation or a poll.
LEMMA ReceiveFinishKeepsIInv ==
    ASSUME IInv, NEW s \in Statuses, NEW result \in Result,
           Finish(result, queue, <<>>), Stored(s), Unsent, responseSeen' = TRUE,
           unverified' \in BOOLEAN, confirmationPolls' \in Nat
    PROVE  IInv'
<1>1. FinishWith(current, result, queue, <<>>)
  BY DEF Finish
<1>2. /\ current \in Operation \cup {NoOperation}
      /\ queue \in Seq(Operation) /\ Len(queue) <= QueueCapacity
      /\ nextGeneration' = nextGeneration
      /\ baselinePoll' \in BOOLEAN /\ responseSeen' \in BOOLEAN
      /\ txUntil' \in Elapsed /\ txStarted' \in BOOLEAN /\ lag' \in 0 .. MaxLag
  BY DEF IInv, TypeOK, OperationsOK, PollingOK, TimersOK, Unsent
<1>3. sent' \in Seq(Packet) /\ <<>> \in Seq(Callback)
  BY EmptySeq DEF Stored
<1>4. status' \in Status
  BY EnvironmentFacts DEF Stored
<1> QED
  BY <1>1, <1>2, <1>3, <1>4, FinishKeepsIInv

LEMMA ReceiveEndsKeepIInv ==
    ASSUME IInv, NEW s \in Statuses,
           \/ ReceiveIdle(s) \/ ReceiveRuledOut(s)
           \/ ReceiveDryLost(s) \/ ReceiveDone(s)
    PROVE  IInv'
<1>1. unverified \in BOOLEAN /\ confirmationPolls \in Nat
  BY DEF IInv, TypeOK, PlanOK, PollingOK
<1>2. CASE ReceiveIdle(s)
  <2>1. /\ Finish("CONFIRMED", queue, <<>>) /\ Stored(s) /\ Unsent
        /\ responseSeen' = TRUE
        /\ unverified' = unverified /\ confirmationPolls' = confirmationPolls
    BY <1>2 DEF ReceiveIdle
  <2> QED
    BY <1>1, <2>1, ReceiveFinishKeepsIInv DEF Result
<1>3. CASE ReceiveRuledOut(s)
  <2>1. /\ Finish("PREREQUISITE", queue, <<>>) /\ Stored(s) /\ Unsent
        /\ responseSeen' = TRUE
        /\ unverified' = unverified /\ confirmationPolls' = 0
    BY <1>3 DEF ReceiveRuledOut, Answers
  <2> QED
    BY <1>1, <2>1, ReceiveFinishKeepsIInv DEF Result
<1>4. CASE ReceiveDryLost(s)
  <2>1. /\ Finish("PREREQUISITE", queue, <<>>) /\ Stored(s) /\ Unsent
        /\ responseSeen' = TRUE
        /\ unverified' = unverified /\ confirmationPolls' = confirmationPolls
    BY <1>4 DEF ReceiveDryLost, Confirming, Answers
  <2> QED
    BY <1>1, <2>1, ReceiveFinishKeepsIInv DEF Result
<1>5. CASE ReceiveDone(s)
  <2> DEFINE result == IF unverified THEN "UNVERIFIED" ELSE "CONFIRMED"
  <2>1. /\ Finish(result, queue, <<>>) /\ Stored(s) /\ Unsent
        /\ responseSeen' = TRUE
        /\ unverified' = unverified /\ confirmationPolls' = confirmationPolls
    BY <1>5 DEF ReceiveDone, Confirming, Answers
  <2>2. result \in Result
    BY DEF Result
  <2> HIDE DEF result
  <2> QED
    BY <1>1, <2>1, <2>2, ReceiveFinishKeepsIInv
<1> QED
  BY <1>2, <1>3, <1>4, <1>5

\* The ways in which an answer leaves the operation as it is.
LEMMA ReceiveNothingKeepsIInv ==
    ASSUME IInv, NEW s \in Statuses,
           ReceiveIgnored(s) \/ ReceiveTooLate(s) \/ ReceiveStale(s)
    PROVE  IInv'
<1>1. /\ Stored(s) /\ Unsent /\ finished' = <<>>
      /\ responseSeen' \in {responseSeen, TRUE}
      /\ UNCHANGED <<queue, current, plan, pollRequested, recovering,
                     confirmationPolls, deadline>>
      /\ IF phase \in {"WAIT_STATUS", "POLL_DRAIN"}
           THEN phase' \in {phase, "WAIT_STATUS"} ELSE phase' = phase
  BY DEF ReceiveIgnored, ReceiveTooLate, ReceiveStale, Confirming, Answers, Counts, Listening
<1>2. sent' \in Seq(Packet) /\ finished' \in Seq(Callback)
  BY <1>1, EmptySeq DEF Stored
<1>3. status' \in Status
  BY <1>1, EnvironmentFacts DEF Stored
<1>4. TypeOK'
  BY <1>1, <1>2, <1>3
  DEF Unsent, plan, IInv, TypeOK, OperationsOK, PlanOK, PollingOK, TimersOK, OutputsOK, Phase
<1>5. SettersSentOnce'
  BY <1>1 DEF Unsent, plan, IInv, SettersSentOnce, Active, Exchange
<1>6. RecoveryIsReadOnly' /\ (~Active => phase \in Resting)'
  BY <1>1 DEF Unsent, plan, IInv, RecoveryIsReadOnly, Active, Resting
<1> QED
  BY <1>4, <1>5, <1>6 DEF IInv

LEMMA ReceiveStepKeepsIInv ==
    ASSUME IInv, NEW s \in Statuses, ReceiveStep(s)
    PROVE  IInv'
<1>1. /\ Stored(s) /\ Unsent /\ finished' = <<>> /\ responseSeen' = TRUE
      /\ Active /\ ~baselinePoll /\ step # Len(steps)
      /\ phase \in {"WAIT_STATUS", "POLL_DRAIN"}
      /\ step' = step + 1 /\ confirmationPolls' = 0 /\ phase' = "CONTROL_READY"
      /\ UNCHANGED <<queue, current, steps, unverified, setters, pollRequested,
                     recovering, deadline>>
  BY DEF ReceiveStep, Confirming, Answers, Counts, Listening, LastStep
<1>2. step \in DOMAIN steps /\ setters = step
  BY <1>1 DEF IInv, SettersSentOnce
<1>3. step' \in DOMAIN steps /\ step' \in Nat \ {0} /\ setters' = step' - 1
  BY <1>1, <1>2, PlanFacts DEF IInv, TypeOK, PlanOK
<1>4. sent' \in Seq(Packet) /\ finished' \in Seq(Callback)
  BY <1>1, EmptySeq DEF Stored
<1>5. status' \in Status
  BY <1>1, EnvironmentFacts DEF Stored
<1>6. TypeOK'
  BY <1>1, <1>3, <1>4, <1>5
  DEF Unsent, IInv, TypeOK, OperationsOK, PlanOK, PollingOK, TimersOK, OutputsOK, Phase
<1>7. SettersSentOnce' /\ RecoveryIsReadOnly' /\ (~Active => phase \in Resting)'
  BY <1>1, <1>3 DEF IInv, SettersSentOnce, RecoveryIsReadOnly, Active
<1> QED
  BY <1>6, <1>7 DEF IInv

LEMMA ReceiveBaselineKeepsIInv ==
    ASSUME IInv, NEW s \in Statuses, ReceiveBaseline(s)
    PROVE  IInv'
<1> DEFINE made == Plan(s, current.request)
<1>1. /\ Stored(s) /\ Unsent /\ responseSeen' = TRUE /\ Active
      /\ confirmationPolls' = 0
      /\ unverified' = Names(current.request, "preset")
  BY DEF ReceiveBaseline, Answers
<1>2. IF Len(made) \in 1 .. MaxSteps
        THEN /\ steps' = made /\ step' = 1 /\ setters' = 0
             /\ phase' = "CONTROL_READY" /\ finished' = <<>>
             /\ UNCHANGED <<queue, current, pollRequested, recovering, deadline>>
        ELSE Finish(IF made = <<>> THEN "CONFIRMED" ELSE "UNSUPPORTED", queue, <<>>)
  BY DEF ReceiveBaseline
<1>3. unverified' \in BOOLEAN
  BY <1>1 DEF Names
<1>4. IsPlan(made)
  <2>1. s \in Status
    BY EnvironmentFacts
  <2>2. current.request \in Accepted
    BY <1>1 DEF IInv, TypeOK, OperationsOK, Active, Operation
  <2> QED
    BY <2>1, <2>2, PlanIsPlan
<1> HIDE DEF made
<1>5. CASE Len(made) \in 1 .. MaxSteps
  <2>1. /\ steps' = made /\ step' = 1 /\ setters' = 0
        /\ phase' = "CONTROL_READY" /\ finished' = <<>>
        /\ UNCHANGED <<queue, current, pollRequested, recovering, deadline>>
    BY <1>2, <1>5
  <2>2. 1 \in DOMAIN made /\ Len(made) <= MaxSteps
    BY <1>4, <1>5, PlanFacts
  <2>3. sent' \in Seq(Packet) /\ finished' \in Seq(Callback)
    BY <1>1, <2>1, EmptySeq DEF Stored
  <2>4. status' \in Status
    BY <1>1, EnvironmentFacts DEF Stored
  <2>5. TypeOK'
    BY <1>1, <1>3, <1>4, <2>1, <2>2, <2>3, <2>4
    DEF Unsent, IInv, TypeOK, OperationsOK, PlanOK, PollingOK, TimersOK, OutputsOK, Phase
  <2>6. SettersSentOnce' /\ RecoveryIsReadOnly' /\ (~Active => phase \in Resting)'
    BY <1>1, <2>1, <2>2 DEF IInv, SettersSentOnce, RecoveryIsReadOnly, Active
  <2> QED
    BY <2>5, <2>6 DEF IInv
<1>6. CASE Len(made) \notin 1 .. MaxSteps
  <2> DEFINE result == IF made = <<>> THEN "CONFIRMED" ELSE "UNSUPPORTED"
  <2>1. Finish(result, queue, <<>>)
    BY <1>2, <1>6
  <2>2. result \in Result
    BY DEF Result
  <2>3. confirmationPolls' \in Nat
    BY <1>1
  <2> HIDE DEF result
  <2> QED
    BY <1>1, <1>3, <2>1, <2>2, <2>3, ReceiveFinishKeepsIInv
<1> QED
  BY <1>5, <1>6

LEMMA ReceiveKeepsIInv ==
    ASSUME IInv, NEW s \in Statuses, Receive(s)
    PROVE  IInv'
BY ReceiveEndsKeepIInv, ReceiveNothingKeepsIInv, ReceiveStepKeepsIInv,
   ReceiveBaselineKeepsIInv
DEF Receive

LEMMA NextKeepsIInv == ASSUME IInv, [Next]_vars PROVE IInv'
<1>1. CASE Next
  BY <1>1, AdvanceKeepsIInv, RequestPollKeepsIInv, TickKeepsIInv, EnqueueKeepsIInv,
     ReceiveKeepsIInv
  DEF Next
<1>2. CASE UNCHANGED vars
  BY <1>2
  DEF vars, plan, polling, timers, outputs, IInv, TypeOK, OperationsOK, PlanOK, PollingOK,
      TimersOK, OutputsOK, SettersSentOnce, RecoveryIsReadOnly, Active, Resting
<1> QED
  BY <1>1, <1>2

(***************************************************************************)
(* What a step does not report: no event with one of these results.        *)
(***************************************************************************)
Excludes(events, R) == \A i \in DOMAIN events : events[i].result \notin R

LEMMA NothingExcludes == \A R : Excludes(<<>>, R)
<1>1. DOMAIN <<>> = {}
  OBVIOUS
<1> QED
  BY <1>1 DEF Excludes

LEMMA OneExcludes ==
    ASSUME NEW event, NEW R, event.result \notin R
    PROVE  Excludes(<<event>>, R)
<1>1. \A c : DOMAIN <<c>> = {1} /\ <<c>>[1] = c
  OBVIOUS
<1> QED
  BY <1>1 DEF Excludes

LEMMA OutcomesExclude ==
    ASSUME NEW ops, NEW result, NEW R, result \notin R
    PROVE  Excludes(Outcomes(ops, result), R)
BY DEF Excludes, Outcomes, Outcome

LEMMA VerdictExcludes ==
    ASSUME NEW op, NEW result, NEW R, result \notin R
    PROVE  Excludes(Verdict(op, result), R)
BY NothingExcludes, OneExcludes DEF Verdict, Outcome, When

LEMMA ConcatExcludes ==
    ASSUME NEW a \in Seq(Callback), NEW b \in Seq(Callback), NEW R,
           Excludes(a, R), Excludes(b, R)
    PROVE  a \o b \in Seq(Callback) /\ Excludes(a \o b, R)
<1>1. /\ a \o b \in Seq(Callback)
      /\ Len(a \o b) = Len(a) + Len(b)
      /\ \A i \in 1 .. Len(a) + Len(b) :
            (a \o b)[i] = IF i <= Len(a) THEN a[i] ELSE b[i - Len(a)]
  BY ConcatProperties
<1>2. /\ Len(a) \in Nat /\ DOMAIN a = 1 .. Len(a)
      /\ Len(b) \in Nat /\ DOMAIN b = 1 .. Len(b)
  BY LenProperties
<1>3. DOMAIN (a \o b) = 1 .. Len(a) + Len(b)
  BY <1>1, LenProperties
<1>4. ASSUME NEW i \in 1 .. Len(a) + Len(b)
      PROVE  (a \o b)[i].result \notin R
  <2>1. CASE i <= Len(a)
    <3>1. i \in DOMAIN a /\ (a \o b)[i] = a[i]
      BY <1>1, <1>2, <2>1
    <3> QED
      BY <3>1 DEF Excludes
  <2>2. CASE ~(i <= Len(a))
    <3>1. i - Len(a) \in DOMAIN b /\ (a \o b)[i] = b[i - Len(a)]
      BY <1>1, <1>2, <2>2
    <3> QED
      BY <3>1 DEF Excludes
  <2> QED
    BY <2>1, <2>2
<1> QED
  BY <1>1, <1>3, <1>4 DEF Excludes

LEMMA LapsesExclude == \A R : "EXPIRED" \notin R => Excludes(Lapses, R)
BY OutcomesExclude DEF Lapses

LEMMA FinishExcludes ==
    ASSUME NEW op \in Operation \cup {NoOperation}, NEW result \in Result,
           NEW q \in Seq(Operation), NEW events \in Seq(Callback),
           NEW R, result \notin R, "CANCELLED" \notin R, Excludes(events, R),
           FinishWith(op, result, q, events)
    PROVE  Excludes(finished', R)
<1>1. Verdict(op, result) \in Seq(Callback) /\ Excludes(Verdict(op, result), R)
  BY VerdictType, VerdictExcludes
<1>2. Outcomes(q, "CANCELLED") \in Seq(Callback) /\ Excludes(Outcomes(q, "CANCELLED"), R)
  BY OutcomesType, OutcomesExclude DEF Result
<1>3. events \o Verdict(op, result) \in Seq(Callback)
      /\ Excludes(events \o Verdict(op, result), R)
  BY <1>1, ConcatExcludes
<1>4. Excludes((events \o Verdict(op, result)) \o Outcomes(q, "CANCELLED"), R)
  BY <1>2, <1>3, ConcatExcludes
<1>5. \/ finished' = events \o Verdict(op, result) \o Outcomes(q, "CANCELLED")
      \/ finished' = events \o Verdict(op, result)
  BY DEF FinishWith
<1> QED
  BY <1>3, <1>4, <1>5

\* The cases of tick that hand a packet to the UART.
TickTransmits ==
    \/ TickIdlePoll \/ TickIdleStart \/ TickSend \/ TickSettled \/ TickReread
    \/ TickRecovery

LEMMA PollExcludes ==
    ASSUME NEW op \in Operation \cup {NoOperation}, NEW baseline,
           NEW q \in Seq(Operation), NEW events \in Seq(Callback),
           NEW R, "WRITE_FAILED" \notin R, "CANCELLED" \notin R, Excludes(events, R),
           PollWith(op, baseline, q, events)
    PROVE  Excludes(finished', R)
<1>1. "WRITE_FAILED" \in Result
  BY DEF Result
<1>2. finished' = events \/ FinishWith(op, "WRITE_FAILED", q, events)
  BY DEF PollWith
<1> QED
  BY <1>1, <1>2, FinishExcludes

\* What tick reports, beside what has expired and what is cancelled.
LEMMA TickExcludes ==
    ASSUME IInv, TickSteps, NEW R, "EXPIRED" \notin R, "CANCELLED" \notin R,
           TickBlocked => "PREREQUISITE" \notin R,
           TickTimeout => "TIMEOUT" \notin R,
           TickTransmits => "WRITE_FAILED" \notin R
    PROVE  Excludes(finished', R)
<1>1. /\ current \in Operation \cup {NoOperation}
      /\ Waiting \in Seq(Operation) /\ Lapses \in Seq(Callback) /\ Excludes(Lapses, R)
  BY WaitingFacts, LapsesExclude DEF IInv, TypeOK, OperationsOK
<1>2. CASE TickExpired \/ TickBlocked \/ TickTimeout
  <2>1. \E result \in Result \ R : FinishWith(current, result, Waiting, Lapses)
    <3>1. CASE TickExpired
      BY <3>1 DEF TickExpired, Finish, Result
    <3>2. CASE TickBlocked
      <4>1. Finish("PREREQUISITE", Waiting, Lapses)
        BY <3>2 DEF TickBlocked
      <4> QED
        BY <3>2, <4>1 DEF Finish, Result
    <3>3. CASE TickTimeout
      <4>1. Finish("TIMEOUT", Waiting, Lapses)
        BY <3>3 DEF TickTimeout
      <4> QED
        BY <3>3, <4>1 DEF Finish, Result
    <3> QED
      BY <1>2, <3>1, <3>2, <3>3
  <2> QED
    BY <1>1, <2>1, FinishExcludes
<1>3. CASE TickWaits \/ TickDrained
  BY <1>1, <1>3 DEF TickWaits, TickDrained, Quietly
<1>4. CASE TickIdlePoll \/ TickSettled \/ TickReread \/ TickRecovery
  <2>1. \E baseline : PollWith(current, baseline, Waiting, Lapses)
    BY <1>4 DEF TickIdlePoll, TickSettled, TickReread, TickRecovery, Poll
  <2>2. "WRITE_FAILED" \notin R
    BY <1>4 DEF TickTransmits
  <2> QED
    BY <1>1, <2>1, <2>2, PollExcludes
<1>5. CASE TickIdleStart
  <2>1. Waiting # <<>> /\ PollWith(Head(Waiting), TRUE, Tail(Waiting), Lapses)
    BY <1>5 DEF TickIdleStart
  <2>2. Head(Waiting) \in Operation /\ Tail(Waiting) \in Seq(Operation)
    BY <1>1, <2>1, HeadTailProperties
  <2>3. "WRITE_FAILED" \notin R
    BY <1>5 DEF TickTransmits
  <2> QED
    BY <1>1, <2>1, <2>2, <2>3, PollExcludes
<1>6. CASE TickSend
  <2>1. "WRITE_FAILED" \in Result /\ "WRITE_FAILED" \notin R
    BY <1>6 DEF Result, TickTransmits
  <2>2. finished' = Lapses \/ FinishWith(current, "WRITE_FAILED", Waiting, Lapses)
    BY <1>6 DEF TickSend, Finish
  <2> QED
    BY <1>1, <2>1, <2>2, FinishExcludes
<1> QED
  BY <1>2, <1>3, <1>4, <1>5, <1>6 DEF TickSteps

LEMMA CallExcludes ==
    ASSUME Advance \/ RequestPoll \/ \E r \in Requests : Enqueue(r),
           NEW R, "SUPERSEDED" \notin R
    PROVE  Excludes(finished', R)
<1>1. finished' = <<>> \/ \E op : finished' = <<Outcome(op, "SUPERSEDED")>>
  BY DEF Advance, RequestPoll, Enqueue, Reject, Admit, Supersede
<1>2. \A op : Outcome(op, "SUPERSEDED").result \notin R
  BY DEF Outcome
<1> QED
  BY <1>1, <1>2, NothingExcludes, OneExcludes

\* An answer is never a reason to report silence or a refused write.
LEMMA ReceiveExcludes ==
    ASSUME IInv, NEW s \in Statuses, Receive(s)
    PROVE  Excludes(finished', {"TIMEOUT", "WRITE_FAILED"})
<1> DEFINE R == {"TIMEOUT", "WRITE_FAILED"}
<1>1. /\ current \in Operation \cup {NoOperation} /\ queue \in Seq(Operation)
      /\ <<>> \in Seq(Callback) /\ Excludes(<<>>, R)
  BY EmptySeq, NothingExcludes DEF IInv, TypeOK, OperationsOK
<1>2. \/ finished' = <<>>
      \/ \E result \in {"CONFIRMED", "UNVERIFIED", "PREREQUISITE", "UNSUPPORTED"} :
            FinishWith(current, result, queue, <<>>)
  <2>1. CASE ReceiveIgnored(s) \/ ReceiveTooLate(s) \/ ReceiveStale(s) \/ ReceiveStep(s)
    BY <2>1 DEF ReceiveIgnored, ReceiveTooLate, ReceiveStale, ReceiveStep
  <2>2. CASE ReceiveIdle(s) \/ ReceiveRuledOut(s) \/ ReceiveDryLost(s) \/ ReceiveDone(s)
    BY <2>2 DEF ReceiveIdle, ReceiveRuledOut, ReceiveDryLost, ReceiveDone, Finish
  <2>3. CASE ReceiveBaseline(s)
    <3>1. \/ finished' = <<>>
          \/ \E result \in {"CONFIRMED", "UNSUPPORTED"} : Finish(result, queue, <<>>)
      BY <2>3 DEF ReceiveBaseline
    <3> QED
      BY <3>1 DEF Finish
  <2> QED
    BY <2>1, <2>2, <2>3 DEF Receive
<1>3. \A result \in {"CONFIRMED", "UNVERIFIED", "PREREQUISITE", "UNSUPPORTED"} :
          result \in Result /\ result \notin R
  BY DEF Result
<1>4. "CANCELLED" \notin R
  OBVIOUS
<1> HIDE DEF R
<1>5. Excludes(finished', R)
  BY <1>1, <1>2, <1>3, <1>4, FinishExcludes
<1> QED
  BY <1>5 DEF R

(***************************************************************************)
(* The theorems about the invariant.                                       *)
(***************************************************************************)
LEMMA Invariance == Spec => []IInv
<1>1. Init => IInv
  BY InitIInv
<1>2. IInv /\ [Next]_vars => IInv'
  BY NextKeepsIInv
<1> QED
  BY <1>1, <1>2, PTL DEF Spec

\* The engine never leaves its types, whatever the calls, the answers and the
\* delays: no generation is 0, the queue and the plan fit their arrays, and
\* every timestamp is one of the clock.
THEOREM TypeCorrect == Spec => []TypeOK
<1>1. IInv => TypeOK
  BY DEF IInv
<1> QED
  BY <1>1, Invariance, PTL

\* No setter is ever sent twice, and none before the baseline status.
THEOREM NoSetterRetry == Spec => []SettersSentOnce
<1>1. IInv => SettersSentOnce
  BY DEF IInv
<1> QED
  BY <1>1, Invariance, PTL

\* Recovery from a failure is one poll with no operation under way.
THEOREM ReadOnlyRecovery == Spec => []RecoveryIsReadOnly
<1>1. IInv => RecoveryIsReadOnly
  BY DEF IInv
<1> QED
  BY <1>1, Invariance, PTL
=============================================================================
