----------------------------- MODULE PlanProofs -----------------------------
(***************************************************************************)
(* Proofs about plans, for every value of the constants.  What a           *)
(* confirmation is worth: the status that confirms an operation shows all  *)
(* that it asked for, after all of its setters, or without any because the *)
(* baseline showed it already.  What is sent: a step of the plan made from *)
(* a baseline that did not rule the operation out, when the status just    *)
(* before it is the one the step was planned for.                          *)
(***************************************************************************)
EXTENDS TransportProofs

(***************************************************************************)
(* An empty plan: the baseline shows what is asked for.                    *)
(***************************************************************************)
LEMMA OnlyFacts ==
    ASSUME NEW r, NEW F, NEW f
    PROVE  /\ Names(Only(r, F), f) <=> Names(r, f) /\ f \in F
           /\ Names(Only(r, F), f) => Only(r, F)[f] = r[f]
BY DEF Names, Only

LEMMA AcceptedFacts ==
    ASSUME NEW r \in Accepted
    PROVE  ~Names(r, "power") /\ (Names(r, "swing") => r["swing"] \in Swing)
<1>1. PICK x \in Requests : Valid(x) /\ r = Normalized(x)
  BY DEF Accepted
<1>2. ~Names(x, "power") /\ (Names(x, "swing") => x["swing"] \in Swing)
  BY <1>1 DEF Valid
<1>3. DOMAIN r = DOMAIN x /\ \A f \in DOMAIN x \ {"temperature"} : r[f] = x[f]
  <2>1. IsIntent(x)
    BY EnvironmentFacts
  <2> QED
    BY <1>1, <2>1 DEF Normalized, Names, IsIntent
<1> QED
  BY <1>2, <1>3 DEF Names

\* A part of what a status shows is shown by it.
LEMMA PartMatches ==
    ASSUME NEW s, NEW r, NEW F, Matches(s, r)
    PROVE  Matches(s, Only(r, F))
<1> DEFINE p == Only(r, F)
<1>1. \A f : (Names(p, f) => Names(r, f)) /\ (Names(p, f) => p[f] = r[f])
  BY OnlyFacts
<1> HIDE DEF p
<1>2. Matches(s, p)
  BY <1>1 DEF Matches
<1> QED
  BY <1>2 DEF p

LEMMA ConcatEmpty ==
    ASSUME NEW p, NEW q, IsPlan(p), IsPlan(q), p \o q = <<>>
    PROVE  p = <<>> /\ q = <<>>
<1> DEFINE S == Range(p) \cup Range(q)
<1>1. p \in Seq(S) /\ q \in Seq(S)
  BY DEF IsPlan, Range
<1>2. Len(p \o q) = Len(p) + Len(q) /\ Len(p) \in Nat /\ Len(q) \in Nat
  BY <1>1, ConcatProperties, LenProperties
<1>3. Len(p \o q) = 0
  BY EmptySeq
<1>4. Len(p) = 0 /\ Len(q) = 0
  BY <1>2, <1>3
<1> QED
  BY <1>4, PlanFacts

LEMMA WhenEmpty ==
    ASSUME NEW condition \in BOOLEAN, NEW t, When(condition, <<t>>) = <<>>
    PROVE  ~condition
<1>1. <<t>> # <<>>
  OBVIOUS
<1> QED
  BY <1>1 DEF When

\* A swing is told by its axes.
LEMMA AxesTellSwing ==
    ASSUME NEW v \in Swing, NEW w \in Swing,
           Moves(v, 1) = Moves(w, 1), Moves(v, 2) = Moves(w, 2)
    PROVE  v = w
<1>1. /\ v \in {0, 1, 2, 3} /\ w \in {0, 1, 2, 3}
  BY DEF Swing
<1>2. /\ Moves(0, 1) = 0 /\ Moves(1, 1) = 1 /\ Moves(2, 1) = 0 /\ Moves(3, 1) = 1
      /\ Moves(0, 2) = 0 /\ Moves(1, 2) = 0 /\ Moves(2, 2) = 1 /\ Moves(3, 2) = 1
  BY DEF Moves
<1> QED
  BY <1>1, <1>2

LEMMA NoSwingSteps ==
    ASSUME NEW s \in Status, NEW r, IsIntent(r),
           Names(r, "swing") => r["swing"] \in Swing,
           SwingSteps(s, r) = <<>>
    PROVE  Names(r, "swing") => s.swing = r["swing"]
<1> SUFFICES ASSUME Names(r, "swing") PROVE s.swing = r["swing"]
  OBVIOUS
<1> DEFINE v       == s.swing
           w       == r["swing"]
           first   == FirstAxis(v, w)
           second  == Horizontal + Vertical - first
           halfway == Turned(v, w, first)
<1>1. v \in Swing /\ w \in Swing /\ v \in Int /\ w \in Int
  BY DEF Status, Swing
<1>2. \/ first = 1 /\ second = 2
      \/ first = 2 /\ second = 1
  BY DEF FirstAxis, Horizontal, Vertical
<1>3. AxisSteps(v, w, first) \o AxisSteps(halfway, w, second) = <<>>
  BY DEF SwingSteps
<1>4. \A before, axis \in Int : axis \in {1, 2} => IsPlan(AxisSteps(before, w, axis))
  <2> SUFFICES ASSUME NEW before \in Int, NEW axis \in {1, 2}
               PROVE  IsPlan(AxisSteps(before, w, axis))
    OBVIOUS
  <2>1. /\ Moves(before, axis) \in Int /\ Moves(w, axis) \in Int
        /\ Turned(before, w, axis) \in Int
    BY <1>1 DEF Moves, Turned
  <2>2. \A x \in Int : IsIntent(Swings(x))
    BY DEF IsIntent, Swings, Field
  <2>3. IsPlanStep(Setter("swing", axis + 4 * Moves(w, axis),
                          Swings(Turned(before, w, axis)), Swings(before)))
    BY <2>1, <2>2, SetterIsStep DEF SetterName
  <2> QED
    BY <2>3, OneStepPlan DEF AxisSteps
<1>5. halfway \in Int /\ first \in {1, 2} /\ second \in {1, 2}
  <2>1. first \in Int /\ Moves(v, first) \in Int /\ Moves(w, first) \in Int
    BY <1>1, <1>2 DEF Moves
  <2> QED
    BY <1>1, <1>2, <2>1 DEF Turned
<1> HIDE DEF v, w, first, second, halfway
<1>6. AxisSteps(v, w, first) = <<>> /\ AxisSteps(halfway, w, second) = <<>>
  BY <1>1, <1>3, <1>4, <1>5, ConcatEmpty
<1>7. \A before, axis : AxisSteps(before, w, axis) = <<>>
                           => Moves(before, axis) = Moves(w, axis)
  BY WhenEmpty DEF AxisSteps
<1>8. Moves(v, first) = Moves(w, first) /\ Moves(halfway, second) = Moves(w, second)
  BY <1>6, <1>7
<1>9. halfway = v
  <2>1. Moves(w, first) \in Int
    BY <1>1, <1>5 DEF Moves
  <2>2. Moves(w, first) - Moves(v, first) = 0
    BY <1>8, <2>1
  <2>3. halfway = v + first * 0
    BY <2>2 DEF halfway, Turned
  <2> QED
    BY <1>1, <1>5, <2>3
<1>10. Moves(v, 1) = Moves(w, 1) /\ Moves(v, 2) = Moves(w, 2)
  BY <1>2, <1>8, <1>9
<1> QED
  BY <1>1, <1>10, AxesTellSwing DEF v, w

LEMMA NoPresetSteps ==
    ASSUME NEW r, IsIntent(r), PresetSteps(r) = <<>>
    PROVE  ~Names(r, "preset")
<1> SUFFICES ASSUME Names(r, "preset") PROVE FALSE
  OBVIOUS
<1> DEFINE t == Setter("preset", r["preset"], NoIntent, NoIntent)
           u == Setter("ecoOff", 0, NoIntent, NoIntent)
<1>1. r["preset"] \in Int
  BY DEF IsIntent, Names
<1>2. IsPlanStep(t) /\ IsPlanStep(u)
  BY <1>1, NoIntentIsIntent, SetterIsStep DEF SetterName
<1>3. <<t>> \o When(r["preset"] = 0, <<u>>) = <<>>
  BY DEF PresetSteps
<1> HIDE DEF t, u
<1>4. IsPlan(<<t>>) /\ IsPlan(When(r["preset"] = 0, <<u>>))
  BY <1>2, OneStepPlan DEF When
<1>5. <<t>> = <<>>
  BY <1>3, <1>4, ConcatEmpty
<1> QED
  BY <1>5

LEMMA NoFieldSteps ==
    ASSUME NEW s \in Status, NEW r, IsIntent(r),
           ModeSteps(s, r) = <<>>, TemperatureSteps(s, r) = <<>>,
           FanSteps(s, r) = <<>>, DisplaySteps(s, r) = <<>>
    PROVE  \A f \in {"mode", "temperature", "fan", "display"} :
              Names(r, f) => Matches(s, Only(r, {f}))
<1>1. /\ Differs(s, r, "mode") \in BOOLEAN /\ Differs(s, r, "temperature") \in BOOLEAN
      /\ Differs(s, r, "fan") \in BOOLEAN /\ Differs(s, r, "display") \in BOOLEAN
      /\ Names(r, "temperature") \in BOOLEAN /\ Names(r, "mode") \in BOOLEAN
  BY DEF Differs, Names
<1>2. ~Differs(s, r, "mode")
  BY <1>1, WhenEmpty DEF ModeSteps
<1>3. ~(Names(r, "temperature") /\ (Names(r, "mode") \/ Differs(s, r, "temperature")))
  BY <1>1, WhenEmpty DEF TemperatureSteps
<1>4. ~Differs(s, r, "fan")
  BY <1>1, WhenEmpty DEF FanSteps
<1>5. ~Differs(s, r, "display")
  BY <1>1, WhenEmpty DEF DisplaySteps
<1> QED
  BY <1>2, <1>3, <1>4, <1>5 DEF Differs

\* An operation for which nothing is to be sent asks for what the unit shows,
\* and for no preset, which no status shows.
THEOREM EmptyPlanMeansShown ==
    ASSUME NEW s \in Status, NEW r \in Accepted, Plan(s, r) = <<>>
    PROVE  Matches(s, Final(r)) /\ ~Names(r, "preset")
<1>1. IsIntent(r)
  BY AcceptedIsIntent
<1>2. CASE Names(r, "dryOffset")
  <2>1. Matches(s, r)
    <3>1. DryOffsetSteps(s, r) = <<>> /\ Matches(s, r) \in BOOLEAN
      BY <1>2 DEF Plan, Matches
    <3> QED
      BY <3>1, WhenEmpty DEF DryOffsetSteps
  <2>2. Matches(s, Final(r))
    BY <2>1, PartMatches DEF Final
  <2> QED
    BY <2>1, <2>2 DEF Matches
<1>3. CASE ~Names(r, "dryOffset")
  <2>1. BuiltSteps(s, r) = <<>>
    BY <1>3 DEF Plan
  <2> DEFINE p1 == PowerSteps(s, r) \o ModeSteps(s, r)
             p2 == p1 \o TemperatureSteps(s, r)
             p3 == p2 \o FanSteps(s, r)
             p4 == p3 \o SwingSteps(s, r)
             p5 == p4 \o PresetSteps(r)
  <2>2. p5 \o DisplaySteps(s, r) = <<>>
    BY <2>1 DEF BuiltSteps
  <2> HIDE DEF p1, p2, p3, p4, p5
  <2>3. IsPlan(p1)
    BY <1>1, FieldStepsPlan, PlanConcat DEF p1
  <2>4. IsPlan(p2)
    BY <1>1, <2>3, FieldStepsPlan, PlanConcat DEF p2
  <2>5. IsPlan(p3)
    BY <1>1, <2>4, FieldStepsPlan, PlanConcat DEF p3
  <2>6. IsPlan(p4)
    BY <1>1, <2>5, SwingStepsPlan, PlanConcat DEF p4
  <2>7. IsPlan(p5)
    BY <1>1, <2>6, PresetStepsPlan, PlanConcat DEF p5
  <2>8. p5 = <<>> /\ DisplaySteps(s, r) = <<>>
    BY <1>1, <2>2, <2>7, FieldStepsPlan, ConcatEmpty
  <2>9. p4 = <<>> /\ PresetSteps(r) = <<>>
    BY <1>1, <2>6, <2>8, PresetStepsPlan, ConcatEmpty DEF p5
  <2>10. p3 = <<>> /\ SwingSteps(s, r) = <<>>
    BY <1>1, <2>5, <2>9, SwingStepsPlan, ConcatEmpty DEF p4
  <2>11. p2 = <<>> /\ FanSteps(s, r) = <<>>
    BY <1>1, <2>4, <2>10, FieldStepsPlan, ConcatEmpty DEF p3
  <2>12. p1 = <<>> /\ TemperatureSteps(s, r) = <<>>
    BY <1>1, <2>3, <2>11, FieldStepsPlan, ConcatEmpty DEF p2
  <2>13. ModeSteps(s, r) = <<>>
    BY <1>1, <2>12, FieldStepsPlan, ConcatEmpty DEF p1
  <2>14. /\ ~Names(r, "preset") /\ ~Names(r, "power")
         /\ Names(r, "swing") => s.swing = r["swing"]
    BY <1>1, <2>9, <2>10, NoPresetSteps, NoSwingSteps, AcceptedFacts
  <2>15. \A f \in {"mode", "temperature", "fan", "display"} :
            Names(r, f) => Matches(s, Only(r, {f}))
    BY <1>1, <2>8, <2>11, <2>12, <2>13, NoFieldSteps
  <2>16. /\ Names(r, "mode") => IF r["mode"] = ModeOff THEN s.run = 0
                                ELSE s.run # 0 /\ s.mode = r["mode"]
         /\ Names(r, "temperature") => s.setpoint = r["temperature"]
         /\ Names(r, "fan") => NormalFan(s.wind) = r["fan"]
         /\ Names(r, "display") => s.backLed = r["display"]
    <3>1. \A f : Names(r, f) => /\ Names(Only(r, {f}), f)
                                /\ Only(r, {f})[f] = r[f]
      BY OnlyFacts
    <3> QED
      BY <2>15, <3>1 DEF Matches
  <2>17. Matches(s, r)
    BY <1>3, <2>14, <2>16 DEF Matches
  <2> QED
    BY <2>14, <2>17, PartMatches DEF Final
<1> QED
  BY <1>2, <1>3

(***************************************************************************)
(* Failures are not confirmations.                                         *)
(***************************************************************************)
Success == {"CONFIRMED", "UNVERIFIED"}

NoSuccess(events) == Excludes(events, Success)

LEMMA NothingIsNoSuccess == NoSuccess(<<>>)
BY NothingExcludes DEF NoSuccess

LEMMA FailureReported ==
    ASSUME NEW op \in Operation \cup {NoOperation},
           NEW result \in Result, result \notin Success,
           NEW q \in Seq(Operation),
           NEW events \in Seq(Callback), NoSuccess(events),
           FinishWith(op, result, q, events)
    PROVE  NoSuccess(finished')
<1>1. "CANCELLED" \notin Success /\ Excludes(events, Success)
  BY DEF NoSuccess, Success
<1> QED
  BY <1>1, FinishExcludes DEF NoSuccess

LEMMA TickNoSuccess == ASSUME IInv, TickSteps PROVE NoSuccess(finished')
<1>1. {"EXPIRED", "CANCELLED", "PREREQUISITE", "TIMEOUT", "WRITE_FAILED"} \cap Success = {}
  BY DEF Success
<1> QED
  BY <1>1, TickExcludes DEF NoSuccess

LEMMA CallNoSuccess ==
    ASSUME Advance \/ RequestPoll \/ \E r \in Requests : Enqueue(r)
    PROVE  NoSuccess(finished')
<1>1. "SUPERSEDED" \notin Success
  BY DEF Success
<1> QED
  BY <1>1, CallExcludes DEF NoSuccess

(***************************************************************************)
(* The invariant: once a plan is made, it is known whether a preset makes  *)
(* the outcome unverified.                                                 *)
(***************************************************************************)
CInv == Active /\ steps # <<>> => (unverified <=> Names(current.request, "preset"))

LEMMA FinishKeepsCInv ==
    ASSUME NEW op, NEW result, NEW q, NEW events, FinishWith(op, result, q, events)
    PROVE  CInv'
BY DEF FinishWith, CInv, Active

LEMMA PollKeepsCInv ==
    ASSUME CInv, NEW op, NEW baseline, NEW q, NEW events,
           PollWith(op, baseline, q, events), op = current \/ steps = <<>>
    PROVE  CInv'
<1>1. CASE FinishWith(op, "WRITE_FAILED", q, events)
  BY <1>1, FinishKeepsCInv
<1>2. CASE current' = op /\ steps' = steps /\ unverified' = unverified
  BY <1>2 DEF CInv, Active
<1> QED
  BY <1>1, <1>2 DEF PollWith

LEMMA TickKeepsCInv == ASSUME IInv, CInv, TickSteps PROVE CInv'
<1>1. CASE TickExpired \/ TickBlocked \/ TickTimeout
  BY <1>1, FinishKeepsCInv DEF TickExpired, TickBlocked, TickTimeout, Finish
<1>2. CASE TickWaits \/ TickDrained
  BY <1>2 DEF TickWaits, TickDrained, Quietly, plan, CInv, Active
<1>3. CASE TickIdlePoll \/ TickSettled \/ TickReread \/ TickRecovery
  <2>1. \E baseline : PollWith(current, baseline, Waiting, Lapses)
    BY <1>3 DEF TickIdlePoll, TickSettled, TickReread, TickRecovery, Poll
  <2> QED
    BY <2>1, PollKeepsCInv
<1>4. CASE TickIdleStart
  <2>1. phase = "IDLE" /\ PollWith(Head(Waiting), TRUE, Tail(Waiting), Lapses)
    BY <1>4 DEF TickIdleStart, TickIn
  <2>2. steps = <<>>
    BY <2>1 DEF IInv, SettersSentOnce, Exchange
  <2> QED
    BY <2>1, <2>2, PollKeepsCInv
<1>5. CASE TickSend
  <2>1. unverified' = unverified
        /\ \/ current' = current /\ steps' = steps
           \/ FinishWith(current, "WRITE_FAILED", Waiting, Lapses)
    BY <1>5 DEF TickSend, Finish
  <2> QED
    BY <2>1, FinishKeepsCInv DEF CInv, Active
<1> QED
  BY <1>1, <1>2, <1>3, <1>4, <1>5 DEF TickSteps

LEMMA ReceiveKeepsCInv ==
    ASSUME CInv, NEW s, Receive(s)
    PROVE  CInv'
<1>1. CASE ReceiveIdle(s) \/ ReceiveRuledOut(s) \/ ReceiveDryLost(s) \/ ReceiveDone(s)
  BY <1>1, FinishKeepsCInv
  DEF ReceiveIdle, ReceiveRuledOut, ReceiveDryLost, ReceiveDone, Finish
<1>2. CASE ReceiveIgnored(s) \/ ReceiveTooLate(s) \/ ReceiveStale(s) \/ ReceiveStep(s)
  <2>1. current' = current /\ steps' = steps /\ unverified' = unverified
    BY <1>2 DEF ReceiveIgnored, ReceiveTooLate, ReceiveStale, ReceiveStep, plan
  <2> QED
    BY <2>1 DEF CInv, Active
<1>3. CASE ReceiveBaseline(s)
  <2>1. unverified' = Names(current.request, "preset")
    BY <1>3 DEF ReceiveBaseline
  <2>2. current' = current \/ \E result : FinishWith(current, result, queue, <<>>)
    BY <1>3 DEF ReceiveBaseline, Finish
  <2> QED
    BY <2>1, <2>2, FinishKeepsCInv DEF CInv
<1> QED
  BY <1>1, <1>2, <1>3 DEF Receive

LEMMA NextKeepsCInv == ASSUME IInv, CInv, [Next]_vars PROVE CInv'
<1>1. CASE Advance
  <2>1. current \in Operation \cup {NoOperation}
    BY DEF IInv, TypeOK, OperationsOK
  <2>2. Active' => Active /\ current'.request = current.request
    BY <1>1, <2>1, AgedType DEF Advance, Active
  <2>3. steps' = steps /\ unverified' = unverified
    BY <1>1 DEF Advance, plan
  <2> QED
    BY <2>2, <2>3 DEF CInv
<1>2. CASE RequestPoll \/ \E r \in Requests : Enqueue(r)
  <2>1. current' = current /\ steps' = steps /\ unverified' = unverified
    BY <1>2 DEF RequestPoll, Enqueue, Reject, Admit, Supersede, Untouched, plan
  <2> QED
    BY <2>1 DEF CInv, Active
<1>3. CASE UNCHANGED vars
  BY <1>3 DEF vars, plan, CInv, Active
<1> QED
  BY <1>1, <1>2, <1>3, TickKeepsCInv, ReceiveKeepsCInv DEF Next

(***************************************************************************)
(* The confirmation.                                                       *)
(***************************************************************************)
ConfirmationStep ==
    Active /\ (Reports(current.generation, "CONFIRMED") \/
               Reports(current.generation, "UNVERIFIED"))
    => /\ Matches(status', Final(current.request))
       /\ setters = Len(steps)
       /\ Reports(current.generation, "UNVERIFIED")
            <=> Names(current.request, "preset")

LEMMA NoSuccessStep == ASSUME NoSuccess(finished') PROVE ConfirmationStep
BY DEF NoSuccess, Excludes, Success, Reports, ConfirmationStep

\* The only outcome of an answer that ends an operation well.
LEMMA SingleReport ==
    ASSUME Active, NEW result \in Success, Finish(result, queue, <<>>)
    PROVE  \A x : Reports(current.generation, x) <=> x = result
<1>1. finished' = <<>> \o Verdict(current, result)
  BY DEF Finish, FinishWith, Failure, Success
<1>2. Verdict(current, result) = <<Outcome(current, result)>>
  BY DEF Verdict, Active
<1>3. finished' = <<Outcome(current, result)>>
  BY <1>1, <1>2
<1>4. DOMAIN finished' = {1} /\ finished'[1] = Outcome(current, result)
  BY <1>3
<1> QED
  BY <1>4 DEF Reports, Outcome

LEMMA BaselineConfirms ==
    ASSUME IInv, NEW s \in Statuses, ReceiveBaseline(s)
    PROVE  ConfirmationStep
<1> DEFINE made == Plan(s, current.request)
<1>1. /\ Active /\ baselinePoll /\ status' = s
      /\ phase \in {"WAIT_STATUS", "POLL_DRAIN"}
  BY DEF ReceiveBaseline, Answers, Counts, Listening, Stored
<1>2. IF Len(made) \in 1 .. MaxSteps
        THEN finished' = <<>>
        ELSE Finish(IF made = <<>> THEN "CONFIRMED" ELSE "UNSUPPORTED", queue, <<>>)
  BY DEF ReceiveBaseline
<1>3. /\ current \in Operation /\ current.request \in Accepted /\ s \in Status
      /\ queue \in Seq(Operation)
  BY <1>1, EnvironmentFacts DEF IInv, TypeOK, OperationsOK, Active, Operation
<1>4. setters = 0 /\ steps = <<>>
  BY <1>1 DEF IInv, SettersSentOnce
<1>5. IsPlan(made)
  BY <1>3, PlanIsPlan
<1>6. CASE Len(made) \in 1 .. MaxSteps
  BY <1>2, <1>6, NothingIsNoSuccess, NoSuccessStep
<1>7. CASE made = <<>>
  <2>1. Len(made) = 0
    BY <1>5, <1>7, PlanFacts
  <2>2. Finish("CONFIRMED", queue, <<>>)
    BY <1>2, <1>7, <2>1, ConstantFacts
  <2>3. \A x : Reports(current.generation, x) <=> x = "CONFIRMED"
    BY <1>1, <2>2, SingleReport DEF Success
  <2>4. Matches(s, Final(current.request)) /\ ~Names(current.request, "preset")
    BY <1>3, <1>7, EmptyPlanMeansShown
  <2>5. setters = Len(steps)
    BY <1>4, EmptySeq
  <2> QED
    BY <1>1, <2>3, <2>4, <2>5 DEF ConfirmationStep
<1>8. CASE made # <<>> /\ Len(made) \notin 1 .. MaxSteps
  <2>1. FinishWith(current, "UNSUPPORTED", queue, <<>>)
    BY <1>2, <1>8 DEF Finish
  <2>2. "UNSUPPORTED" \in Result /\ "UNSUPPORTED" \notin Success
    BY DEF Result, Success
  <2>3. <<>> \in Seq(Callback)
    BY EmptySeq
  <2> QED
    BY <1>3, <2>1, <2>2, <2>3, NothingIsNoSuccess, FailureReported, NoSuccessStep
<1> QED
  BY <1>6, <1>7, <1>8

LEMMA DoneConfirms ==
    ASSUME IInv, CInv, NEW s \in Statuses, ReceiveDone(s)
    PROVE  ConfirmationStep
<1> DEFINE result == IF unverified THEN "UNVERIFIED" ELSE "CONFIRMED"
<1>1. /\ Active /\ ~baselinePoll /\ status' = s /\ step = Len(steps)
      /\ phase \in {"WAIT_STATUS", "POLL_DRAIN"}
      /\ Matches(s, Final(current.request))
      /\ Finish(result, queue, <<>>)
  BY DEF ReceiveDone, Confirming, Answers, Counts, Listening, Stored, LastStep
<1>2. step \in DOMAIN steps /\ setters = step
  BY <1>1 DEF IInv, SettersSentOnce
<1>3. steps # <<>>
  <2>1. DOMAIN <<>> = {}
    OBVIOUS
  <2> QED
    BY <1>2, <2>1
<1>4. unverified <=> Names(current.request, "preset")
  BY <1>1, <1>3 DEF CInv
<1>5. \A x : Reports(current.generation, x) <=> x = result
  BY <1>1, SingleReport DEF Success
<1> QED
  BY <1>1, <1>2, <1>4, <1>5 DEF ConfirmationStep

LEMMA ReceiveConfirms ==
    ASSUME IInv, CInv, NEW s \in Statuses, Receive(s)
    PROVE  ConfirmationStep
<1>1. CASE ReceiveIdle(s)
  BY <1>1 DEF ReceiveIdle, ConfirmationStep
<1>2. CASE ReceiveIgnored(s) \/ ReceiveTooLate(s) \/ ReceiveStale(s) \/ ReceiveStep(s)
  <2>1. finished' = <<>>
    BY <1>2 DEF ReceiveIgnored, ReceiveTooLate, ReceiveStale, ReceiveStep
  <2> QED
    BY <2>1, NothingIsNoSuccess, NoSuccessStep
<1>3. CASE ReceiveRuledOut(s) \/ ReceiveDryLost(s)
  <2>1. FinishWith(current, "PREREQUISITE", queue, <<>>)
    BY <1>3 DEF ReceiveRuledOut, ReceiveDryLost, Finish
  <2>2. /\ current \in Operation \cup {NoOperation} /\ queue \in Seq(Operation)
        /\ "PREREQUISITE" \in Result /\ "PREREQUISITE" \notin Success
        /\ <<>> \in Seq(Callback)
    BY EmptySeq DEF IInv, TypeOK, OperationsOK, Result, Success
  <2> QED
    BY <2>1, <2>2, NothingIsNoSuccess, FailureReported, NoSuccessStep
<1> QED
  BY <1>1, <1>2, <1>3, BaselineConfirms, DoneConfirms DEF Receive

LEMMA NextConfirms == ASSUME IInv, CInv, [Next]_vars PROVE [ConfirmationStep]_vars
<1>1. CASE Advance \/ RequestPoll \/ \E r \in Requests : Enqueue(r)
  BY <1>1, CallNoSuccess, NoSuccessStep
<1>2. CASE TickSteps
  BY <1>2, TickNoSuccess, NoSuccessStep
<1>3. CASE \E s \in Statuses : Receive(s)
  BY <1>3, ReceiveConfirms
<1>4. CASE UNCHANGED vars
  BY <1>4
<1> QED
  BY <1>1, <1>2, <1>3, <1>4 DEF Next

\* A confirmed operation was shown by the status of that very step, which comes
\* after each setter of its plan; one with a preset ends unverified instead.
THEOREM ConfirmedIsShown == Spec => ConfirmedMeansShown
<1>1. Init => IInv /\ CInv
  <2>1. Init => CInv
    BY DEF Init, CInv, Active
  <2> QED
    BY <2>1, InitIInv
<1>2. (IInv /\ CInv) /\ [Next]_vars => (IInv /\ CInv)'
  BY NextKeepsIInv, NextKeepsCInv
<1>3. (IInv /\ CInv) /\ [Next]_vars => [ConfirmationStep]_vars
  BY NextConfirms
<1>4. Spec => [][ConfirmationStep]_vars
  BY <1>1, <1>2, <1>3, PTL DEF Spec
<1> QED
  BY <1>4 DEF ConfirmedMeansShown, ConfirmationStep

(***************************************************************************)
(* The steps of a plan.                                                    *)
(***************************************************************************)

\* A step sets an absolute target only when it waits for one, and adjusts Dry
\* only when it is guarded by a known offset.
DrySound(t) ==
    /\ t.packet.setter = "temperature" => Names(t.expected, "temperature")
    /\ t.packet.setter = "dryOffset" =>
          /\ Names(t.guard, "dryOffset")
          /\ \E c \in 0 .. 15 : c # UnknownNibble /\ t.guard["dryOffset"] = OffsetOf(c)

IsSwing(t) == t.packet.setter = "swing"

\* A swing step turns one axis the wrong way round in the status it is guarded
\* by, and when it is a second step it finds the other axis as wanted.
SwingSound(t, wanted, second) ==
    LET axis  == t.packet.value % 4
        other == Horizontal + Vertical - axis
    IN  /\ Names(t.guard, "swing")
        /\ Moves(t.guard["swing"], axis) # Moves(wanted, axis)
        /\ second => Moves(t.guard["swing"], other) = Moves(wanted, other)

NoSwing(p) == \A i \in DOMAIN p : ~IsSwing(p[i])

SwingsSound(p, wanted) ==
    \A i \in DOMAIN p : IsSwing(p[i]) =>
        SwingSound(p[i], wanted, \E j \in 1 .. i - 1 : IsSwing(p[j]))

DriesSound(p) == \A i \in DOMAIN p : DrySound(p[i])

\* What is known of a plan as a sequence.
LEMMA ConcatFacts ==
    ASSUME NEW p, NEW q, IsPlan(p), IsPlan(q)
    PROVE  /\ Len(p) \in Nat /\ DOMAIN p = 1 .. Len(p)
           /\ Len(q) \in Nat /\ DOMAIN q = 1 .. Len(q)
           /\ DOMAIN (p \o q) = 1 .. Len(p) + Len(q)
           /\ \A i \in 1 .. Len(p) + Len(q) :
                 (p \o q)[i] = IF i <= Len(p) THEN p[i] ELSE q[i - Len(p)]
<1> DEFINE S == Range(p) \cup Range(q)
<1>1. p \in Seq(S) /\ q \in Seq(S)
  BY DEF IsPlan, Range
<1>2. /\ p \o q \in Seq(S)
      /\ Len(p \o q) = Len(p) + Len(q)
      /\ \A i \in 1 .. Len(p) + Len(q) :
            (p \o q)[i] = IF i <= Len(p) THEN p[i] ELSE q[i - Len(p)]
  BY <1>1, ConcatProperties
<1>3. DOMAIN (p \o q) = 1 .. Len(p) + Len(q)
  BY <1>2, LenProperties
<1> QED
  BY <1>1, <1>2, <1>3, LenProperties

LEMMA ConcatNoSwing ==
    ASSUME NEW p, NEW q, IsPlan(p), IsPlan(q), NoSwing(p), NoSwing(q)
    PROVE  NoSwing(p \o q)
<1> SUFFICES ASSUME NEW i \in 1 .. Len(p) + Len(q) PROVE ~IsSwing((p \o q)[i])
  BY ConcatFacts DEF NoSwing
<1>1. CASE i <= Len(p)
  <2>1. i \in DOMAIN p /\ (p \o q)[i] = p[i]
    BY <1>1, ConcatFacts
  <2> QED
    BY <2>1 DEF NoSwing
<1>2. CASE ~(i <= Len(p))
  <2>1. i - Len(p) \in DOMAIN q /\ (p \o q)[i] = q[i - Len(p)]
    BY <1>2, ConcatFacts
  <2> QED
    BY <2>1 DEF NoSwing
<1> QED
  BY <1>1, <1>2

LEMMA ConcatDriesSound ==
    ASSUME NEW p, NEW q, IsPlan(p), IsPlan(q), DriesSound(p), DriesSound(q)
    PROVE  DriesSound(p \o q)
<1> SUFFICES ASSUME NEW i \in 1 .. Len(p) + Len(q) PROVE DrySound((p \o q)[i])
  BY ConcatFacts DEF DriesSound
<1>1. CASE i <= Len(p)
  <2>1. i \in DOMAIN p /\ (p \o q)[i] = p[i]
    BY <1>1, ConcatFacts
  <2> QED
    BY <2>1 DEF DriesSound
<1>2. CASE ~(i <= Len(p))
  <2>1. i - Len(p) \in DOMAIN q /\ (p \o q)[i] = q[i - Len(p)]
    BY <1>2, ConcatFacts
  <2> QED
    BY <2>1 DEF DriesSound
<1> QED
  BY <1>1, <1>2

\* Steps without a swing before those of the swing, or after them.
LEMMA ConcatSwingsSound ==
    ASSUME NEW p, NEW q, IsPlan(p), IsPlan(q), NEW wanted,
           \/ NoSwing(p) /\ SwingsSound(q, wanted)
           \/ SwingsSound(p, wanted) /\ NoSwing(q)
    PROVE  SwingsSound(p \o q, wanted)
<1> DEFINE pq == p \o q
<1>1. /\ Len(p) \in Nat /\ DOMAIN p = 1 .. Len(p)
      /\ Len(q) \in Nat /\ DOMAIN q = 1 .. Len(q)
      /\ DOMAIN pq = 1 .. Len(p) + Len(q)
      /\ \A i \in 1 .. Len(p) + Len(q) :
            pq[i] = IF i <= Len(p) THEN p[i] ELSE q[i - Len(p)]
  BY ConcatFacts
<1> HIDE DEF pq
<1> SUFFICES ASSUME NEW i \in 1 .. Len(p) + Len(q), IsSwing(pq[i])
             PROVE  SwingSound(pq[i], wanted, \E j \in 1 .. i - 1 : IsSwing(pq[j]))
  BY <1>1 DEF SwingsSound, pq
<1>2. CASE i <= Len(p)
  <2>1. i \in DOMAIN p /\ pq[i] = p[i]
    BY <1>1, <1>2
  <2>2. \A j \in 1 .. i - 1 : pq[j] = p[j]
    BY <1>1, <1>2
  <2>3. SwingsSound(p, wanted)
    BY <2>1 DEF NoSwing
  <2>4. SwingSound(p[i], wanted, \E j \in 1 .. i - 1 : IsSwing(p[j]))
    BY <2>1, <2>3 DEF SwingsSound
  <2> QED
    BY <2>1, <2>2, <2>4 DEF SwingSound
<1>3. CASE ~(i <= Len(p))
  <2> DEFINE k == i - Len(p)
  <2>1. k \in DOMAIN q /\ k \in Int /\ pq[i] = q[k]
    BY <1>1, <1>3
  <2>2. NoSwing(p) /\ SwingsSound(q, wanted)
    BY <2>1 DEF NoSwing
  <2>3. SwingSound(q[k], wanted, \E j \in 1 .. k - 1 : IsSwing(q[j]))
    BY <2>1, <2>2 DEF SwingsSound
  <2>4. ASSUME NEW j \in 1 .. i - 1, IsSwing(pq[j])
        PROVE  \E l \in 1 .. k - 1 : IsSwing(q[l])
    <3>1. CASE j <= Len(p)
      <4>1. j \in DOMAIN p /\ pq[j] = p[j]
        BY <1>1, <3>1
      <4> QED
        BY <2>2, <2>4, <4>1 DEF NoSwing
    <3>2. CASE ~(j <= Len(p))
      <4>1. j \in 1 .. Len(p) + Len(q)
        BY <1>1
      <4>2. pq[j] = q[j - Len(p)]
        BY <1>1, <3>2, <4>1
      <4>3. j - Len(p) \in 1 .. k - 1
        BY <1>1, <3>2
      <4> QED
        BY <2>4, <4>2, <4>3
    <3> QED
      BY <3>1, <3>2
  <2> HIDE DEF k
  <2> QED
    BY <2>1, <2>3, <2>4 DEF SwingSound
<1> QED
  BY <1>2, <1>3

LEMMA OneStepSounds ==
    ASSUME NEW t, NEW condition \in BOOLEAN, ~IsSwing(t), DrySound(t)
    PROVE  NoSwing(When(condition, <<t>>)) /\ DriesSound(When(condition, <<t>>))
<1>1. DOMAIN <<t>> = {1} /\ <<t>>[1] = t /\ DOMAIN <<>> = {}
  OBVIOUS
<1> QED
  BY <1>1 DEF NoSwing, DriesSound, When

LEMMA EmptySounds == NoSwing(<<>>) /\ DriesSound(<<>>)
<1>1. DOMAIN <<>> = {}
  OBVIOUS
<1> QED
  BY <1>1 DEF NoSwing, DriesSound

LEMMA PlainStep ==
    ASSUME NEW name \in SetterName \ {"temperature", "swing", "dryOffset"},
           NEW value, NEW expected, NEW guard, NEW condition \in BOOLEAN
    PROVE  LET p == When(condition, <<Setter(name, value, expected, guard)>>)
           IN  NoSwing(p) /\ DriesSound(p)
<1> DEFINE t == Setter(name, value, expected, guard)
<1>1. ~IsSwing(t) /\ DrySound(t)
  BY DEF Setter, IsSwing, DrySound
<1> HIDE DEF t
<1>2. NoSwing(When(condition, <<t>>)) /\ DriesSound(When(condition, <<t>>))
  BY <1>1, OneStepSounds
<1> QED
  BY <1>2 DEF t

LEMMA FieldStepsSound ==
    ASSUME NEW s, NEW r
    PROVE  /\ NoSwing(PowerSteps(s, r)) /\ DriesSound(PowerSteps(s, r))
           /\ NoSwing(ModeSteps(s, r)) /\ DriesSound(ModeSteps(s, r))
           /\ NoSwing(TemperatureSteps(s, r)) /\ DriesSound(TemperatureSteps(s, r))
           /\ NoSwing(FanSteps(s, r)) /\ DriesSound(FanSteps(s, r))
           /\ NoSwing(DisplaySteps(s, r)) /\ DriesSound(DisplaySteps(s, r))
<1>1. \A f : Differs(s, r, f) \in BOOLEAN
  BY DEF Differs, Names
<1>2. NoSwing(PowerSteps(s, r)) /\ DriesSound(PowerSteps(s, r))
  <2>1. (Names(r, "mode") /\ r["mode"] # ModeOff /\ s.run = 0) \in BOOLEAN
    OBVIOUS
  <2> QED
    BY <2>1, PlainStep DEF PowerSteps, SetterName
<1>3. NoSwing(ModeSteps(s, r)) /\ DriesSound(ModeSteps(s, r))
  BY <1>1, PlainStep DEF ModeSteps, SetterName
<1>4. NoSwing(FanSteps(s, r)) /\ DriesSound(FanSteps(s, r))
  BY <1>1, PlainStep DEF FanSteps, SetterName
<1>5. NoSwing(DisplaySteps(s, r)) /\ DriesSound(DisplaySteps(s, r))
  BY <1>1, PlainStep DEF DisplaySteps, SetterName
<1>6. NoSwing(TemperatureSteps(s, r)) /\ DriesSound(TemperatureSteps(s, r))
  <2>1. CASE Names(r, "temperature")
    <3> DEFINE t == Setter("temperature", r["temperature"],
                           Only(r, {"temperature"}), ModeGuard(r))
               condition == Names(r, "temperature") /\
                               (Names(r, "mode") \/ Differs(s, r, "temperature"))
    <3>1. Names(Only(r, {"temperature"}), "temperature")
      BY <2>1 DEF Names, Only
    <3>2. ~IsSwing(t) /\ DrySound(t)
      BY <3>1 DEF Setter, IsSwing, DrySound
    <3>3. condition \in BOOLEAN
      OBVIOUS
    <3> HIDE DEF t, condition
    <3>4. NoSwing(When(condition, <<t>>)) /\ DriesSound(When(condition, <<t>>))
      BY <3>2, <3>3, OneStepSounds
    <3> QED
      BY <3>4 DEF TemperatureSteps, t, condition
  <2>2. CASE ~Names(r, "temperature")
    BY <2>2, EmptySounds DEF TemperatureSteps, When
  <2> QED
    BY <2>1, <2>2
<1> QED
  BY <1>2, <1>3, <1>4, <1>5, <1>6

LEMMA PresetStepsSound ==
    ASSUME NEW r, IsIntent(r)
    PROVE  NoSwing(PresetSteps(r)) /\ DriesSound(PresetSteps(r))
<1>1. CASE ~Names(r, "preset")
  BY <1>1, EmptySounds DEF PresetSteps
<1>2. CASE Names(r, "preset")
  <2> DEFINE t == Setter("preset", r["preset"], NoIntent, NoIntent)
             u == Setter("ecoOff", 0, NoIntent, NoIntent)
             p == When(TRUE, <<t>>)
             q == When(r["preset"] = 0, <<u>>)
  <2>1. r["preset"] \in Int
    BY <1>2 DEF IsIntent, Names
  <2>5. IsPlanStep(t) /\ IsPlanStep(u)
    BY <2>1, NoIntentIsIntent, SetterIsStep DEF SetterName
  <2>2. IsPlan(p) /\ IsPlan(q)
    <3> HIDE DEF t, u
    <3>1. TRUE \in BOOLEAN /\ (r["preset"] = 0) \in BOOLEAN
      OBVIOUS
    <3> QED
      BY <2>5, <3>1, OneStepPlan
  <2>3. NoSwing(p) /\ DriesSound(p) /\ NoSwing(q) /\ DriesSound(q)
    BY PlainStep DEF SetterName
  <2>4. PresetSteps(r) = p \o q
    BY <1>2 DEF PresetSteps, When
  <2> HIDE DEF p, q
  <2> QED
    BY <2>2, <2>3, <2>4, ConcatNoSwing, ConcatDriesSound
<1> QED
  BY <1>1, <1>2

(***************************************************************************)
(* The axes of the swing.                                                  *)
(***************************************************************************)
LEMMA MovesTable ==
    /\ Moves(0, 1) = 0 /\ Moves(1, 1) = 1 /\ Moves(2, 1) = 0 /\ Moves(3, 1) = 1
    /\ Moves(0, 2) = 0 /\ Moves(1, 2) = 0 /\ Moves(2, 2) = 1 /\ Moves(3, 2) = 1
BY DEF Moves

LEMMA MovesFacts ==
    ASSUME NEW v \in Swing, NEW axis \in {1, 2}
    PROVE  Moves(v, axis) \in {0, 1}
<1>1. v \in {0, 1, 2, 3}
  BY DEF Swing
<1> QED
  BY <1>1, MovesTable

\* An axis that is turned is as wanted, and the swing is still one.
LEMMA TurnedFacts ==
    ASSUME NEW v \in Swing, NEW w \in Swing, NEW axis \in {1, 2}
    PROVE  /\ Turned(v, w, axis) \in Swing
           /\ Moves(Turned(v, w, axis), axis) = Moves(w, axis)
<1>1. v \in {0, 1, 2, 3} /\ Moves(w, axis) \in {0, 1}
  BY MovesFacts DEF Swing
<1> DEFINE m == Moves(w, axis)
           x == v + axis * (m - Moves(v, axis))
<1>2. Turned(v, w, axis) = x
  BY DEF Turned
<1>3. m \in {0, 1}
  BY <1>1
<1> HIDE DEF m
<1>4. x \in {0, 1, 2, 3} /\ Moves(x, axis) = m
  <2>1. CASE axis = 1
    <3>1. x = v + (m - Moves(v, 1))
      BY <1>1, <1>3, <2>1, MovesTable
    <3> HIDE DEF x
    <3> QED
      BY <1>1, <1>3, <2>1, <3>1, MovesTable
  <2>2. CASE axis = 2
    <3>1. x = v + 2 * (m - Moves(v, 2))
      BY <2>2
    <3> HIDE DEF x
    <3> QED
      BY <1>1, <1>3, <2>2, <3>1, MovesTable
  <2> QED
    BY <2>1, <2>2
<1> QED
  BY <1>2, <1>4 DEF Swing, m

\* The one step that turns an axis.
AxisStep(before, wanted, axis) ==
    Setter("swing", axis + 4 * Moves(wanted, axis),
           Swings(Turned(before, wanted, axis)), Swings(before))

LEMMA AxisStepFacts ==
    ASSUME NEW before \in Swing, NEW wanted \in Swing, NEW axis \in {1, 2}
    PROVE  LET t == AxisStep(before, wanted, axis) IN
           /\ IsPlanStep(t) /\ IsSwing(t) /\ DrySound(t)
           /\ t.packet.value % 4 = axis
           /\ Names(t.guard, "swing") /\ t.guard["swing"] = before
           /\ AxisSteps(before, wanted, axis) =
                 When(Moves(before, axis) # Moves(wanted, axis), <<t>>)
<1> DEFINE t == AxisStep(before, wanted, axis)
<1>1. Moves(wanted, axis) \in {0, 1} /\ Turned(before, wanted, axis) \in Int
  BY MovesFacts, TurnedFacts DEF Swing
<1>2. axis + 4 * Moves(wanted, axis) \in Int
      /\ (axis + 4 * Moves(wanted, axis)) % 4 = axis
  BY <1>1
<1>3. \A x \in Int : IsIntent(Swings(x)) /\ Names(Swings(x), "swing")
                                         /\ Swings(x)["swing"] = x
  BY DEF IsIntent, Swings, Field, Names
<1>4. IsPlanStep(t)
  BY <1>1, <1>2, <1>3, SetterIsStep DEF AxisStep, SetterName, Swing
<1>5. IsSwing(t) /\ DrySound(t) /\ t.packet.value % 4 = axis
  BY <1>2 DEF AxisStep, Setter, IsSwing, DrySound
<1>6. Names(t.guard, "swing") /\ t.guard["swing"] = before
  BY <1>3 DEF AxisStep, Setter, Swing
<1> QED
  BY <1>4, <1>5, <1>6 DEF AxisSteps, AxisStep

LEMMA WhenFacts ==
    ASSUME NEW t, NEW condition \in BOOLEAN
    PROVE  LET p == When(condition, <<t>>) IN
           /\ condition => Len(p) = 1 /\ p[1] = t
           /\ ~condition => Len(p) = 0
<1>1. Len(<<t>>) = 1 /\ <<t>>[1] = t /\ Len(<<>>) = 0
  OBVIOUS
<1> QED
  BY <1>1 DEF When

LEMMA SwingStepsSound ==
    ASSUME NEW s \in Status, NEW r, Names(r, "swing") => r["swing"] \in Swing
    PROVE  SwingsSound(SwingSteps(s, r), r["swing"]) /\ DriesSound(SwingSteps(s, r))
<1>1. CASE ~Names(r, "swing")
  BY <1>1, EmptySounds DEF SwingSteps, NoSwing, SwingsSound
<1>2. CASE Names(r, "swing")
  <2> DEFINE v       == s.swing
             w       == r["swing"]
             first   == FirstAxis(v, w)
             second  == Horizontal + Vertical - first
             halfway == Turned(v, w, first)
  <2>1. v \in Swing /\ w \in Swing
    BY <1>2 DEF Status
  <2>2. \/ first = 1 /\ second = 2
        \/ first = 2 /\ second = 1
    BY DEF FirstAxis, Horizontal, Vertical
  <2>3. halfway \in Swing /\ Moves(halfway, first) = Moves(w, first)
    BY <2>1, <2>2, TurnedFacts
  <2>4. SwingSteps(s, r) = AxisSteps(v, w, first) \o AxisSteps(halfway, w, second)
    BY <1>2 DEF SwingSteps
  <2> HIDE DEF v, w, first, second, halfway
  <2> DEFINE c == Moves(v, first) # Moves(w, first)
             d == Moves(halfway, second) # Moves(w, second)
             t == AxisStep(v, w, first)
             u == AxisStep(halfway, w, second)
             p == When(c, <<t>>)
             q == When(d, <<u>>)
  <2>5. /\ IsPlanStep(t) /\ IsSwing(t) /\ DrySound(t) /\ t.packet.value % 4 = first
        /\ Names(t.guard, "swing") /\ t.guard["swing"] = v
        /\ AxisSteps(v, w, first) = p
    <3>1. first \in {1, 2}
      BY <2>2
    <3> QED
      BY <2>1, <3>1, AxisStepFacts
  <2>6. /\ IsPlanStep(u) /\ IsSwing(u) /\ DrySound(u) /\ u.packet.value % 4 = second
        /\ Names(u.guard, "swing") /\ u.guard["swing"] = halfway
        /\ AxisSteps(halfway, w, second) = q
    <3>1. second \in {1, 2}
      BY <2>2
    <3> QED
      BY <2>1, <2>3, <3>1, AxisStepFacts
  <2>7. Horizontal + Vertical - second = first
    BY <2>2 DEF Horizontal, Vertical
  <2> HIDE DEF t, u
  <2>8. c => SwingSound(t, w, FALSE)
    BY <2>5 DEF SwingSound
  <2>9. d => \A b : SwingSound(u, w, b)
    BY <2>3, <2>6, <2>7 DEF SwingSound
  <2>10. c \in BOOLEAN /\ d \in BOOLEAN
    OBVIOUS
  <2> HIDE DEF c, d
  <2>11. /\ IsPlan(p) /\ IsPlan(q)
         /\ c => Len(p) = 1 /\ p[1] = t
         /\ ~c => Len(p) = 0
         /\ d => Len(q) = 1 /\ q[1] = u
         /\ ~d => Len(q) = 0
    BY <2>5, <2>6, <2>10, OneStepPlan, WhenFacts
  <2> DEFINE pq == p \o q
  <2> HIDE DEF p, q
  <2>12. /\ DOMAIN pq = 1 .. Len(p) + Len(q)
         /\ \A i \in 1 .. Len(p) + Len(q) :
               pq[i] = IF i <= Len(p) THEN p[i] ELSE q[i - Len(p)]
    BY <2>11, ConcatFacts
  <2> HIDE DEF pq
  <2>13. ASSUME NEW i \in DOMAIN pq
         PROVE  \/ c /\ i = 1 /\ pq[i] = t
                \/ d /\ pq[i] = u
    <3>1. i \in 1 .. Len(p) + Len(q)
      BY <2>12
    <3> QED
      BY <2>11, <2>12, <3>1
  <2>14. DriesSound(pq)
    BY <2>13, <2>5, <2>6 DEF DriesSound
  <2>15. SwingsSound(pq, w)
    <3> SUFFICES ASSUME NEW i \in DOMAIN pq
                 PROVE  SwingSound(pq[i], w, \E j \in 1 .. i - 1 : IsSwing(pq[j]))
      BY DEF SwingsSound
    <3>1. CASE c /\ i = 1 /\ pq[i] = t
      <4>1. ~(\E j \in 1 .. i - 1 : IsSwing(pq[j]))
        BY <3>1
      <4> QED
        BY <2>8, <3>1, <4>1 DEF SwingSound
    <3>2. CASE d /\ pq[i] = u
      <4>1. SwingSound(u, w, TRUE)
        BY <2>9, <3>2
      <4> QED
        BY <3>2, <4>1 DEF SwingSound
    <3> QED
      BY <2>13, <3>1, <3>2
  <2>16. SwingSteps(s, r) = pq
    BY <2>4, <2>5, <2>6 DEF pq
  <2> QED
    BY <2>14, <2>15, <2>16 DEF w
<1> QED
  BY <1>1, <1>2

(***************************************************************************)
(* The whole plan.                                                         *)
(***************************************************************************)
LEMMA NoSwingIsSound == ASSUME NEW p, NoSwing(p), NEW wanted
                        PROVE  SwingsSound(p, wanted)
BY DEF NoSwing, SwingsSound

LEMMA AcceptedSwing ==
    ASSUME NEW r \in Accepted
    PROVE  Names(r, "swing") => r["swing"] \in Swing
<1>1. PICK x \in Requests : Valid(x) /\ r = Normalized(x)
  BY DEF Accepted
<1>2. Names(x, "swing") => x["swing"] \in Swing
  BY <1>1 DEF Valid
<1>3. DOMAIN r = DOMAIN x /\ \A f \in DOMAIN x \ {"temperature"} : r[f] = x[f]
  <2>1. IsIntent(x)
    BY EnvironmentFacts
  <2> QED
    BY <1>1, <2>1 DEF Normalized, Names, IsIntent
<1> QED
  BY <1>2, <1>3 DEF Names

LEMMA BuiltStepsSound ==
    ASSUME NEW s \in Status, NEW r \in Accepted
    PROVE  /\ DriesSound(BuiltSteps(s, r))
           /\ SwingsSound(BuiltSteps(s, r), r["swing"])
<1> DEFINE w  == r["swing"]
           p1 == PowerSteps(s, r) \o ModeSteps(s, r)
           p2 == p1 \o TemperatureSteps(s, r)
           p3 == p2 \o FanSteps(s, r)
           p4 == p3 \o SwingSteps(s, r)
           p5 == p4 \o PresetSteps(r)
           p6 == p5 \o DisplaySteps(s, r)
<1>1. IsIntent(r)
  BY AcceptedIsIntent
<1>2. BuiltSteps(s, r) = p6
  BY DEF BuiltSteps
<1> HIDE DEF p1, p2, p3, p4, p5, p6, w
<1>3. IsPlan(p1) /\ NoSwing(p1) /\ DriesSound(p1)
  BY <1>1, FieldStepsPlan, PlanConcat, FieldStepsSound, ConcatNoSwing,
     ConcatDriesSound DEF p1
<1>4. IsPlan(p2) /\ NoSwing(p2) /\ DriesSound(p2)
  BY <1>1, <1>3, FieldStepsPlan, PlanConcat, FieldStepsSound, ConcatNoSwing,
     ConcatDriesSound DEF p2
<1>5. IsPlan(p3) /\ NoSwing(p3) /\ DriesSound(p3)
  BY <1>1, <1>4, FieldStepsPlan, PlanConcat, FieldStepsSound, ConcatNoSwing,
     ConcatDriesSound DEF p3
<1>6. IsPlan(p4) /\ SwingsSound(p4, w) /\ DriesSound(p4)
  <2>1. IsPlan(SwingSteps(s, r))
    BY <1>1, SwingStepsPlan
  <2>2. SwingsSound(SwingSteps(s, r), w) /\ DriesSound(SwingSteps(s, r))
    BY AcceptedSwing, SwingStepsSound DEF w
  <2> QED
    BY <1>5, <2>1, <2>2, PlanConcat, ConcatSwingsSound, ConcatDriesSound DEF p4
<1>7. IsPlan(p5) /\ SwingsSound(p5, w) /\ DriesSound(p5)
  <2>1. IsPlan(PresetSteps(r)) /\ NoSwing(PresetSteps(r)) /\ DriesSound(PresetSteps(r))
    BY <1>1, PresetStepsPlan, PresetStepsSound
  <2> QED
    BY <1>6, <2>1, PlanConcat, ConcatSwingsSound, ConcatDriesSound DEF p5
<1>8. SwingsSound(p6, w) /\ DriesSound(p6)
  BY <1>1, <1>7, FieldStepsPlan, FieldStepsSound, ConcatSwingsSound,
     ConcatDriesSound DEF p6
<1> QED
  BY <1>2, <1>8 DEF w

\* A baseline that does not rule a Dry adjustment out reports a known offset.
LEMMA DryOffsetStepsSound ==
    ASSUME NEW s \in Status, NEW r, Names(r, "dryOffset"), ~RuledOut(s, r)
    PROVE  NoSwing(DryOffsetSteps(s, r)) /\ DriesSound(DryOffsetSteps(s, r))
<1> DEFINE guard == [f \in {"dryOffset"} |-> OffsetOf(s.compensation)]
           t == Setter("dryOffset", Nibble(r["dryOffset"]), r, guard)
<1>1. s.compensation \in 0 .. 15 /\ s.compensation # UnknownNibble
  BY DEF RuledOut, Status
<1>2. Names(guard, "dryOffset") /\ guard["dryOffset"] = OffsetOf(s.compensation)
  BY DEF Names
<1> HIDE DEF guard
<1>3. ~IsSwing(t) /\ DrySound(t)
  BY <1>1, <1>2 DEF Setter, IsSwing, DrySound
<1>4. (~Matches(s, r)) \in BOOLEAN
  BY DEF Matches
<1>5. DryOffsetSteps(s, r) = When(~Matches(s, r), <<t>>)
  BY DEF DryOffsetSteps, guard
<1> HIDE DEF t
<1> QED
  BY <1>3, <1>4, <1>5, OneStepSounds

LEMMA PlanSound ==
    ASSUME NEW s \in Status, NEW r \in Accepted, ~RuledOut(s, r)
    PROVE  DriesSound(Plan(s, r)) /\ SwingsSound(Plan(s, r), r["swing"])
<1>1. CASE Names(r, "dryOffset")
  BY <1>1, DryOffsetStepsSound, NoSwingIsSound DEF Plan
<1>2. CASE ~Names(r, "dryOffset")
  BY <1>2, BuiltStepsSound DEF Plan
<1> QED
  BY <1>1, <1>2

(***************************************************************************)
(* The invariant: the plan in progress is a sound one for the operation.   *)
(***************************************************************************)
SInv == Active /\ steps # <<>> =>
            /\ DriesSound(steps)
            /\ SwingsSound(steps, current.request["swing"])

LEMMA FinishKeepsSInv ==
    ASSUME NEW op, NEW result, NEW q, NEW events, FinishWith(op, result, q, events)
    PROVE  SInv'
BY DEF FinishWith, SInv, Active

LEMMA PollKeepsSInv ==
    ASSUME SInv, NEW op, NEW baseline, NEW q, NEW events,
           PollWith(op, baseline, q, events), op = current \/ steps = <<>>
    PROVE  SInv'
<1>1. CASE FinishWith(op, "WRITE_FAILED", q, events)
  BY <1>1, FinishKeepsSInv
<1>2. CASE current' = op /\ steps' = steps
  BY <1>2 DEF SInv, Active
<1> QED
  BY <1>1, <1>2 DEF PollWith

LEMMA TickKeepsSInv == ASSUME IInv, SInv, TickSteps PROVE SInv'
<1>1. CASE TickExpired \/ TickBlocked \/ TickTimeout
  BY <1>1, FinishKeepsSInv DEF TickExpired, TickBlocked, TickTimeout, Finish
<1>2. CASE TickWaits \/ TickDrained
  <2>1. current' = current /\ steps' = steps
    BY <1>2 DEF TickWaits, TickDrained, Quietly, plan
  <2> QED
    BY <2>1 DEF SInv, Active
<1>3. CASE TickIdlePoll \/ TickSettled \/ TickReread \/ TickRecovery
  <2>1. \E baseline : PollWith(current, baseline, Waiting, Lapses)
    BY <1>3 DEF TickIdlePoll, TickSettled, TickReread, TickRecovery, Poll
  <2> QED
    BY <2>1, PollKeepsSInv
<1>4. CASE TickIdleStart
  <2>1. phase = "IDLE" /\ PollWith(Head(Waiting), TRUE, Tail(Waiting), Lapses)
    BY <1>4 DEF TickIdleStart, TickIn
  <2>2. steps = <<>>
    BY <2>1 DEF IInv, SettersSentOnce, Exchange
  <2> QED
    BY <2>1, <2>2, PollKeepsSInv
<1>5. CASE TickSend
  <2>1. \/ current' = current /\ steps' = steps
        \/ FinishWith(current, "WRITE_FAILED", Waiting, Lapses)
    BY <1>5 DEF TickSend, Finish
  <2> QED
    BY <2>1, FinishKeepsSInv DEF SInv, Active
<1> QED
  BY <1>1, <1>2, <1>3, <1>4, <1>5 DEF TickSteps

LEMMA BaselineKeepsSInv ==
    ASSUME IInv, NEW s \in Statuses, ReceiveBaseline(s)
    PROVE  SInv'
<1>1. Active /\ ~RuledOut(s, current.request)
  BY DEF ReceiveBaseline, Answers
<1>2. s \in Status /\ current.request \in Accepted
  BY <1>1, EnvironmentFacts DEF IInv, TypeOK, OperationsOK, Active, Operation
<1>3. DriesSound(Plan(s, current.request))
      /\ SwingsSound(Plan(s, current.request), current.request["swing"])
  BY <1>1, <1>2, PlanSound
<1>4. \/ current' = current /\ steps' = Plan(s, current.request)
      \/ \E result : FinishWith(current, result, queue, <<>>)
  BY DEF ReceiveBaseline, Finish
<1> QED
  BY <1>3, <1>4, FinishKeepsSInv DEF SInv

LEMMA ReceiveKeepsSInv ==
    ASSUME IInv, SInv, NEW s \in Statuses, Receive(s)
    PROVE  SInv'
<1>1. CASE ReceiveIdle(s) \/ ReceiveRuledOut(s) \/ ReceiveDryLost(s) \/ ReceiveDone(s)
  BY <1>1, FinishKeepsSInv
  DEF ReceiveIdle, ReceiveRuledOut, ReceiveDryLost, ReceiveDone, Finish
<1>2. CASE ReceiveIgnored(s) \/ ReceiveTooLate(s) \/ ReceiveStale(s) \/ ReceiveStep(s)
  <2>1. current' = current /\ steps' = steps
    BY <1>2 DEF ReceiveIgnored, ReceiveTooLate, ReceiveStale, ReceiveStep, plan
  <2> QED
    BY <2>1 DEF SInv, Active
<1> QED
  BY <1>1, <1>2, BaselineKeepsSInv DEF Receive

LEMMA NextKeepsSInv == ASSUME IInv, SInv, [Next]_vars PROVE SInv'
<1>1. CASE Advance
  <2>1. current \in Operation \cup {NoOperation}
    BY DEF IInv, TypeOK, OperationsOK
  <2>2. Active' => Active /\ current'.request = current.request
    BY <1>1, <2>1, AgedType DEF Advance, Active
  <2>3. steps' = steps
    BY <1>1 DEF Advance, plan
  <2> QED
    BY <2>2, <2>3 DEF SInv
<1>2. CASE RequestPoll \/ \E r \in Requests : Enqueue(r)
  <2>1. current' = current /\ steps' = steps
    BY <1>2 DEF RequestPoll, Enqueue, Reject, Admit, Supersede, Untouched, plan
  <2> QED
    BY <2>1 DEF SInv, Active
<1>3. CASE UNCHANGED vars
  BY <1>3 DEF vars, plan, SInv, Active
<1> QED
  BY <1>1, <1>2, <1>3, TickKeepsSInv, ReceiveKeepsSInv DEF Next

(***************************************************************************)
(* What goes out.                                                          *)
(***************************************************************************)
\* A step hands out nothing, a query, or the setter whose turn it is, which the
\* latest status does not forbid.
SendStep ==
    \A i \in DOMAIN sent' :
        \/ sent'[i] = Query
        \/ /\ Active /\ step \in DOMAIN steps
           /\ sent'[i] = steps[step].packet /\ ~Blocked(status, steps[step])

LEMMA OneSent ==
    ASSUME NEW packet, NEW condition \in BOOLEAN, sent' = When(condition, <<packet>>)
    PROVE  \A i \in DOMAIN sent' : sent'[i] = packet
<1>1. DOMAIN <<packet>> = {1} /\ <<packet>>[1] = packet /\ DOMAIN <<>> = {}
  OBVIOUS
<1> QED
  BY <1>1 DEF When

LEMMA HandedOver ==
    ASSUME NEW packet, NEW wire, Transmit(packet, wire) \/ Refuse(packet)
    PROVE  \A i \in DOMAIN sent' : sent'[i] = packet
<1>1. \E condition \in BOOLEAN : sent' = When(condition, <<packet>>)
  <2>1. CASE Transmit(packet, wire)
    BY <2>1 DEF Transmit, When
  <2>2. CASE Refuse(packet)
    <3>1. TxFree \in BOOLEAN
      BY DEF TxFree
    <3> QED
      BY <2>2, <3>1 DEF Refuse
  <2> QED
    BY <2>1, <2>2
<1> QED
  BY <1>1, OneSent

LEMMA NothingSent == ASSUME sent' = <<>> PROVE SendStep
<1>1. DOMAIN <<>> = {}
  OBVIOUS
<1> QED
  BY <1>1 DEF SendStep

LEMMA TickSends == ASSUME IInv, TickSteps PROVE SendStep
<1>1. CASE TickExpired \/ TickWaits \/ TickBlocked \/ TickDrained \/ TickTimeout
  BY <1>1, NothingSent
  DEF TickExpired, TickWaits, TickBlocked, TickDrained, TickTimeout, Quietly
<1>2. CASE TickIdlePoll \/ TickIdleStart \/ TickSettled \/ TickReread \/ TickRecovery
  <2>1. Transmit(Query, PollWire) \/ Refuse(Query)
    BY <1>2 DEF TickIdlePoll, TickIdleStart, TickSettled, TickReread, TickRecovery,
                Poll, PollWith
  <2> QED
    BY <2>1, HandedOver DEF SendStep
<1>3. CASE TickSend
  <2>1. /\ phase = "CONTROL_READY" /\ ~Blocked(status, steps[step])
        /\ \/ Transmit(steps[step].packet, SetterWire)
           \/ Refuse(steps[step].packet)
    BY <1>3 DEF TickSend, TickIn
  <2>2. Active /\ step \in DOMAIN steps
    BY <2>1 DEF IInv, SettersSentOnce, Exchange, Resting
  <2> QED
    BY <2>1, <2>2, HandedOver DEF SendStep
<1> QED
  BY <1>1, <1>2, <1>3 DEF TickSteps

LEMMA NextSends == ASSUME IInv, [Next]_vars PROVE [SendStep]_vars
<1>1. CASE Advance \/ RequestPoll \/ \E r \in Requests : Enqueue(r)
  BY <1>1, NothingSent DEF Advance, RequestPoll, Enqueue, Reject, Admit, Supersede
<1>2. CASE TickSteps
  BY <1>2, TickSends
<1>3. CASE \E s \in Statuses : Receive(s)
  BY <1>3, NothingSent
  DEF Receive, ReceiveIgnored, ReceiveIdle, ReceiveTooLate, ReceiveRuledOut,
      ReceiveBaseline, ReceiveDryLost, ReceiveStale, ReceiveStep, ReceiveDone,
      Answers, Confirming, Stored
<1>4. CASE UNCHANGED vars
  BY <1>4
<1> QED
  BY <1>1, <1>2, <1>3, <1>4 DEF Next

SwingStep ==
    \A i \in DOMAIN sent' : sent'[i].setter = "swing" =>
        LET axis  == sent'[i].value % 4
            other == Horizontal + Vertical - axis
            wanted == current.request["swing"]
        IN  /\ Moves(status.swing, axis) # Moves(wanted, axis)
            /\ (\E j \in 1 .. step - 1 : steps[j].packet.setter = "swing") =>
                  Moves(status.swing, other) = Moves(wanted, other)

DryStep ==
    \A i \in DOMAIN sent' :
        /\ sent'[i].setter = "temperature" /\ DryOffsetEnabled
             => status.mode # Dry
        /\ sent'[i].setter = "dryOffset"
             => Drying(status) /\ status.compensation # UnknownNibble

LEMMA SentSwing == ASSUME SInv, SendStep PROVE SwingStep
<1> SUFFICES ASSUME NEW i \in DOMAIN sent', sent'[i].setter = "swing"
             PROVE  LET axis  == sent'[i].value % 4
                        other == Horizontal + Vertical - axis
                        wanted == current.request["swing"]
                    IN  /\ Moves(status.swing, axis) # Moves(wanted, axis)
                        /\ (\E j \in 1 .. step - 1 : steps[j].packet.setter = "swing") =>
                              Moves(status.swing, other) = Moves(wanted, other)
  BY DEF SwingStep
<1> DEFINE t == steps[step]
           wanted == current.request["swing"]
           second == \E j \in 1 .. step - 1 : IsSwing(steps[j])
<1>1. /\ Active /\ step \in DOMAIN steps
      /\ sent'[i] = t.packet /\ ~Blocked(status, t)
  BY DEF SendStep, Query
<1>2. steps # <<>>
  <2>1. DOMAIN <<>> = {}
    OBVIOUS
  <2> QED
    BY <1>1, <2>1
<1>3. SwingSound(t, wanted, second)
  BY <1>1, <1>2 DEF SInv, SwingsSound, IsSwing
<1>4. Matches(status, t.guard) /\ Names(t.guard, "swing")
  BY <1>1, <1>3 DEF Blocked, SwingSound
<1>5. status.swing = t.guard["swing"]
  BY <1>4 DEF Matches
<1> QED
  BY <1>1, <1>3, <1>5 DEF SwingSound, IsSwing

LEMMA SentDry == ASSUME SInv, SendStep PROVE DryStep
<1> SUFFICES ASSUME NEW i \in DOMAIN sent', sent'[i].setter \in {"temperature", "dryOffset"}
             PROVE  /\ sent'[i].setter = "temperature" /\ DryOffsetEnabled
                         => status.mode # Dry
                    /\ sent'[i].setter = "dryOffset"
                         => Drying(status) /\ status.compensation # UnknownNibble
  BY DEF DryStep
<1> DEFINE t == steps[step]
<1>1. /\ Active /\ step \in DOMAIN steps
      /\ sent'[i] = t.packet /\ ~Blocked(status, t)
  BY DEF SendStep, Query
<1>2. steps # <<>>
  <2>1. DOMAIN <<>> = {}
    OBVIOUS
  <2> QED
    BY <1>1, <2>1
<1>3. DrySound(t)
  BY <1>1, <1>2 DEF SInv, DriesSound
<1> HIDE DEF t
<1>4. CASE t.packet.setter = "temperature"
  BY <1>1, <1>3, <1>4 DEF DrySound, Blocked
<1>5. CASE t.packet.setter = "dryOffset"
  <2>1. PICK c \in 0 .. 15 : c # UnknownNibble /\ t.guard["dryOffset"] = OffsetOf(c)
    BY <1>3, <1>5 DEF DrySound
  <2>2. Drying(status) /\ status.compensation = Nibble(t.guard["dryOffset"])
    BY <1>1, <1>3, <1>5 DEF DrySound, Blocked, Matches
  <2>3. Nibble(OffsetOf(c)) = c
    BY <2>1 DEF Nibble, OffsetOf, UnknownNibble
  <2> QED
    BY <1>1, <1>5, <2>1, <2>2, <2>3
<1> QED
  BY <1>1, <1>4, <1>5

LEMMA SoundSends ==
    Spec => [][SwingStep]_vars /\ [][DryStep]_vars
<1>1. Init => IInv /\ SInv
  <2>1. Init => SInv
    BY DEF Init, SInv, Active
  <2> QED
    BY <2>1, InitIInv
<1>2. (IInv /\ SInv) /\ [Next]_vars => (IInv /\ SInv)'
  BY NextKeepsIInv, NextKeepsSInv
<1>3. (IInv /\ SInv) /\ [Next]_vars => [SwingStep]_vars /\ [DryStep]_vars
  BY NextSends, SentSwing, SentDry
<1> QED
  BY <1>1, <1>2, <1>3, PTL DEF Spec

\* An axis is only turned when the status just before says that it is not as
\* wanted, and the second one of an operation finds the first as wanted.
THEOREM SwingIsTurnedSafely == Spec => SwingSafety
BY SoundSends DEF SwingSafety, SwingStep

\* With a Dry adjustment configured, no absolute target reaches a unit whose
\* latest status says Dry, and no adjustment one that is not drying.
THEOREM DryIsAdjustedSafely == Spec => DrySafety
BY SoundSends DEF DrySafety, DryStep
=============================================================================
