----------------------------- MODULE Transport -----------------------------
(***************************************************************************)
(* transport::Engine: the half-duplex transaction engine between the       *)
(* Hisense component and the serial line.  Callers enqueue operations and  *)
(* ask for polls; tick, called from every turn of the main loop, drives a  *)
(* transaction (baseline poll, setter, settle, confirmation poll, ...);    *)
(* receive hands in each decoded status.  There is one thread, but the     *)
(* calls come in any order and time passes between any two of them.        *)
(***************************************************************************)
EXTENDS Intents, Clock, FiniteSets

CONSTANTS
    Requests,           \* the intents callers offer, valid or not
    Statuses,           \* the statuses the unit may report
    NoOperation,        \* stands for "no operation is active"
    QueueCapacity,      \* QUEUE_CAPACITY
    MaxSteps,           \* MAX_STEPS
    PollWire,           \* wire_time_ms of the status query
    SetterWire,         \* wire_time_ms of a setter, the longest
    ResponseTimeout,    \* RESPONSE_TIMEOUT_MS
    OperationTimeout,   \* OPERATION_TIMEOUT_MS
    MaxPolls,           \* the 20 confirmation polls of tick
    GenerationSize,     \* 2^32 generations, 0 is not one
    MaxLag              \* bound: the longest time between two ticks

Generation == 1 .. (GenerationSize - 1)
Accepted   == {Normalized(r) : r \in {x \in Requests : Valid(x)}}
Operation  == [request : Accepted, generation : Generation, age : Elapsed]

ASSUME TransportAssumption ==
    /\ \A r \in Requests : IsIntent(r)
    /\ Statuses \subseteq Status
    /\ NoOperation \notin Operation
    /\ {QueueCapacity, MaxSteps, PollWire, SetterWire, ResponseTimeout,
        OperationTimeout, MaxPolls, MaxLag} \subseteq Nat \ {0}
    /\ GenerationSize \in Nat /\ GenerationSize > 1
    /\ OperationTimeout + MaxLag < HalfRange
    /\ SetterWire + ResponseTimeout + MaxLag < HalfRange
    /\ PollWire + ResponseTimeout + MaxLag < HalfRange

Phase == {"IDLE", "CONTROL_READY", "CONTROL_DRAIN", "CONTROL_SETTLE",
          "POLL_DRAIN", "WAIT_STATUS", "RECOVERY"}
Result == {"CONFIRMED", "UNVERIFIED", "TIMEOUT", "EXPIRED", "CANCELLED",
           "SUPERSEDED", "UNSUPPORTED", "PREREQUISITE", "WRITE_FAILED"}

\* Mutant: a lifetime that ends is not a failure.
FailureButExpiry(result) == result \notin {"CONFIRMED", "UNVERIFIED", "EXPIRED"}

Failure(result) == result \notin {"CONFIRMED", "UNVERIFIED"}

\* A call of Listener::operation_finished.
Callback == [generation : 0 .. (GenerationSize - 1), result : Result]

Query == [setter |-> "query", value |-> 0]

VARIABLES
    queue,              \* queue_, count_: accepted operations, oldest first
    nextGeneration,     \* next_generation_
    current,            \* current_ when active_, else NoOperation
    steps,              \* steps_, step_count_ (empty when not active)
    step,               \* step_, counted from 1
    status,             \* status_
    pollRequested,      \* poll_requested_
    baselinePoll,       \* baseline_poll_
    unverified,         \* unverified_
    recovering,         \* recovering_
    responseSeen,       \* response_seen_
    confirmationPolls,  \* confirmation_polls_
    deadline,           \* deadline_
    txUntil,            \* tx_until_
    txStarted,          \* tx_started_
    phase,              \* phase_
    finished,           \* operation_finished calls of the last step
    sent,               \* send_packet calls of the last step
    setters,            \* ghost: setters handed to the UART for current
    lag                 \* time since the last tick

plan    == <<steps, step, unverified, setters>>
polling == <<pollRequested, baselinePoll, recovering, responseSeen,
             confirmationPolls>>
timers  == <<deadline, txUntil, txStarted, phase>>
outputs == <<finished, sent>>
vars    == <<queue, nextGeneration, current, status, lag, plan, polling,
             timers, outputs>>

Init ==
    /\ queue = <<>>
    /\ nextGeneration = 0
    /\ current = NoOperation
    /\ steps = <<>> /\ step = 1 /\ unverified = FALSE /\ setters = 0
    /\ status = NoStatus
    /\ pollRequested = FALSE /\ baselinePoll = FALSE /\ recovering = FALSE
    /\ responseSeen = FALSE /\ confirmationPolls = 0
    /\ deadline = 0 /\ txUntil = 0 /\ txStarted = FALSE /\ phase = "IDLE"
    /\ finished = <<>> /\ sent = <<>>
    /\ lag = 0

-----------------------------------------------------------------------------
Active == current # NoOperation

Outcome(op, result) == [generation |-> op.generation, result |-> result]

Outcomes(ops, result) == [i \in DOMAIN ops |-> Outcome(ops[i], result)]

\* What finish_ tells the listener of the operation it ends, or, when none is
\* active, of a failed poll (generation 0); an idle poll succeeds silently.
Verdict(op, result) ==
    IF op # NoOperation
      THEN <<Outcome(op, result)>>
      ELSE When(Failure(result), <<[generation |-> 0, result |-> result]>>)

\* Mutant: operations never expire.
NeverOld(op) == FALSE

\* Operations whose lifetime is over.  They form a prefix of the queue, which
\* is in the order of acceptance, so that tick's removal of each of them
\* leaves the rest of the queue as it is.
Old(op) == op.age >= OperationTimeout
Lapsed  == {i \in DOMAIN queue : Old(queue[i])}
\* Mutant: only the oldest operation is looked at.
WaitingBehindOne ==
    IF 1 \in Lapsed THEN Tail(queue) ELSE queue

Waiting == SubSeq(queue, 1 + Cardinality(Lapsed), Len(queue))
\* Mutant: expired operations are dropped without a word.
LapsesUnreported == <<>>

Lapses  == Outcomes(SubSeq(queue, 1, Cardinality(Lapsed)), "EXPIRED")

TxFree == txStarted => Due(txUntil)

(***************************************************************************)
(* finish_(result) for the operation op (NoOperation: a poll of its own),  *)
(* when q is left of the queue and `events` were already reported by this  *)
(* call.  A failure cancels the queue and asks for one read-only recovery  *)
(* poll, unless it is the recovery poll that failed.                       *)
(***************************************************************************)
FinishWith(op, result, q, events) ==
    /\ current' = NoOperation
    /\ steps' = <<>> /\ step' = 1 /\ setters' = 0
    /\ IF Failure(result)
         THEN /\ finished' = events \o Verdict(op, result)
                                    \o Outcomes(q, "CANCELLED")
              /\ queue' = <<>>
              /\ phase' = IF recovering THEN "IDLE" ELSE "RECOVERY"
              /\ deadline' = Ahead(ResponseTimeout)
              /\ pollRequested' = FALSE
              /\ recovering' = ~recovering
         ELSE /\ finished' = events \o Verdict(op, result)
              /\ queue' = q
              /\ phase' = "IDLE"
              /\ recovering' = FALSE
              /\ UNCHANGED <<deadline, pollRequested>>

Finish(result, q, events) == FinishWith(current, result, q, events)

\* send_ hands a packet to the UART and notes when it will be on the wire.
Transmit(packet, wire) ==
    /\ TxFree
    /\ sent' = <<packet>>
    /\ txStarted' = TRUE
    /\ txUntil' = Ahead(wire)

\* send_ fails: it is still transmitting, or the UART takes no packet.
Refuse(packet) ==
    /\ sent' = When(TxFree, <<packet>>)
    /\ UNCHANGED <<txStarted, txUntil>>

\* poll_, on behalf of op (NoOperation: a poll of its own).
PollWith(op, baseline, q, events) ==
    /\ baselinePoll' = baseline
    /\ responseSeen' = FALSE
    /\ confirmationPolls' =
          confirmationPolls + (IF op # NoOperation /\ ~baseline THEN 1 ELSE 0)
    /\ \/ /\ Transmit(Query, PollWire)
          /\ current' = op /\ queue' = q /\ finished' = events
          /\ pollRequested' = FALSE
          /\ deadline' = Later(txUntil', ResponseTimeout)
          /\ phase' = "POLL_DRAIN"
          /\ UNCHANGED <<steps, step, setters, recovering>>
       \/ /\ Refuse(Query)
          /\ FinishWith(op, "WRITE_FAILED", q, events)
    /\ UNCHANGED <<nextGeneration, status, unverified>>

Poll(baseline, q, events) == PollWith(current, baseline, q, events)

-----------------------------------------------------------------------------
(* Calls from the component.                                               *)

\* Mutant: the counter wraps to 0.
NextGenerationZero == (nextGeneration + 1) % GenerationSize

\* ++next_generation_, which skips 0.
NextGeneration == IF nextGeneration + 1 = GenerationSize
                    THEN 1 ELSE nextGeneration + 1

\* The accepted operations that still have no outcome.
LiveGenerations ==
    {queue[i].generation : i \in DOMAIN queue} \cup
    (IF Active THEN {current.generation} ELSE {})

\* The newest queued operation is about the same single setting.
Replaces(r) ==
    /\ queue # <<>> /\ Absolute(r)
    /\ DOMAIN r = DOMAIN queue[Len(queue)].request

Untouched == UNCHANGED <<current, status, lag, plan, polling, timers>>

Reject(r) ==
    /\ ~Valid(r) \/ (Len(queue) = QueueCapacity /\ ~Replaces(r))
    /\ finished' = <<>> /\ sent' = <<>>
    /\ UNCHANGED <<queue, nextGeneration>>
    /\ Untouched

Entry(r) == [request |-> Normalized(r), generation |-> NextGeneration, age |-> 0]

\* Mutant: the newest operation goes first.
AdmitFirst(r) ==
    /\ Valid(r) /\ ~Replaces(r) /\ Len(queue) < QueueCapacity
    /\ NextGeneration \notin LiveGenerations
    /\ nextGeneration' = NextGeneration
    /\ queue' = <<Entry(r)>> \o queue
    /\ finished' = <<>> /\ sent' = <<>>
    /\ Untouched

Admit(r) ==
    /\ Valid(r) /\ ~Replaces(r) /\ Len(queue) < QueueCapacity
    /\ NextGeneration \notin LiveGenerations    \* bound: 2^32 never wraps round
    /\ nextGeneration' = NextGeneration
    /\ queue' = Append(queue, Entry(r))
    /\ finished' = <<>> /\ sent' = <<>>
    /\ Untouched

Supersede(r) ==
    /\ Valid(r) /\ Replaces(r)
    /\ NextGeneration \notin LiveGenerations    \* bound: 2^32 never wraps round
    /\ nextGeneration' = NextGeneration
    /\ queue' = [queue EXCEPT ![Len(queue)] = Entry(r)]
    /\ finished' = <<Outcome(queue[Len(queue)], "SUPERSEDED")>> /\ sent' = <<>>
    /\ Untouched

Enqueue(r) == Reject(r) \/ Admit(r) \/ Supersede(r)

RequestPoll ==
    /\ pollRequested' = (pollRequested \/ phase \notin {"POLL_DRAIN", "WAIT_STATUS"})
    /\ finished' = <<>> /\ sent' = <<>>
    /\ UNCHANGED <<queue, nextGeneration, current, status, lag, plan, timers,
                   baselinePoll, recovering, responseSeen, confirmationPolls>>

-----------------------------------------------------------------------------
(* tick.  Every case first drops the queued operations whose time is over. *)

\* Mutant: the lifetime is looked at only while waiting for a status.
ExpiredWaiting == Active /\ Old(current) /\ phase = "WAIT_STATUS"

Expired == Active /\ Old(current)

Tick == lag' = 0

TickExpired ==
    /\ Tick /\ Expired
    /\ Finish("EXPIRED", Waiting, Lapses)
    /\ sent' = <<>>
    /\ UNCHANGED <<nextGeneration, status, unverified, baselinePoll,
                   responseSeen, confirmationPolls, txUntil, txStarted>>

\* The case of the switch on phase_.
TickIn(p) == Tick /\ ~Expired /\ phase = p

\* The turn goes by without a transmission and without an outcome.
Quietly == 
    /\ queue' = Waiting /\ finished' = Lapses /\ sent' = <<>>
    /\ UNCHANGED <<nextGeneration, current, status, plan, polling, deadline,
                   txUntil, txStarted>>

\* Nothing to do, or a transmission or a wait that is not over.
TickWaits ==
    /\ Tick /\ ~Expired
    /\ phase = "IDLE" => (TxFree => ~pollRequested /\ Waiting = <<>>)
    /\ phase = "CONTROL_READY" => ~TxFree
    /\ phase \in {"CONTROL_DRAIN", "POLL_DRAIN"} => ~Due(txUntil)
    /\ phase \in {"CONTROL_SETTLE", "WAIT_STATUS"} => ~Due(deadline)
    /\ phase = "RECOVERY" => ~(Due(deadline) /\ TxFree)
    /\ Quietly
    /\ UNCHANGED phase

\* Mutant: a poll is served after every control.
TickIdlePollLast ==
    /\ TickIn("IDLE") /\ TxFree /\ pollRequested /\ Waiting = <<>>
    /\ Poll(FALSE, Waiting, Lapses)

TickIdlePoll ==
    /\ TickIn("IDLE") /\ TxFree /\ pollRequested
    /\ Poll(FALSE, Waiting, Lapses)

\* Mutant: the newest operation is served first.
TickStartNewest ==
    /\ TickIn("IDLE") /\ TxFree /\ ~pollRequested /\ Waiting # <<>>
    /\ PollWith(Waiting[Len(Waiting)], TRUE,
                SubSeq(Waiting, 1, Len(Waiting) - 1), Lapses)

TickIdleStart ==
    /\ TickIn("IDLE") /\ TxFree /\ ~pollRequested /\ Waiting # <<>>
    /\ PollWith(Head(Waiting), TRUE, Tail(Waiting), Lapses)

TickBlocked ==
    /\ TickIn("CONTROL_READY") /\ TxFree /\ Blocked(status, steps[step])
    /\ Finish("PREREQUISITE", Waiting, Lapses)
    /\ sent' = <<>>
    /\ UNCHANGED <<nextGeneration, status, unverified, baselinePoll,
                   responseSeen, confirmationPolls, txUntil, txStarted>>

TickSend ==
    /\ TickIn("CONTROL_READY") /\ TxFree /\ ~Blocked(status, steps[step])
    /\ \/ /\ Transmit(steps[step].packet, SetterWire)
          /\ queue' = Waiting /\ finished' = Lapses
          /\ setters' = setters + 1
          /\ deadline' = Later(txUntil', ResponseTimeout)
          /\ phase' = "CONTROL_DRAIN"
          /\ UNCHANGED <<current, steps, step, pollRequested, recovering>>
       \/ /\ Refuse(steps[step].packet)
          /\ Finish("WRITE_FAILED", Waiting, Lapses)
    /\ UNCHANGED <<nextGeneration, status, unverified, baselinePoll,
                   responseSeen, confirmationPolls>>

\* Mutant: the drain of a poll is never left by tick.
TickDrainedControl ==
    /\ TickIn("CONTROL_DRAIN") /\ Due(txUntil)
    /\ Quietly /\ phase' = "CONTROL_SETTLE"

TickDrained ==
    /\ \E p \in {"CONTROL_DRAIN", "POLL_DRAIN"} : TickIn(p)
    /\ Due(txUntil)
    /\ Quietly
    /\ phase' = IF phase = "CONTROL_DRAIN" THEN "CONTROL_SETTLE" ELSE "WAIT_STATUS"

TickSettled ==
    /\ TickIn("CONTROL_SETTLE") /\ Due(deadline)
    /\ Poll(FALSE, Waiting, Lapses)

\* Mutant: a stale status is read again once only.
RereadOnce ==
    Active /\ ~baselinePoll /\ responseSeen /\ confirmationPolls < 2

\* A stale status is not a rejection: read again, never send the setter again.
RereadAllowed ==
    Active /\ ~baselinePoll /\ responseSeen /\ confirmationPolls < MaxPolls

\* Mutant: a stale status sends the setter again.
TickResend ==
    /\ TickIn("WAIT_STATUS") /\ Due(deadline) /\ RereadAllowed
    /\ Quietly /\ phase' = "CONTROL_READY"

TickReread ==
    /\ TickIn("WAIT_STATUS") /\ Due(deadline) /\ RereadAllowed
    /\ Poll(baselinePoll, Waiting, Lapses)

TickTimeout ==
    /\ TickIn("WAIT_STATUS") /\ Due(deadline) /\ ~RereadAllowed
    /\ Finish("TIMEOUT", Waiting, Lapses)
    /\ sent' = <<>>
    /\ UNCHANGED <<nextGeneration, status, unverified, baselinePoll,
                   responseSeen, confirmationPolls, txUntil, txStarted>>

\* Mutant: the recovery poll goes out without waiting for the line.
TickRecoveryNow ==
    TickIn("RECOVERY") /\ Poll(FALSE, Waiting, Lapses)

\* Mutant: the next operation serves as the recovery poll.
TickRecoveryServes ==
    /\ TickIn("RECOVERY") /\ Due(deadline) /\ TxFree /\ Waiting # <<>>
    /\ PollWith(Head(Waiting), TRUE, Tail(Waiting), Lapses)

TickRecovery ==
    /\ TickIn("RECOVERY") /\ Due(deadline) /\ TxFree
    /\ Poll(FALSE, Waiting, Lapses)

TickSteps ==
    \/ TickExpired \/ TickWaits \/ TickIdlePoll \/ TickIdleStart
    \/ TickBlocked \/ TickSend \/ TickDrained \/ TickSettled
    \/ TickReread \/ TickTimeout \/ TickRecovery

-----------------------------------------------------------------------------
(* receive(s).  Every status is kept; it counts for the transaction only   *)
(* after the query has left the wire and before the response timeout.      *)

Listening == phase = "WAIT_STATUS" \/ (phase = "POLL_DRAIN" /\ Due(txUntil))
Counts    == Listening /\ ~Due(deadline)

Stored(s) == status' = s /\ sent' = <<>>

Unsent == UNCHANGED <<nextGeneration, lag, baselinePoll, txUntil, txStarted>>

ReceiveIgnored(s) ==
    /\ ~Counts
    /\ Stored(s) /\ Unsent
    /\ phase' = IF Listening THEN "WAIT_STATUS" ELSE phase
    /\ finished' = <<>>
    /\ UNCHANGED <<queue, current, plan, pollRequested, recovering,
                   responseSeen, confirmationPolls, deadline>>

\* The answer to a poll of its own.
ReceiveIdle(s) ==
    /\ Counts /\ ~Active
    /\ Stored(s) /\ Unsent
    /\ responseSeen' = TRUE
    /\ Finish("CONFIRMED", queue, <<>>)
    /\ UNCHANGED <<unverified, confirmationPolls>>

Answers(s) ==
    /\ Counts /\ Active /\ ~Old(current)
    /\ Stored(s) /\ Unsent
    /\ responseSeen' = TRUE

\* The operation's lifetime is over; tick is going to say so.
ReceiveTooLate(s) ==
    /\ Counts /\ Active /\ Old(current)
    /\ Stored(s) /\ Unsent
    /\ responseSeen' = TRUE
    /\ phase' = "WAIT_STATUS" /\ finished' = <<>>
    /\ UNCHANGED <<queue, current, plan, pollRequested, recovering,
                   confirmationPolls, deadline>>

ReceiveRuledOut(s) ==
    /\ Answers(s) /\ baselinePoll
    /\ RuledOut(s, current.request)
    /\ confirmationPolls' = 0
    /\ Finish("PREREQUISITE", queue, <<>>)
    /\ UNCHANGED unverified

\* The plan is made from the status just read.
ReceiveBaseline(s) ==
    /\ Answers(s) /\ baselinePoll
    /\ ~RuledOut(s, current.request)
    /\ confirmationPolls' = 0
    /\ unverified' = Names(current.request, "preset")
    /\ LET made == Plan(s, current.request) IN
         IF Len(made) \in 1 .. MaxSteps
           THEN /\ steps' = made /\ step' = 1 /\ setters' = 0
                /\ phase' = "CONTROL_READY" /\ finished' = <<>>
                /\ UNCHANGED <<queue, current, pollRequested, recovering, deadline>>
           ELSE Finish(IF made = <<>> THEN "CONFIRMED" ELSE "UNSUPPORTED",
                       queue, <<>>)

Confirming(s) == Answers(s) /\ ~baselinePoll

DryLost(s) == Names(current.request, "dryOffset") /\ ~Drying(s)

ReceiveDryLost(s) ==
    /\ Confirming(s) /\ DryLost(s)
    /\ Finish("PREREQUISITE", queue, <<>>)
    /\ UNCHANGED <<unverified, confirmationPolls>>

StepDone(s) == ~DryLost(s) /\ Matches(s, steps[step].expected)
LastStep    == step = Len(steps)

\* Not what the step, or the whole request, is waiting for.
ReceiveStale(s) ==
    /\ Confirming(s) /\ ~DryLost(s)
    /\ ~StepDone(s) \/ (LastStep /\ ~Matches(s, Final(current.request)))
    /\ phase' = "WAIT_STATUS" /\ finished' = <<>>
    /\ UNCHANGED <<queue, current, plan, pollRequested, recovering,
                   confirmationPolls, deadline>>

ReceiveStep(s) ==
    /\ Confirming(s) /\ StepDone(s) /\ ~LastStep
    /\ step' = step + 1
    /\ confirmationPolls' = 0
    /\ phase' = "CONTROL_READY" /\ finished' = <<>>
    /\ UNCHANGED <<queue, current, steps, unverified, setters, pollRequested,
                   recovering, deadline>>

\* Mutant: the last step is enough.
ReceiveDoneUnchecked(s) ==
    /\ Confirming(s) /\ StepDone(s) /\ LastStep
    /\ Finish(IF unverified THEN "UNVERIFIED" ELSE "CONFIRMED", queue, <<>>)
    /\ UNCHANGED <<unverified, confirmationPolls>>

ReceiveDone(s) ==
    /\ Confirming(s) /\ StepDone(s) /\ LastStep
    /\ Matches(s, Final(current.request))
    /\ Finish(IF unverified THEN "UNVERIFIED" ELSE "CONFIRMED", queue, <<>>)
    /\ UNCHANGED <<unverified, confirmationPolls>>

Receive(s) ==
    \/ ReceiveIgnored(s) \/ ReceiveIdle(s) \/ ReceiveTooLate(s)
    \/ ReceiveRuledOut(s) \/ ReceiveBaseline(s) \/ ReceiveDryLost(s)
    \/ ReceiveStale(s) \/ ReceiveStep(s) \/ ReceiveDone(s)

-----------------------------------------------------------------------------
Aged(op) == [op EXCEPT !.age = Older(@)]

\* One unit of time passes.
Advance ==
    /\ lag < MaxLag
    /\ lag' = lag + 1
    /\ queue' = [i \in DOMAIN queue |-> Aged(queue[i])]
    /\ current' = IF Active THEN Aged(current) ELSE current
    /\ deadline' = Older(deadline)
    /\ txUntil' = Older(txUntil)
    /\ finished' = <<>> /\ sent' = <<>>
    /\ UNCHANGED <<nextGeneration, status, plan, polling, txStarted, phase>>

Next ==
    \/ Advance
    \/ RequestPoll
    \/ TickSteps
    \/ \E r \in Requests : Enqueue(r)
    \/ \E s \in Statuses : Receive(s)

Spec == Init /\ [][Next]_vars
=============================================================================
