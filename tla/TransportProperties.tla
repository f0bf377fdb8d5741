------------------------ MODULE TransportProperties ------------------------
(***************************************************************************)
(* What must be true of the engine.                                        *)
(***************************************************************************)
EXTENDS Transport

OperationsOK ==
    /\ queue \in Seq(Operation) /\ Len(queue) <= QueueCapacity
    /\ nextGeneration \in 0 .. (GenerationSize - 1)
    /\ current \in Operation \cup {NoOperation}

PlanOK ==
    /\ IsPlan(steps) /\ Len(steps) <= MaxSteps
    /\ step \in Nat \ {0} /\ setters \in Nat
    /\ unverified \in BOOLEAN

PollingOK ==
    /\ pollRequested \in BOOLEAN /\ baselinePoll \in BOOLEAN
    /\ recovering \in BOOLEAN /\ responseSeen \in BOOLEAN
    /\ confirmationPolls \in Nat

TimersOK ==
    /\ deadline \in Elapsed /\ txUntil \in Elapsed /\ txStarted \in BOOLEAN
    /\ phase \in Phase

OutputsOK == finished \in Seq(Callback) /\ sent \in Seq(Packet)

\* Every variable holds a value of its kind: in particular the generation of
\* an operation is never 0, and the plan fits the storage of the engine.
TypeOK ==
    /\ OperationsOK /\ PlanOK /\ PollingOK /\ TimersOK /\ OutputsOK
    /\ status \in Status
    /\ lag \in 0 .. MaxLag

Exchange == {"CONTROL_DRAIN", "CONTROL_SETTLE", "POLL_DRAIN", "WAIT_STATUS"}

\* "never a setter retry": while an operation is active the setters handed to
\* the UART are exactly those of the steps confirmed so far, plus that of the
\* current step once its phase is past CONTROL_READY - however many polls,
\* stale answers and re-reads there are, and none before the baseline status.
SettersSentOnce ==
    IF ~Active THEN setters = 0 /\ steps = <<>>
    ELSE IF phase = "CONTROL_READY" THEN step \in DOMAIN steps /\ setters = step - 1
    ELSE /\ phase \in Exchange
         /\ IF phase \in {"POLL_DRAIN", "WAIT_STATUS"} /\ baselinePoll
              THEN setters = 0 /\ steps = <<>>
              ELSE step \in DOMAIN steps /\ setters = step

\* An accepted operation, queued or active, is never older than its lifetime
\* by more than the time since the last tick: the ten seconds run from the
\* acceptance and no phase, re-read or queue position prolongs them.
BoundedLifetime ==
    /\ \A i \in DOMAIN queue : queue[i].age < OperationTimeout + lag
    /\ Active => current.age < OperationTimeout + lag

\* Operations wait in the order of their acceptance, and the active one is the
\* oldest, whatever was superseded, expired or cancelled in between.
AcceptanceOrder ==
    /\ \A i, j \in DOMAIN queue : i < j => queue[i].age >= queue[j].age
    /\ Active => \A i \in DOMAIN queue : current.age >= queue[i].age

\* What tick's loop leaves of the queue is exactly the operations whose time is
\* not over, in their order: they are what is behind a prefix of it, although
\* the loop looks at every entry and removes it where it finds it.
ExpiryIsAPrefix ==
    LET k == Len(queue) - Len(Waiting) IN
    \A i \in DOMAIN queue :
        IF Old(queue[i]) THEN i <= k ELSE i > k /\ Waiting[i - k] = queue[i]

\* The recovery poll is a poll of its own: while it is pending no operation is
\* active, so that no setter can be sent, and RECOVERY is entered for it only.
RecoveryIsReadOnly ==
    /\ recovering => ~Active /\ phase \in {"RECOVERY", "POLL_DRAIN", "WAIT_STATUS"}
    /\ phase = "RECOVERY" => recovering

\* "TX drain allowance": the line counts as busy for no longer than the wire
\* time of the last packet.  Not so when a timestamp may roll over: HalfRange
\* after the last transmission its end seems to lie ahead again, and tick stays
\* in IDLE while the queue expires.
DrainAllowance ==
    TxFree \/ \E d \in 1 .. SetterWire \cup 1 .. PollWire : txUntil = Ahead(d)

-----------------------------------------------------------------------------
Reports(g, result) ==
    \E i \in DOMAIN finished' : finished'[i] = [generation |-> g, result |-> result]

\* Exactly the operations that stop being live in a step are reported in it,
\* each once: no accepted operation is lost, none is reported twice, none is
\* reported and then still served.
OneOutcome ==
    [][ LET reported == {i \in DOMAIN finished' : finished'[i].generation # 0}
            names    == {finished'[i].generation : i \in reported}
        IN  /\ \A i, j \in reported :
                  finished'[i].generation = finished'[j].generation => i = j
            /\ names = LiveGenerations \ LiveGenerations' ]_vars

\* An operation is confirmed only by the status received in that very step,
\* which shows all of the request except its preset, and not before each
\* setter of its plan was sent; and a preset makes the outcome unverified.
ConfirmedMeansShown ==
    [][ Active /\ (Reports(current.generation, "CONFIRMED") \/
                   Reports(current.generation, "UNVERIFIED"))
        => /\ Matches(status', Final(current.request))
           /\ setters = Len(steps)
           /\ Reports(current.generation, "UNVERIFIED")
                <=> Names(current.request, "preset") ]_vars

\* The engine never trips over its own transmission: an operation or a poll
\* fails with WRITE_FAILED only when the UART was offered the packet.
WriteFailedMeansRefused ==
    [][ (\E g \in Generation \cup {0} : Reports(g, "WRITE_FAILED"))
        => sent' # <<>> ]_vars

\* "response timeouts count unanswered status transactions": a TIMEOUT is
\* reported only when no status came in within the response window of the last
\* query; answers that do not show the setting yet lead to further queries until
\* the lifetime ends, never to a TIMEOUT.
TimeoutMeansSilence ==
    [][ (\E g \in Generation \cup {0} : Reports(g, "TIMEOUT"))
        => ~responseSeen ]_vars

\* A tick that finds an operation waiting and no transaction under way never
\* leaves the line idle: what ended before has left the wire by then, so that
\* an operation does not age in the queue while nothing is happening.
IdleServes ==
    [][ phase = "IDLE" /\ Waiting # <<>> /\ TickSteps => sent' # <<>> ]_vars

\* "failed confirmation prevents the next axis command": a swing setter moves
\* an axis which the latest status says is not as wanted, and the second one of
\* an operation finds the first one's axis as wanted.
SwingSafety ==
    [][ \A i \in DOMAIN sent' : sent'[i].setter = "swing" =>
          LET axis  == sent'[i].value % 4
              other == Horizontal + Vertical - axis
              wanted == current.request["swing"]
          IN  /\ Moves(status.swing, axis) # Moves(wanted, axis)
              /\ (\E j \in 1 .. step - 1 : steps[j].packet.setter = "swing") =>
                    Moves(status.swing, other) = Moves(wanted, other) ]_vars

\* With a Dry adjustment configured no absolute target ever reaches a unit
\* whose latest status says Dry, and an adjustment reaches only a unit that is
\* drying and reports a known offset, as it did at the baseline.
DrySafety ==
    [][ \A i \in DOMAIN sent' :
          /\ sent'[i].setter = "temperature" /\ DryOffsetEnabled
               => status.mode # Dry
          /\ sent'[i].setter = "dryOffset"
               => Drying(status) /\ status.compensation # UnknownNibble ]_vars

-----------------------------------------------------------------------------
(* The engine serves as OperationService describes.                        *)

Service == INSTANCE OperationService WITH
    Generations <- Generation,
    waiting     <- [i \in DOMAIN queue |-> queue[i].generation],
    serving     <- IF Active THEN current.generation ELSE 0,
    outcomes    <- finished

\* Every step of the engine is a step of the service, or changes nothing of it.
ImplementsService == Service!ServiceSpec

-----------------------------------------------------------------------------
(* ESPHome calls loop, hence tick, over and over, and time passes.  Callers *)
(* and the unit may do as they please, and the unit may stay silent.       *)
Fairness == WF_vars(TickSteps) /\ WF_vars(Advance)

FairSpec == Spec /\ Fairness

\* Every accepted operation comes to an outcome.
EveryOperationEnds ==
    \A g \in Generation : g \in LiveGenerations ~> g \notin LiveGenerations

\* No poll request is starved by a burst of controls.
PollNotStarved == pollRequested ~> ~pollRequested

\* The engine always returns to rest; no phase is a trap.
AlwaysIdleAgain == []<>(phase = "IDLE")
=============================================================================
