---------------------------- MODULE TimingProofs ----------------------------
(***************************************************************************)
(* Proofs about the line and the timers of the engine, as long as no       *)
(* timestamp is left to grow so old that it seems to lie ahead again: when *)
(* the line is free, what is sent then, and how much time the polls of a   *)
(* step have taken.                                                        *)
(***************************************************************************)
EXTENDS OperationProofs

(***************************************************************************)
(* Timestamps.                                                             *)
(***************************************************************************)
LEMMA DueStaysDue ==
    ASSUME ~Rollover, NEW t \in Elapsed, Due(t)
    PROVE  Due(Older(t))
BY ClockFacts DEF Older, Due, ClockSize

\* One unit later a timestamp d ahead lies d - 1 ahead, or is due.
LEMMA AheadPasses ==
    ASSUME NEW d \in Nat \ {0}, d < HalfRange
    PROVE  /\ Older(Ahead(d)) = Ahead(d - 1)
           /\ Due(Ahead(0)) /\ ~Due(Ahead(d))
BY ClockFacts DEF Older, Ahead, Due, ClockSize

LEMMA WireFacts ==
    /\ PollWire \in Nat \ {0} /\ SetterWire \in Nat \ {0}
    /\ ResponseTimeout \in Nat \ {0} /\ OperationTimeout \in Nat \ {0}
    /\ MaxPolls \in Nat \ {0}
    /\ PollWire < HalfRange /\ SetterWire < HalfRange
    /\ PollWire + ResponseTimeout < HalfRange
BY ConstantFacts, ClockFacts

(***************************************************************************)
(* When the line is free.                                                  *)
(***************************************************************************)
Free == {"IDLE", "CONTROL_READY", "CONTROL_SETTLE", "WAIT_STATUS"}

\* The line is busy for no longer than a packet takes, and not at all in the
\* phases that follow a drain.
TxInv == DrainAllowance /\ (phase \in Free => TxFree)

LEMMA SendAllowance ==
    ASSUME NEW packet, NEW wire \in {PollWire, SetterWire}, Transmit(packet, wire)
    PROVE  DrainAllowance'
<1>1. txUntil' = Ahead(wire) /\ wire \in Nat \ {0}
  BY WireFacts DEF Transmit
<1> QED
  BY <1>1 DEF DrainAllowance

LEMMA SameLine ==
    ASSUME DrainAllowance, txUntil' = txUntil, txStarted' = txStarted
    PROVE  DrainAllowance' /\ (TxFree => TxFree')
BY DEF DrainAllowance, TxFree

\* A failed poll leaves the line as it found it.
LEMMA PollKeepsTxInv ==
    ASSUME TxInv, TxFree, NEW op, NEW baseline, NEW q, NEW events,
           PollWith(op, baseline, q, events)
    PROVE  TxInv' /\ sent' = <<Query>>
<1>1. CASE Transmit(Query, PollWire) /\ phase' = "POLL_DRAIN"
  <2>1. sent' = <<Query>>
    BY <1>1 DEF Transmit
  <2> QED
    BY <1>1, <2>1, SendAllowance DEF TxInv, Free
<1>2. CASE Refuse(Query)
  <2>1. sent' = <<Query>> /\ txStarted' = txStarted /\ txUntil' = txUntil
    BY <1>2 DEF Refuse, When
  <2> QED
    BY <2>1, SameLine DEF TxInv
<1> QED
  BY <1>1, <1>2 DEF PollWith

\* A failure leads to RECOVERY unless it is that of the recovery poll.
LEMMA FailureRecovers ==
    ASSUME NEW op, NEW result, NEW q, NEW events, Failure(result), ~recovering,
           FinishWith(op, result, q, events)
    PROVE  phase' = "RECOVERY"
BY DEF FinishWith

LEMMA TickKeepsTxInv == ASSUME IInv, TxInv, TickSteps PROVE TxInv'
<1>1. CASE TickExpired \/ TickBlocked
  <2>1. /\ \E result : Failure(result) /\ FinishWith(current, result, Waiting, Lapses)
        /\ txUntil' = txUntil /\ txStarted' = txStarted
    BY <1>1 DEF TickExpired, TickBlocked, Finish, Failure
  <2>2. Active
    BY <1>1 DEF TickExpired, Expired, TickBlocked, TickIn, IInv, Resting
  <2>3. ~recovering
    BY <2>2 DEF IInv, RecoveryIsReadOnly
  <2>4. phase' = "RECOVERY"
    BY <2>1, <2>3, FailureRecovers
  <2> QED
    BY <2>1, <2>4, SameLine DEF TxInv, Free
<1>2. CASE TickTimeout
  <2>1. phase = "WAIT_STATUS" /\ txUntil' = txUntil /\ txStarted' = txStarted
    BY <1>2 DEF TickTimeout, TickIn
  <2> QED
    BY <2>1, SameLine DEF TxInv, Free
<1>3. CASE TickWaits
  BY <1>3, SameLine DEF TickWaits, Quietly, TxInv
<1>4. CASE TickDrained
  <2>1. TxFree /\ txUntil' = txUntil /\ txStarted' = txStarted
    BY <1>4 DEF TickDrained, Quietly, TxFree
  <2> QED
    BY <2>1, SameLine DEF TxInv
<1>5. CASE TickIdlePoll \/ TickSettled \/ TickReread \/ TickRecovery
  <2>1. TxFree /\ \E baseline : PollWith(current, baseline, Waiting, Lapses)
    BY <1>5 DEF TickIdlePoll, TickSettled, TickReread, TickRecovery, TickIn, Poll, TxInv, Free
  <2> QED
    BY <2>1, PollKeepsTxInv
<1>6. CASE TickIdleStart
  <2>1. TxFree /\ PollWith(Head(Waiting), TRUE, Tail(Waiting), Lapses)
    BY <1>6 DEF TickIdleStart
  <2> QED
    BY <2>1, PollKeepsTxInv
<1>7. CASE TickSend
  <2>1. CASE Transmit(steps[step].packet, SetterWire) /\ phase' = "CONTROL_DRAIN"
    BY <2>1, SendAllowance DEF TxInv, Free
  <2>2. CASE Refuse(steps[step].packet)
    <3>1. TxFree /\ txStarted' = txStarted /\ txUntil' = txUntil
      BY <1>7, <2>2 DEF TickSend, Refuse
    <3> QED
      BY <3>1, SameLine DEF TxInv
  <2> QED
    BY <1>7, <2>1, <2>2 DEF TickSend
<1> QED
  BY <1>1, <1>2, <1>3, <1>4, <1>5, <1>6, <1>7 DEF TickSteps

\* An answer that counts, or is late, finds the query off the line.
LEMMA ReceiveKeepsTxInv ==
    ASSUME TxInv, NEW s, Receive(s)
    PROVE  TxInv'
<1>1. txUntil' = txUntil /\ txStarted' = txStarted
  BY DEF Receive, ReceiveIgnored, ReceiveIdle, ReceiveTooLate, ReceiveRuledOut,
         ReceiveBaseline, ReceiveDryLost, ReceiveStale, ReceiveStep, ReceiveDone,
         Answers, Confirming, Unsent
<1>2. Listening => TxFree
  BY DEF Listening, TxInv, Free, TxFree
<1>3. Listening \/ phase' = phase
  BY DEF Receive, ReceiveIgnored, ReceiveIdle, ReceiveTooLate, ReceiveRuledOut,
         ReceiveBaseline, ReceiveDryLost, ReceiveStale, ReceiveStep, ReceiveDone,
         Answers, Confirming, Counts
<1> QED
  BY <1>1, <1>2, <1>3, SameLine DEF TxInv

LEMMA AdvanceKeepsTxInv == ASSUME ~Rollover, IInv, TxInv, Advance PROVE TxInv'
<1>1. /\ txUntil' = Older(txUntil) /\ txStarted' = txStarted /\ phase' = phase
      /\ txUntil \in Elapsed
  BY DEF Advance, IInv, TypeOK, TimersOK
<1>2. TxFree => TxFree'
  BY <1>1, DueStaysDue DEF TxFree
<1>3. ASSUME NEW d \in 1 .. SetterWire \cup 1 .. PollWire, txUntil = Ahead(d)
      PROVE  DrainAllowance'
  <2>1. d \in Nat \ {0} /\ d < HalfRange /\ d - 1 \in {0} \cup 1 .. SetterWire \cup 1 .. PollWire
    BY WireFacts, ClockFacts
  <2>2. txUntil' = Ahead(d - 1) /\ Due(Ahead(0))
    BY <1>1, <1>3, <2>1, AheadPasses
  <2> QED
    BY <2>1, <2>2 DEF DrainAllowance, TxFree
<1> QED
  BY <1>1, <1>2, <1>3 DEF TxInv, DrainAllowance

LEMMA NextKeepsTxInv == ASSUME ~Rollover, IInv, TxInv, [Next]_vars PROVE TxInv'
<1>1. CASE RequestPoll \/ \E r \in Requests : Enqueue(r)
  <2>1. txUntil' = txUntil /\ txStarted' = txStarted /\ phase' = phase
    BY <1>1 DEF RequestPoll, Enqueue, Reject, Admit, Supersede, Untouched, timers
  <2> QED
    BY <2>1, SameLine DEF TxInv
<1>2. CASE UNCHANGED vars
  BY <1>2, SameLine DEF vars, timers, TxInv
<1> QED
  BY <1>1, <1>2, AdvanceKeepsTxInv, TickKeepsTxInv, ReceiveKeepsTxInv DEF Next

LEMMA TxInvariance == ASSUME ~Rollover PROVE Spec => [](IInv /\ TxInv)
<1>1. Init => IInv /\ TxInv
  <2>1. Init => TxInv
    BY DEF Init, TxInv, DrainAllowance, TxFree
  <2> QED
    BY <2>1, InitIInv
<1>2. (IInv /\ TxInv) /\ [Next]_vars => (IInv /\ TxInv)'
  BY NextKeepsIInv, NextKeepsTxInv
<1> QED
  BY <1>1, <1>2, PTL DEF Spec

\* A line that is used often enough is never busy for longer than the packet on
\* it takes; that it must be used is what the rollover of the clock is about.
THEOREM LineIsFreedInTime == ASSUME ~Rollover PROVE Spec => []DrainAllowance
<1>1. IInv /\ TxInv => DrainAllowance
  BY DEF TxInv
<1> QED
  BY <1>1, TxInvariance, PTL

(***************************************************************************)
(* What a tick hands to the UART.                                          *)
(***************************************************************************)
LEMMA TransmitsSend ==
    ASSUME TxInv, TickTransmits
    PROVE  sent' # <<>>
<1>1. \A packet : <<packet>> # <<>>
  OBVIOUS
<1>2. CASE TickIdlePoll \/ TickSettled \/ TickReread \/ TickRecovery
  <2>1. TxFree /\ \E baseline : PollWith(current, baseline, Waiting, Lapses)
    BY <1>2 DEF TickIdlePoll, TickSettled, TickReread, TickRecovery, TickIn, Poll, TxInv, Free
  <2> QED
    BY <1>1, <2>1, PollKeepsTxInv
<1>3. CASE TickIdleStart
  <2>1. TxFree /\ PollWith(Head(Waiting), TRUE, Tail(Waiting), Lapses)
    BY <1>3 DEF TickIdleStart
  <2> QED
    BY <1>1, <2>1, PollKeepsTxInv
<1>4. CASE TickSend
  <2>1. sent' = <<steps[step].packet>>
    BY <1>4 DEF TickSend, Transmit, Refuse, When
  <2> QED
    BY <1>1, <2>1
<1> QED
  BY <1>2, <1>3, <1>4 DEF TickTransmits

RefusalStep ==
    (\E g \in Generation \cup {0} : Reports(g, "WRITE_FAILED")) => sent' # <<>>

LEMMA NextRefuses == ASSUME IInv, TxInv, [Next]_vars PROVE [RefusalStep]_vars
<1> DEFINE R == {"WRITE_FAILED"}
<1>1. Excludes(finished', R) => RefusalStep
  BY DEF Excludes, Reports, RefusalStep
<1>2. CASE TickSteps /\ ~TickTransmits
  <2>1. {"EXPIRED", "CANCELLED", "PREREQUISITE", "TIMEOUT"} \cap R = {}
    OBVIOUS
  <2> HIDE DEF R
  <2> QED
    BY <1>1, <1>2, <2>1, TickExcludes
<1>3. CASE TickTransmits
  BY <1>3, TransmitsSend DEF RefusalStep
<1>4. CASE \E s \in Statuses : Receive(s)
  <2>1. Excludes(finished', {"TIMEOUT", "WRITE_FAILED"})
    BY <1>4, ReceiveExcludes
  <2> QED
    BY <1>1, <2>1 DEF Excludes
<1>5. CASE Advance \/ RequestPoll \/ \E r \in Requests : Enqueue(r)
  <2>1. "SUPERSEDED" \notin R
    OBVIOUS
  <2> HIDE DEF R
  <2> QED
    BY <1>1, <1>5, <2>1, CallExcludes
<1>6. CASE UNCHANGED vars
  BY <1>6
<1> QED
  BY <1>2, <1>3, <1>4, <1>5, <1>6 DEF Next

\* The engine never trips over its own transmission: a poll or a setter fails
\* with WRITE_FAILED only if the UART was offered the packet and refused it.
THEOREM FailureMeansRefusal == ASSUME ~Rollover PROVE Spec => WriteFailedMeansRefused
<1>1. (IInv /\ TxInv) /\ [Next]_vars => [RefusalStep]_vars
  BY NextRefuses
<1>2. Spec => [][RefusalStep]_vars
  BY <1>1, TxInvariance, PTL DEF Spec
<1> QED
  BY <1>2 DEF WriteFailedMeansRefused, RefusalStep

\* A tick that finds an operation waiting and no transaction under way sends
\* its baseline query, or a poll that was asked for before, in that very tick.
THEOREM IdleLineIsUsed == ASSUME ~Rollover PROVE Spec => IdleServes
<1> DEFINE ServingStep == phase = "IDLE" /\ Waiting # <<>> /\ TickSteps => sent' # <<>>
<1>1. ASSUME IInv, TxInv, phase = "IDLE", Waiting # <<>>, TickSteps
      PROVE  sent' # <<>>
  <2>1. ~Active /\ TxFree
    BY <1>1 DEF IInv, SettersSentOnce, Exchange, TxInv, Free
  <2>2. ~TickExpired /\ ~TickWaits
    BY <1>1, <2>1 DEF TickExpired, Expired, TickWaits
  <2>3. ~TickBlocked /\ ~TickDrained /\ ~TickTimeout
    BY <1>1 DEF TickBlocked, TickDrained, TickTimeout, TickIn
  <2> QED
    BY <1>1, <2>2, <2>3, TransmitsSend DEF TickSteps, TickTransmits
<1>2. (IInv /\ TxInv) /\ [Next]_vars => [ServingStep]_vars
  BY <1>1
<1>3. Spec => [][ServingStep]_vars
  BY <1>2, TxInvariance, PTL DEF Spec
<1> QED
  BY <1>3 DEF IdleServes

(***************************************************************************)
(* How much time the polls of a step have taken.                           *)
(***************************************************************************)
PollTime == PollWire + ResponseTimeout

\* The least time from the first of n confirmation polls to the end of the last.
Spent(n) == n * PollTime

\* The confirmation polls that the code allows a step, each with its response
\* timeout, take all of an operation's lifetime (20 x 524 ms of 10 s).
PollsOutlastOperations == Spent(MaxPolls) >= OperationTimeout

LEMMA SpentFacts ==
    /\ PollTime \in Nat \ {0} /\ PollTime < HalfRange
    /\ \A n \in Nat : Spent(n) \in Nat /\ Spent(n + 1) = Spent(n) + PollTime
    /\ Spent(0) = 0
    /\ \A n \in Nat : n >= MaxPolls => Spent(n) >= Spent(MaxPolls)
<1>1. PollTime \in Nat \ {0} /\ PollTime < HalfRange /\ MaxPolls \in Nat
  BY WireFacts, ClockFacts DEF PollTime
<1> HIDE DEF PollTime
<1>2. \A k, n \in Nat : /\ n * k \in Nat /\ (n + 1) * k = n * k + k /\ 0 * k = 0
  OBVIOUS
<1>3. \A k, n, m \in Nat : n >= m => n * k >= m * k
  OBVIOUS
<1> QED
  BY <1>1, <1>2, <1>3 DEF Spent

Unsettled == {"CONTROL_READY", "CONTROL_DRAIN", "CONTROL_SETTLE"}
Awaiting  == {"POLL_DRAIN", "WAIT_STATUS"}

\* The response timeout ends in r units of time, or has ended.
EndsIn(r) == IF r = 0 THEN Due(deadline) ELSE deadline = Ahead(r)

\* A status that came in while the engine is still waiting did not confirm a
\* step, or came to an operation whose lifetime is over.
SeenInv ==
    /\ phase = "POLL_DRAIN" => ~responseSeen
    /\ phase = "WAIT_STATUS" /\ responseSeen => Active /\ (baselinePoll => Old(current))

\* When the response timeout of the last of n polls ends, the operation is at
\* least as old as n polls take.
PollsInv ==
    /\ Active /\ phase \in Unsettled => confirmationPolls = 0
    /\ Active /\ ~baselinePoll /\ phase \in Awaiting
          => \E r \in 0 .. PollTime :
                EndsIn(r) /\ current.age + r >= Spent(confirmationPolls)

WaitInv == SeenInv /\ PollsInv

LEMMA RestKeepsWaitInv ==
    ASSUME current' = NoOperation, phase' \in {"IDLE", "RECOVERY"}
    PROVE  WaitInv'
BY DEF WaitInv, SeenInv, PollsInv, Active

LEMMA FinishKeepsWaitInv ==
    ASSUME NEW op, NEW result, NEW q, NEW events, FinishWith(op, result, q, events)
    PROVE  WaitInv'
<1>1. current' = NoOperation /\ phase' \in {"IDLE", "RECOVERY"}
  BY DEF FinishWith
<1> QED
  BY <1>1, RestKeepsWaitInv

LEMMA SameKeepsWaitInv ==
    ASSUME WaitInv,
           UNCHANGED <<current, responseSeen, baselinePoll, confirmationPolls, deadline,
                       phase>>
    PROVE  WaitInv'
<1>1. Active' = Active /\ \A r : EndsIn(r)' = EndsIn(r)
  BY DEF Active, EndsIn
<1> QED
  BY <1>1 DEF WaitInv, SeenInv, PollsInv

LEMMA PollKeepsWaitInv ==
    ASSUME IInv, NEW op \in Operation \cup {NoOperation}, NEW baseline, NEW q, NEW events,
           PollWith(op, baseline, q, events),
           op # NoOperation /\ ~baseline => op.age >= Spent(confirmationPolls)
    PROVE  WaitInv'
<1>1. CASE \E r \in Result : FinishWith(op, r, q, events)
  BY <1>1, FinishKeepsWaitInv
<1>2. CASE /\ Transmit(Query, PollWire) /\ current' = op
           /\ deadline' = Later(txUntil', ResponseTimeout)
           /\ phase' = "POLL_DRAIN"
  <2>1. /\ responseSeen' = FALSE /\ baselinePoll' = baseline
        /\ confirmationPolls' =
              confirmationPolls + (IF op # NoOperation /\ ~baseline THEN 1 ELSE 0)
    BY DEF PollWith
  <2>2. SeenInv'
    BY <1>2, <2>1 DEF SeenInv
  <2>3. txUntil' = Ahead(PollWire)
    BY <1>2 DEF Transmit
  <2>4. deadline' = Ahead(PollTime)
    BY <1>2, <2>3, WireFacts, LaterAhead DEF PollTime
  <2>5. ASSUME op # NoOperation, ~baseline
        PROVE  EndsIn(PollTime)' /\ op.age + PollTime >= Spent(confirmationPolls')
    <3>1. EndsIn(PollTime)'
      BY <2>4, SpentFacts DEF EndsIn
    <3>2. confirmationPolls \in Nat /\ confirmationPolls' = confirmationPolls + 1
      BY <2>1, <2>5 DEF IInv, TypeOK, PollingOK
    <3>3. op.age \in Nat
      BY <2>5, ClockFacts DEF Operation
    <3>4. Spent(confirmationPolls') = Spent(confirmationPolls) + PollTime
          /\ Spent(confirmationPolls) \in Nat /\ PollTime \in Nat
      BY <3>2, SpentFacts
    <3> QED
      BY <2>5, <3>1, <3>3, <3>4
  <2>6. PollTime \in 0 .. PollTime
    BY SpentFacts
  <2>7. PollsInv'
    BY <1>2, <2>1, <2>5, <2>6 DEF PollsInv, Active, Unsettled
  <2> QED
    BY <2>2, <2>7 DEF WaitInv
<1> QED
  BY <1>1, <1>2 DEF PollWith, Result

LEMMA AdvanceKeepsWaitInv ==
    ASSUME ~Rollover, IInv, LInv, WaitInv, Advance
    PROVE  WaitInv'
<1>1. /\ deadline' = Older(deadline) /\ deadline \in Elapsed
      /\ lag \in Nat /\ lag < MaxLag
      /\ current' = IF Active THEN Aged(current) ELSE current
      /\ UNCHANGED <<responseSeen, baselinePoll, confirmationPolls, phase>>
      /\ confirmationPolls \in Nat
  BY QueueFacts DEF Advance, polling, IInv, TypeOK, TimersOK, PollingOK
<1>2. Active' = Active
  BY <1>1, QueueFacts, AgedType, EnvironmentFacts DEF Active
<1>3. ASSUME Active PROVE current.age \in Nat /\ current'.age = current.age + 1
  <2>1. current \in Operation /\ current.age \in Nat /\ current' = Aged(current)
    BY <1>1, <1>3, QueueFacts
  <2>2. current.age < OperationTimeout + lag
    BY <1>3 DEF LInv, BoundedLifetime
  <2>3. current'.age = Older(current.age)
    BY <2>1, AgedType
  <2> QED
    BY <1>1, <2>1, <2>2, <2>3, AgesByOne
<1>4. SeenInv'
  <2>1. Active /\ Old(current) => Old(current)'
    BY <1>3, ConstantFacts DEF Old
  <2> QED
    BY <1>1, <1>2, <2>1 DEF WaitInv, SeenInv
<1>5. PollsInv'
  <2>1. Active /\ phase \in Unsettled => confirmationPolls = 0
    BY DEF WaitInv, PollsInv
  <2>2. ASSUME Active, ~baselinePoll, phase \in Awaiting
        PROVE  \E r \in 0 .. PollTime :
                  EndsIn(r)' /\ current'.age + r >= Spent(confirmationPolls)
    <3>1. PICK r \in 0 .. PollTime :
             EndsIn(r) /\ current.age + r >= Spent(confirmationPolls)
      BY <2>2 DEF WaitInv, PollsInv
    <3>2. Spent(confirmationPolls) \in Nat /\ PollTime \in Nat /\ PollTime < HalfRange
      BY <1>1, SpentFacts
    <3>3. CASE r = 0
      <4>1. Due(deadline')
        BY <1>1, <3>1, <3>3, DueStaysDue DEF EndsIn
      <4>2. EndsIn(0)' /\ current'.age + 0 >= Spent(confirmationPolls)
        BY <1>3, <2>2, <3>1, <3>2, <3>3, <4>1 DEF EndsIn
      <4> QED
        BY <3>2, <4>2
    <3>4. CASE r # 0
      <4>1. r \in Nat \ {0} /\ r < HalfRange /\ r - 1 \in 0 .. PollTime
        BY <3>2, <3>4, ClockFacts
      <4>2. deadline' = Ahead(r - 1) /\ Due(Ahead(0))
        BY <1>1, <3>1, <3>4, <4>1, AheadPasses DEF EndsIn
      <4>3. EndsIn(r - 1)'
        BY <4>2 DEF EndsIn
      <4>4. current'.age + (r - 1) >= Spent(confirmationPolls)
        BY <1>3, <2>2, <3>1, <3>2, <4>1
      <4> QED
        BY <4>1, <4>3, <4>4
    <3> QED
      BY <3>3, <3>4
  <2> QED
    BY <1>1, <1>2, <2>1, <2>2 DEF PollsInv
<1> QED
  BY <1>4, <1>5 DEF WaitInv

\* A query goes out again only when the timeout of the one before has ended.
LEMMA TimeoutSpent ==
    ASSUME IInv, WaitInv, Active, ~baselinePoll, phase \in Awaiting, Due(deadline)
    PROVE  current.age >= Spent(confirmationPolls)
<1>1. PICK r \in 0 .. PollTime :
         EndsIn(r) /\ current.age + r >= Spent(confirmationPolls)
  BY DEF WaitInv, PollsInv
<1>2. /\ PollTime \in Nat /\ PollTime < HalfRange
      /\ confirmationPolls \in Nat /\ Spent(confirmationPolls) \in Nat
      /\ current.age \in Nat
  BY SpentFacts, QueueFacts DEF IInv, TypeOK, PollingOK
<1>3. r = 0
  <2> SUFFICES ASSUME r # 0 PROVE FALSE
    OBVIOUS
  <2>1. r \in Nat \ {0} /\ r < HalfRange /\ deadline = Ahead(r)
    BY <1>1, <1>2, ClockFacts DEF EndsIn
  <2> QED
    BY <2>1, AheadPasses
<1> QED
  BY <1>1, <1>2, <1>3

LEMMA TickKeepsWaitInv == ASSUME IInv, WaitInv, TickSteps PROVE WaitInv'
<1>1. current \in Operation \cup {NoOperation}
  BY QueueFacts
<1>2. CASE TickExpired \/ TickBlocked \/ TickTimeout
  <2>1. \E result : FinishWith(current, result, Waiting, Lapses)
    BY <1>2 DEF TickExpired, TickBlocked, TickTimeout, Finish
  <2> QED
    BY <2>1, FinishKeepsWaitInv
<1>3. CASE TickWaits
  BY <1>3, SameKeepsWaitInv DEF TickWaits, Quietly, polling
<1>4. CASE TickDrained
  <2>1. /\ UNCHANGED <<current, responseSeen, baselinePoll, confirmationPolls, deadline>>
        /\ \/ phase = "CONTROL_DRAIN" /\ phase' = "CONTROL_SETTLE"
           \/ phase = "POLL_DRAIN" /\ phase' = "WAIT_STATUS"
    BY <1>4 DEF TickDrained, TickIn, Quietly, polling
  <2>2. Active' = Active /\ \A r : EndsIn(r)' = EndsIn(r)
    BY <2>1 DEF Active, EndsIn
  <2> QED
    BY <2>1, <2>2 DEF WaitInv, SeenInv, PollsInv, Unsettled, Awaiting
<1>5. CASE TickIdlePoll \/ TickRecovery
  <2>1. PollWith(current, FALSE, Waiting, Lapses) /\ current = NoOperation
    BY <1>5 DEF TickIdlePoll, TickRecovery, TickIn, Poll, IInv, SettersSentOnce, Active,
                Exchange
  <2> QED
    BY <1>1, <2>1, PollKeepsWaitInv
<1>6. CASE TickIdleStart
  <2>1. Waiting # <<>> /\ PollWith(Head(Waiting), TRUE, Tail(Waiting), Lapses)
    BY <1>6 DEF TickIdleStart
  <2>2. Head(Waiting) \in Operation
    BY <2>1, WaitingFacts, HeadTailProperties
  <2> QED
    BY <2>1, <2>2, PollKeepsWaitInv
<1>7. CASE TickSend
  <2>1. CASE Finish("WRITE_FAILED", Waiting, Lapses)
    BY <2>1, FinishKeepsWaitInv DEF Finish
  <2>2. CASE current' = current /\ phase' = "CONTROL_DRAIN"
    <3>1. Active' = Active /\ phase = "CONTROL_READY" /\ confirmationPolls' = confirmationPolls
      BY <1>7, <2>2 DEF Active, TickSend, TickIn
    <3> QED
      BY <2>2, <3>1 DEF WaitInv, SeenInv, PollsInv, Unsettled, Awaiting
  <2> QED
    BY <1>7, <2>1, <2>2 DEF TickSend
<1>8. CASE TickSettled
  <2>1. PollWith(current, FALSE, Waiting, Lapses) /\ phase = "CONTROL_SETTLE"
    BY <1>8 DEF TickSettled, TickIn, Poll
  <2>2. Active => confirmationPolls = 0 /\ current.age \in Nat
    BY <2>1, QueueFacts DEF WaitInv, PollsInv, Unsettled
  <2>3. current # NoOperation => current.age >= Spent(confirmationPolls)
    BY <2>2, SpentFacts DEF Active
  <2> QED
    BY <1>1, <2>1, <2>3, PollKeepsWaitInv
<1>9. CASE TickReread
  <2>1. /\ PollWith(current, baselinePoll, Waiting, Lapses)
        /\ phase \in Awaiting /\ Due(deadline) /\ Active /\ ~baselinePoll
    BY <1>9 DEF TickReread, TickIn, Poll, Awaiting, RereadAllowed
  <2>2. current.age >= Spent(confirmationPolls)
    BY <2>1, TimeoutSpent
  <2> QED
    BY <1>1, <2>1, <2>2, PollKeepsWaitInv
<1> QED
  BY <1>2, <1>3, <1>4, <1>5, <1>6, <1>7, <1>8, <1>9 DEF TickSteps

LEMMA ReceiveKeepsWaitInv ==
    ASSUME IInv, WaitInv, NEW s, Receive(s)
    PROVE  WaitInv'
<1>1. CASE \/ ReceiveIdle(s) \/ ReceiveRuledOut(s) \/ ReceiveDryLost(s) \/ ReceiveDone(s)
  <2>1. \E result : FinishWith(current, result, queue, <<>>)
    BY <1>1 DEF ReceiveIdle, ReceiveRuledOut, ReceiveDryLost, ReceiveDone, Finish
  <2> QED
    BY <2>1, FinishKeepsWaitInv
<1>2. CASE ReceiveBaseline(s) \/ ReceiveStep(s)
  <2>1. \/ \E result : FinishWith(current, result, queue, <<>>)
        \/ phase' = "CONTROL_READY" /\ confirmationPolls' = 0
    BY <1>2 DEF ReceiveBaseline, ReceiveStep, Finish
  <2> QED
    BY <2>1, FinishKeepsWaitInv DEF WaitInv, SeenInv, PollsInv, Awaiting
<1>3. CASE ReceiveIgnored(s) \/ ReceiveTooLate(s) \/ ReceiveStale(s)
  <2>1. UNCHANGED <<current, baselinePoll, confirmationPolls, deadline>>
    BY <1>3 DEF ReceiveIgnored, ReceiveTooLate, ReceiveStale, Confirming, Answers, Unsent
  <2>2. Active' = Active /\ \A r : EndsIn(r)' = EndsIn(r)
    BY <2>1 DEF Active, EndsIn
  <2>3. /\ phase' = phase \/ (phase = "POLL_DRAIN" /\ phase' = "WAIT_STATUS")
        /\ \/ responseSeen' = responseSeen
           \/ Active /\ (baselinePoll => Old(current)) /\ phase' = "WAIT_STATUS"
    BY <1>3 DEF ReceiveIgnored, ReceiveTooLate, ReceiveStale, Confirming, Answers, Counts,
                Listening
  <2>4. SeenInv'
    BY <2>1, <2>2, <2>3 DEF WaitInv, SeenInv, Old
  <2>5. PollsInv'
    BY <2>1, <2>2, <2>3 DEF WaitInv, PollsInv, Unsettled, Awaiting
  <2> QED
    BY <2>4, <2>5 DEF WaitInv
<1> QED
  BY <1>1, <1>2, <1>3 DEF Receive

LEMMA NextKeepsWaitInv ==
    ASSUME ~Rollover, IInv, LInv, WaitInv, [Next]_vars
    PROVE  WaitInv'
<1>1. CASE RequestPoll \/ \E r \in Requests : Enqueue(r)
  <2>1. UNCHANGED <<current, responseSeen, baselinePoll, confirmationPolls, deadline, phase>>
    BY <1>1 DEF RequestPoll, Enqueue, Reject, Admit, Supersede, Untouched, polling, timers
  <2> QED
    BY <2>1, SameKeepsWaitInv
<1>2. CASE UNCHANGED vars
  BY <1>2, SameKeepsWaitInv DEF vars, polling, timers
<1> QED
  BY <1>1, <1>2, AdvanceKeepsWaitInv, TickKeepsWaitInv, ReceiveKeepsWaitInv DEF Next

SilenceStep ==
    (\E g \in Generation \cup {0} : Reports(g, "TIMEOUT")) => ~responseSeen

\* By the time a step may not be polled for again its operation has expired.
LEMMA TimeoutIsSilent ==
    ASSUME PollsOutlastOperations, IInv, WaitInv, TickTimeout
    PROVE  ~responseSeen
<1> SUFFICES ASSUME responseSeen PROVE FALSE
  OBVIOUS
<1>1. phase = "WAIT_STATUS" /\ Due(deadline) /\ ~RereadAllowed /\ ~Expired
  BY DEF TickTimeout, TickIn
<1>2. Active /\ ~baselinePoll
  BY <1>1 DEF WaitInv, SeenInv, Expired
<1>3. ~(confirmationPolls < MaxPolls)
  BY <1>1, <1>2 DEF RereadAllowed
<1>4. current.age >= Spent(confirmationPolls)
  BY <1>1, <1>2, TimeoutSpent DEF Awaiting
<1>5. /\ confirmationPolls \in Nat /\ MaxPolls \in Nat /\ current.age \in Nat
      /\ OperationTimeout \in Nat
  BY <1>2, QueueFacts, WireFacts DEF IInv, TypeOK, PollingOK
<1>6. /\ Spent(confirmationPolls) \in Nat /\ Spent(MaxPolls) \in Nat
      /\ Spent(confirmationPolls) >= Spent(MaxPolls)
  BY <1>3, <1>5, SpentFacts
<1>7. current.age >= OperationTimeout
  BY <1>4, <1>5, <1>6 DEF PollsOutlastOperations
<1> QED
  BY <1>1, <1>2, <1>7 DEF Expired, Old

LEMMA NextSilent ==
    ASSUME PollsOutlastOperations, IInv, WaitInv, [Next]_vars
    PROVE  [SilenceStep]_vars
<1> DEFINE R == {"TIMEOUT"}
<1>1. Excludes(finished', R) => SilenceStep
  BY DEF Excludes, Reports, SilenceStep
<1>2. CASE TickSteps /\ ~TickTimeout
  <2>1. {"EXPIRED", "CANCELLED", "PREREQUISITE", "WRITE_FAILED"} \cap R = {}
    OBVIOUS
  <2> HIDE DEF R
  <2> QED
    BY <1>1, <1>2, <2>1, TickExcludes
<1>3. CASE TickTimeout
  BY <1>3, TimeoutIsSilent DEF SilenceStep
<1>4. CASE \E s \in Statuses : Receive(s)
  <2>1. Excludes(finished', {"TIMEOUT", "WRITE_FAILED"})
    BY <1>4, ReceiveExcludes
  <2> QED
    BY <1>1, <2>1 DEF Excludes
<1>5. CASE Advance \/ RequestPoll \/ \E r \in Requests : Enqueue(r)
  <2>1. "SUPERSEDED" \notin R
    OBVIOUS
  <2> HIDE DEF R
  <2> QED
    BY <1>1, <1>5, <2>1, CallExcludes
<1>6. CASE UNCHANGED vars
  BY <1>6
<1> QED
  BY <1>2, <1>3, <1>4, <1>5, <1>6 DEF Next

\* A TIMEOUT is reported only when no status came in since the last query: if
\* the polls of a step outlast an operation, a unit that keeps answering with
\* stale statuses ends its operation by its lifetime, never by their number.
THEOREM TimeoutIsSilence ==
    ASSUME ~Rollover, PollsOutlastOperations
    PROVE  Spec => TimeoutMeansSilence
<1>1. Init => WaitInv
  BY DEF Init, WaitInv, SeenInv, PollsInv, Active
<1>2. (IInv /\ LInv /\ WaitInv) /\ [Next]_vars => WaitInv'
  BY NextKeepsWaitInv
<1>3. (IInv /\ WaitInv) /\ [Next]_vars => [SilenceStep]_vars
  BY NextSilent
<1>4. Spec => [][SilenceStep]_vars
  BY <1>1, <1>2, <1>3, Invariance, LifetimeInvariance, PTL DEF Spec
<1> QED
  BY <1>4 DEF TimeoutMeansSilence, SilenceStep
=============================================================================
