-------------------------- MODULE OperationProofs --------------------------
(***************************************************************************)
(* Proofs about what becomes of an operation, for every value of the       *)
(* constants: its lifetime and its turn, that it has exactly one outcome,  *)
(* and that the engine implements the abstract service.                    *)
(***************************************************************************)
EXTENDS TransportProofs

(***************************************************************************)
(* Lifetime and order go together: tick drops the operations that are too  *)
(* old from the front of the queue, so that what is left is young only     *)
(* because the queue is in the order of acceptance.                        *)
(***************************************************************************)
LInv == BoundedLifetime /\ AcceptanceOrder

LEMMA QueueFacts ==
    ASSUME IInv
    PROVE  /\ queue \in Seq(Operation)
           /\ Len(queue) \in Nat /\ DOMAIN queue = 1 .. Len(queue)
           /\ \A i \in DOMAIN queue : queue[i] \in Operation /\ queue[i].age \in Nat
           /\ current \in Operation \cup {NoOperation}
           /\ Active => current \in Operation /\ current.age \in Nat
           /\ lag \in Nat /\ lag <= MaxLag
<1>1. queue \in Seq(Operation) /\ current \in Operation \cup {NoOperation}
  BY DEF IInv, TypeOK, OperationsOK
<1>2. Len(queue) \in Nat /\ DOMAIN queue = 1 .. Len(queue)
  BY <1>1, LenProperties
<1>3. \A op \in Operation : op.age \in Nat
  BY ClockFacts DEF Operation
<1>4. \A i \in DOMAIN queue : queue[i] \in Operation
  BY <1>1, <1>2, ElementOfSeq
<1>5. lag \in Nat /\ lag <= MaxLag
  BY ConstantFacts DEF IInv, TypeOK
<1> QED
  BY <1>1, <1>2, <1>3, <1>4, <1>5 DEF Active

\* What has lapsed is a prefix of the queue.
LEMMA LapsedIsAPrefix ==
    ASSUME IInv, AcceptanceOrder
    PROVE  \A i \in DOMAIN queue : i \in Lapsed <=> i <= Cardinality(Lapsed)
<1>1. /\ Len(queue) \in Nat /\ DOMAIN queue = 1 .. Len(queue)
      /\ \A i \in DOMAIN queue : queue[i].age \in Nat
  BY QueueFacts
<1>2. Lapsed \subseteq 1 .. Len(queue)
  BY <1>1 DEF Lapsed
<1>3. IsFiniteSet(Lapsed) /\ Cardinality(Lapsed) \in Nat
  <2>1. IsFiniteSet(1 .. Len(queue))
    BY <1>1, FS_Interval
  <2> QED
    BY <1>2, <2>1, FS_Subset, FS_CardinalityType
<1>4. ASSUME NEW i \in Lapsed PROVE i <= Cardinality(Lapsed)
  <2>1. i \in 1 .. Len(queue) /\ i \in Nat
    BY <1>2
  <2>2. 1 .. i \subseteq Lapsed
    <3> SUFFICES ASSUME NEW j \in 1 .. i PROVE j \in Lapsed
      OBVIOUS
    <3>1. j \in DOMAIN queue /\ i \in DOMAIN queue /\ (j < i \/ j = i)
      BY <1>1, <2>1
    <3>2. queue[j].age >= queue[i].age
      BY <1>1, <3>1 DEF AcceptanceOrder
    <3>3. queue[i].age >= OperationTimeout
      BY DEF Lapsed, Old
    <3>4. queue[j].age >= OperationTimeout
      BY <1>1, <3>1, <3>2, <3>3, ConstantFacts
    <3> QED
      BY <3>1, <3>4 DEF Lapsed, Old
  <2>3. Cardinality(1 .. i) <= Cardinality(Lapsed)
    BY <1>3, <2>2, FS_Subset
  <2>4. Cardinality(1 .. i) = i
    BY <2>1, FS_Interval
  <2> QED
    BY <2>3, <2>4
<1>5. ASSUME NEW i \in DOMAIN queue, i \notin Lapsed PROVE ~(i <= Cardinality(Lapsed))
  <2>1. i \in 1 .. Len(queue) /\ i \in Nat /\ i - 1 \in Nat
    BY <1>1
  <2>2. Lapsed \subseteq 1 .. (i - 1)
    <3> SUFFICES ASSUME NEW j \in Lapsed PROVE j <= i - 1
      BY <1>2, <2>1
    <3>1. j \in 1 .. Len(queue)
      BY <1>2
    <3>2. queue[j].age >= OperationTimeout /\ ~(queue[i].age >= OperationTimeout)
      BY <1>5 DEF Lapsed, Old
    <3>3. i < j => queue[i].age >= queue[j].age
      BY <1>1, <2>1, <3>1 DEF AcceptanceOrder
    <3>4. ~(i < j)
      <4>1. queue[i].age \in Nat /\ queue[j].age \in Nat
        BY <1>1, <3>1
      <4> QED
        BY <3>2, <3>3, <4>1, ConstantFacts
    <3>5. i # j
      BY <3>2
    <3> QED
      BY <2>1, <3>1, <3>4, <3>5
  <2>3. IsFiniteSet(1 .. (i - 1)) /\ Cardinality(1 .. (i - 1)) = i - 1
    <3>1. 1 \in Int /\ i - 1 \in Int
      BY <2>1
    <3>2. /\ IsFiniteSet(1 .. (i - 1))
          /\ Cardinality(1 .. (i - 1)) = IF 1 > i - 1 THEN 0 ELSE (i - 1) - 1 + 1
      BY <3>1, FS_Interval
    <3> QED
      BY <2>1, <3>2
  <2>4. Cardinality(Lapsed) <= i - 1
    BY <2>2, <2>3, FS_Subset
  <2> QED
    BY <1>3, <2>1, <2>4
<1> QED
  BY <1>4, <1>5

\* What tick leaves of the queue is young, and still in order.
LEMMA WaitingIsYoung ==
    ASSUME IInv, LInv
    PROVE  /\ Waiting \in Seq(Operation) /\ Len(Waiting) \in Nat
           /\ DOMAIN Waiting = 1 .. Len(Waiting)
           /\ \A i \in DOMAIN Waiting :
                 /\ Waiting[i].age \in Nat /\ Waiting[i].age < OperationTimeout
                 /\ Active => current.age >= Waiting[i].age
           /\ \A i, j \in DOMAIN Waiting : i < j => Waiting[i].age >= Waiting[j].age
<1> DEFINE k == Cardinality(Lapsed)
<1>1. /\ queue \in Seq(Operation) /\ Len(queue) \in Nat
      /\ DOMAIN queue = 1 .. Len(queue)
      /\ \A i \in DOMAIN queue : queue[i].age \in Nat
  BY QueueFacts
<1>2. /\ k \in 0 .. Len(queue)
      /\ Waiting \in Seq(Operation)
      /\ Len(Waiting) = Len(queue) - k
      /\ \A i \in 1 .. Len(Waiting) : Waiting[i] = queue[i + k]
  BY <1>1, ExpirySplits
<1>3. Len(Waiting) \in Nat /\ DOMAIN Waiting = 1 .. Len(Waiting)
  BY <1>2, LenProperties
<1>4. \A i \in DOMAIN queue : i \in Lapsed <=> i <= k
  BY LapsedIsAPrefix DEF LInv
<1> HIDE DEF k
<1>5. ASSUME NEW i \in DOMAIN Waiting
      PROVE  i + k \in DOMAIN queue /\ i + k \notin Lapsed /\ Waiting[i] = queue[i + k]
  <2>1. i \in 1 .. Len(Waiting)
    BY <1>3
  <2>2. i + k \in 1 .. Len(queue) /\ ~(i + k <= k)
    BY <1>1, <1>2, <2>1
  <2> QED
    BY <1>1, <1>2, <1>4, <2>1, <2>2
<1>6. ASSUME NEW i \in DOMAIN Waiting
      PROVE  /\ Waiting[i].age \in Nat /\ Waiting[i].age < OperationTimeout
             /\ Active => current.age >= Waiting[i].age
  <2>1. i + k \in DOMAIN queue /\ i + k \notin Lapsed /\ Waiting[i] = queue[i + k]
    BY <1>5
  <2>2. ~(queue[i + k].age >= OperationTimeout) /\ queue[i + k].age \in Nat
    BY <1>1, <2>1 DEF Lapsed, Old
  <2>3. Active => current.age >= queue[i + k].age
    BY <2>1 DEF LInv, AcceptanceOrder
  <2> QED
    BY <2>1, <2>2, <2>3, ConstantFacts
<1>7. ASSUME NEW i \in DOMAIN Waiting, NEW j \in DOMAIN Waiting, i < j
      PROVE  Waiting[i].age >= Waiting[j].age
  <2>1. /\ i + k \in DOMAIN queue /\ Waiting[i] = queue[i + k]
        /\ j + k \in DOMAIN queue /\ Waiting[j] = queue[j + k]
    BY <1>5
  <2>2. i + k < j + k
    BY <1>2, <1>3, <1>7
  <2> QED
    BY <2>1, <2>2 DEF LInv, AcceptanceOrder
<1> QED
  BY <1>2, <1>3, <1>6, <1>7

(***************************************************************************)
(* What a step does to the queue and to the active operation.              *)
(***************************************************************************)
LEMMA FinishServes ==
    ASSUME NEW op, NEW result, NEW q, NEW events, FinishWith(op, result, q, events)
    PROVE  /\ current' = NoOperation /\ queue' \in {q, <<>>}
           /\ Failure(result) => queue' = <<>>
BY DEF FinishWith

LEMMA PollServes ==
    ASSUME NEW op, NEW baseline, NEW q, NEW events, PollWith(op, baseline, q, events)
    PROVE  \/ current' = NoOperation /\ queue' = <<>>
           \/ current' = op /\ queue' = q
<1>1. CASE FinishWith(op, "WRITE_FAILED", q, events)
  <2>1. Failure("WRITE_FAILED")
    BY DEF Failure
  <2> QED
    BY <1>1, <2>1, FinishServes
<1>2. CASE current' = op /\ queue' = q
  BY <1>2
<1> QED
  BY <1>1, <1>2 DEF PollWith

LEMMA TickServes ==
    ASSUME TickSteps
    PROVE  /\ lag' = 0
           /\ \/ current' = NoOperation /\ queue' = <<>>
              \/ current' = current /\ queue' = Waiting /\ ~Expired
              \/ /\ phase = "IDLE" /\ Waiting # <<>>
                 /\ current' = Head(Waiting) /\ queue' = Tail(Waiting)
<1>1. CASE TickExpired \/ TickBlocked \/ TickTimeout
  <2>1. /\ lag' = 0
        /\ \E result \in Result : /\ Failure(result)
                                  /\ FinishWith(current, result, Waiting, Lapses)
    BY <1>1 DEF TickExpired, TickBlocked, TickTimeout, TickIn, Tick, Finish, Result, Failure
  <2> QED
    BY <2>1, FinishServes
<1>2. CASE TickWaits \/ TickDrained
  BY <1>2 DEF TickWaits, TickDrained, TickIn, Tick, Quietly
<1>3. CASE TickIdlePoll \/ TickSettled \/ TickReread \/ TickRecovery
  <2>1. /\ lag' = 0 /\ ~Expired
        /\ \E baseline : PollWith(current, baseline, Waiting, Lapses)
    BY <1>3 DEF TickIdlePoll, TickSettled, TickReread, TickRecovery, TickIn, Tick, Poll
  <2> QED
    BY <2>1, PollServes
<1>4. CASE TickIdleStart
  <2>1. /\ lag' = 0 /\ phase = "IDLE" /\ Waiting # <<>>
        /\ PollWith(Head(Waiting), TRUE, Tail(Waiting), Lapses)
    BY <1>4 DEF TickIdleStart, TickIn, Tick
  <2> QED
    BY <2>1, PollServes
<1>5. CASE TickSend
  <2>1. lag' = 0 /\ ~Expired
    BY <1>5 DEF TickSend, TickIn, Tick
  <2>2. \/ current' = current /\ queue' = Waiting
        \/ FinishWith(current, "WRITE_FAILED", Waiting, Lapses)
    BY <1>5 DEF TickSend, Finish
  <2>3. Failure("WRITE_FAILED")
    BY DEF Failure
  <2> QED
    BY <2>1, <2>2, <2>3, FinishServes
<1> QED
  BY <1>1, <1>2, <1>3, <1>4, <1>5 DEF TickSteps

LEMMA ReceiveServes ==
    ASSUME NEW s, Receive(s)
    PROVE  /\ lag' = lag
           /\ \/ current' = current /\ queue' = queue
              \/ current' = NoOperation /\ queue' \in {queue, <<>>}
<1>1. lag' = lag
  BY DEF Receive, ReceiveIgnored, ReceiveIdle, ReceiveTooLate, ReceiveRuledOut,
         ReceiveBaseline, ReceiveDryLost, ReceiveStale, ReceiveStep, ReceiveDone,
         Answers, Confirming, Unsent
<1>2. CASE \E result : Finish(result, queue, <<>>)
  BY <1>1, <1>2, FinishServes DEF Finish
<1>3. CASE current' = current /\ queue' = queue
  BY <1>1, <1>3
<1>4. (\E result : Finish(result, queue, <<>>)) \/ (current' = current /\ queue' = queue)
  <2>1. CASE ReceiveIgnored(s) \/ ReceiveTooLate(s) \/ ReceiveStale(s) \/ ReceiveStep(s)
    BY <2>1 DEF ReceiveIgnored, ReceiveTooLate, ReceiveStale, ReceiveStep
  <2>2. CASE ReceiveIdle(s) \/ ReceiveRuledOut(s) \/ ReceiveDryLost(s) \/ ReceiveDone(s)
    BY <2>2 DEF ReceiveIdle, ReceiveRuledOut, ReceiveDryLost, ReceiveDone
  <2>3. CASE ReceiveBaseline(s)
    BY <2>3 DEF ReceiveBaseline
  <2> QED
    BY <2>1, <2>2, <2>3 DEF Receive
<1> QED
  BY <1>2, <1>3, <1>4

(***************************************************************************)
(* One lemma per group of actions.                                         *)
(***************************************************************************)
LEMMA InitLInv == Init => LInv
BY DEF Init, LInv, BoundedLifetime, AcceptanceOrder, Active

\* No operation is so old that its age has stopped.
LEMMA AgesByOne ==
    ASSUME NEW age \in Nat, age < OperationTimeout + lag, lag \in Nat, lag < MaxLag
    PROVE  Older(age) = age + 1
BY ConstantFacts, ClockFacts DEF Older, ClockSize

LEMMA AdvanceKeepsLInv == ASSUME IInv, LInv, Advance PROVE LInv'
<1>1. /\ lag \in Nat /\ lag < MaxLag /\ lag' = lag + 1
      /\ current' = IF Active THEN Aged(current) ELSE current
      /\ DOMAIN queue' = DOMAIN queue
      /\ \A i \in DOMAIN queue : queue'[i] = Aged(queue[i])
  BY QueueFacts DEF Advance
<1>2. \A i \in DOMAIN queue :
          /\ queue[i].age \in Nat /\ queue[i].age < OperationTimeout + lag
          /\ queue'[i].age = queue[i].age + 1
  <2> SUFFICES ASSUME NEW i \in DOMAIN queue
               PROVE  /\ queue[i].age \in Nat /\ queue[i].age < OperationTimeout + lag
                      /\ queue'[i].age = queue[i].age + 1
    OBVIOUS
  <2>1. queue[i] \in Operation /\ queue[i].age \in Nat
    BY QueueFacts
  <2>2. queue[i].age < OperationTimeout + lag
    BY DEF LInv, BoundedLifetime
  <2>3. queue'[i].age = Older(queue[i].age)
    BY <1>1, <2>1, AgedType
  <2> QED
    BY <1>1, <2>1, <2>2, <2>3, AgesByOne
<1>3. Active' = Active
  BY <1>1, QueueFacts, AgedType, EnvironmentFacts DEF Active
<1>4. Active => /\ current.age \in Nat /\ current.age < OperationTimeout + lag
                /\ current'.age = current.age + 1
  <2> SUFFICES ASSUME Active
               PROVE  /\ current.age \in Nat /\ current.age < OperationTimeout + lag
                      /\ current'.age = current.age + 1
    OBVIOUS
  <2>1. current \in Operation /\ current.age \in Nat
    BY QueueFacts
  <2>2. current.age < OperationTimeout + lag
    BY DEF LInv, BoundedLifetime
  <2>3. current'.age = Older(current.age)
    BY <1>1, <2>1, AgedType
  <2> QED
    BY <1>1, <2>1, <2>2, <2>3, AgesByOne
<1>5. BoundedLifetime'
  BY <1>1, <1>2, <1>3, <1>4, ConstantFacts DEF BoundedLifetime
<1>6. AcceptanceOrder'
  <2>1. \A i, j \in DOMAIN queue : i < j => queue'[i].age >= queue'[j].age
    BY <1>2 DEF LInv, AcceptanceOrder
  <2>2. Active => \A i \in DOMAIN queue : current'.age >= queue'[i].age
    BY <1>2, <1>4 DEF LInv, AcceptanceOrder
  <2> QED
    BY <1>1, <1>3, <2>1, <2>2 DEF AcceptanceOrder
<1> QED
  BY <1>5, <1>6 DEF LInv

LEMMA EntryIsNew == \A r : Entry(r).age = 0
BY DEF Entry

LEMMA EnqueueKeepsLInv ==
    ASSUME IInv, LInv, NEW r \in Requests, Enqueue(r)
    PROVE  LInv'
<1>1. current' = current /\ lag' = lag /\ Active' = Active
  BY DEF Enqueue, Reject, Admit, Supersede, Untouched, Active
<1>2. /\ Len(queue) \in Nat /\ DOMAIN queue = 1 .. Len(queue)
      /\ \A i \in DOMAIN queue : queue[i].age \in Nat
      /\ lag \in Nat /\ (Active => current.age \in Nat)
      /\ queue \in Seq(Operation) /\ nextGeneration \in 0 .. (GenerationSize - 1)
  BY QueueFacts DEF IInv, TypeOK, OperationsOK
<1>3. CASE Reject(r)
  BY <1>1, <1>3 DEF Reject, LInv, BoundedLifetime, AcceptanceOrder
<1>4. CASE Admit(r) \/ Supersede(r)
  <2> DEFINE n == Len(queue')
  <2>1. /\ n \in Nat \ {0} /\ n - 1 <= Len(queue) /\ DOMAIN queue' = 1 .. n
        /\ queue'[n].age = 0
        /\ \A i \in 1 .. n - 1 : queue'[i] = queue[i]
    <3>1. Entry(r) \in Operation /\ Entry(r).age = 0
      BY <1>2, <1>4, EntryType, EntryIsNew DEF Admit, Supersede
    <3>2. CASE Admit(r)
      <4>1. /\ queue' \in Seq(Operation) /\ Len(queue') = Len(queue) + 1
            /\ \A i \in 1 .. Len(queue) : queue'[i] = queue[i]
            /\ queue'[Len(queue) + 1] = Entry(r)
        BY <1>2, <3>1, <3>2, AppendProperties DEF Admit
      <4>2. DOMAIN queue' = 1 .. Len(queue) + 1
        BY <4>1, LenProperties
      <4>3. Len(queue) + 1 \in Nat \ {0} /\ (Len(queue) + 1) - 1 = Len(queue)
        BY <1>2
      <4> QED
        BY <1>2, <3>1, <4>1, <4>2, <4>3
    <3>3. CASE Supersede(r)
      <4>1. queue' = [queue EXCEPT ![Len(queue)] = Entry(r)] /\ queue # <<>>
        BY <3>3 DEF Supersede, Replaces
      <4>2. Len(queue) \in Nat \ {0} /\ Len(queue) - 1 <= Len(queue)
        BY <1>2, <4>1, EmptySeq
      <4>3. Len(queue) \in DOMAIN queue /\ Len(queue) \in 1 .. Len(queue)
        BY <1>2, <4>2
      <4>4. queue' \in Seq(Operation) /\ n = Len(queue)
        BY <1>2, <3>1, <4>1, <4>3, ExceptSeq
      <4>5. DOMAIN queue' = 1 .. n
        BY <4>4, LenProperties
      <4>6. queue'[n].age = 0
        BY <3>1, <4>1, <4>3, <4>4
      <4>7. n \in Nat \ {0} /\ n - 1 <= Len(queue)
        BY <4>2, <4>4
      <4>8. \A i \in 1 .. n - 1 : queue'[i] = queue[i]
        <5> SUFFICES ASSUME NEW i \in 1 .. n - 1 PROVE queue'[i] = queue[i]
          OBVIOUS
        <5>1. i \in 1 .. Len(queue) - 1
          BY <4>4
        <5>2. \A m \in Nat \ {0} : \A j \in 1 .. m - 1 : j \in 1 .. m /\ j # m
          OBVIOUS
        <5>3. i \in 1 .. Len(queue) /\ i # Len(queue)
          BY <4>2, <5>1, <5>2
        <5>4. i \in DOMAIN queue
          BY <1>2, <5>3
        <5> QED
          BY <4>1, <5>3, <5>4
      <4> HIDE DEF n
      <4> QED
        BY <4>5, <4>6, <4>7, <4>8
    <3> QED
      BY <1>4, <3>2, <3>3
  <2> HIDE DEF n
  <2>2. \A i \in 1 .. n - 1 : i \in DOMAIN queue /\ i \in 1 .. n
    BY <1>2, <2>1
  <2>3. \A i \in 1 .. n : queue'[i].age \in Nat
    BY <1>2, <2>1, <2>2
  <2>4. BoundedLifetime'
    <3>1. \A i \in 1 .. n : queue'[i].age < OperationTimeout + lag
      <4> SUFFICES ASSUME NEW i \in 1 .. n PROVE queue'[i].age < OperationTimeout + lag
        OBVIOUS
      <4>1. CASE i = n
        BY <1>2, <2>1, <4>1, ConstantFacts
      <4>2. CASE i # n
        <5>1. i \in 1 .. n - 1
          BY <2>1, <4>2
        <5> QED
          BY <2>1, <2>2, <5>1 DEF LInv, BoundedLifetime
      <4> QED
        BY <4>1, <4>2
    <3> QED
      BY <1>1, <2>1, <3>1 DEF LInv, BoundedLifetime
  <2>5. AcceptanceOrder'
    <3>1. \A i, j \in 1 .. n : i < j => queue'[i].age >= queue'[j].age
      <4> SUFFICES ASSUME NEW i \in 1 .. n, NEW j \in 1 .. n, i < j
                   PROVE  queue'[i].age >= queue'[j].age
        OBVIOUS
      <4>1. i \in 1 .. n - 1
        BY <2>1
      <4>2. CASE j = n
        BY <2>1, <2>3, <4>2
      <4>3. CASE j # n
        <5>1. j \in 1 .. n - 1
          BY <2>1, <4>3
        <5> QED
          BY <2>1, <2>2, <4>1, <5>1 DEF LInv, AcceptanceOrder
      <4> QED
        BY <4>2, <4>3
    <3>2. Active => \A i \in 1 .. n : current.age >= queue'[i].age
      <4> SUFFICES ASSUME Active, NEW i \in 1 .. n PROVE current.age >= queue'[i].age
        OBVIOUS
      <4>1. CASE i = n
        BY <1>2, <2>1, <4>1
      <4>2. CASE i # n
        <5>1. i \in 1 .. n - 1
          BY <2>1, <4>2
        <5> QED
          BY <2>1, <2>2, <5>1 DEF LInv, AcceptanceOrder
      <4> QED
        BY <4>1, <4>2
    <3> QED
      BY <1>1, <2>1, <3>1, <3>2 DEF AcceptanceOrder
  <2> QED
    BY <2>4, <2>5 DEF LInv
<1> QED
  BY <1>3, <1>4 DEF Enqueue

LEMMA TickKeepsLInv == ASSUME IInv, LInv, TickSteps PROVE LInv'
<1>1. /\ lag' = 0
      /\ \/ current' = NoOperation /\ queue' = <<>>
         \/ current' = current /\ queue' = Waiting /\ ~Expired
         \/ /\ Waiting # <<>>
            /\ current' = Head(Waiting) /\ queue' = Tail(Waiting)
  BY TickServes
<1>2. /\ Waiting \in Seq(Operation) /\ Len(Waiting) \in Nat
      /\ DOMAIN Waiting = 1 .. Len(Waiting)
      /\ \A i \in DOMAIN Waiting :
            /\ Waiting[i].age \in Nat /\ Waiting[i].age < OperationTimeout
            /\ Active => current.age >= Waiting[i].age
      /\ \A i, j \in DOMAIN Waiting : i < j => Waiting[i].age >= Waiting[j].age
  BY WaitingIsYoung
<1>3. OperationTimeout + lag' = OperationTimeout
  BY <1>1, ConstantFacts
<1>4. CASE current' = NoOperation /\ queue' = <<>>
  <2>1. ~Active'
    BY <1>4 DEF Active
  <2> QED
    BY <1>2, <1>3, <1>4, <2>1 DEF LInv, BoundedLifetime, AcceptanceOrder
<1>5. CASE current' = current /\ queue' = Waiting /\ ~Expired
  <2>1. Active' = Active /\ (Active => current.age < OperationTimeout)
    BY <1>5, QueueFacts, ConstantFacts DEF Active, Expired, Old
  <2> QED
    BY <1>2, <1>3, <1>5, <2>1 DEF LInv, BoundedLifetime, AcceptanceOrder
<1>6. CASE /\ Waiting # <<>>
           /\ current' = Head(Waiting) /\ queue' = Tail(Waiting)
  <2>1. /\ Tail(Waiting) \in Seq(Operation) /\ Len(Tail(Waiting)) = Len(Waiting) - 1
        /\ \A i \in 1 .. Len(Tail(Waiting)) : Tail(Waiting)[i] = Waiting[i + 1]
        /\ Head(Waiting) = Waiting[1]
    BY <1>2, <1>6, HeadTailProperties
  <2>2. Len(Waiting) # 0
    BY <1>2, <1>6, EmptySeq
  <2>3. DOMAIN queue' = 1 .. Len(Waiting) - 1
    BY <1>6, <2>1, LenProperties
  <2>4. \A i \in DOMAIN queue' : i + 1 \in DOMAIN Waiting /\ queue'[i] = Waiting[i + 1]
    BY <1>2, <1>6, <2>1, <2>2, <2>3
  <2>5. 1 \in DOMAIN Waiting /\ current' = Waiting[1]
    BY <1>2, <1>6, <2>1, <2>2
  <2>6. BoundedLifetime'
    BY <1>2, <1>3, <2>4, <2>5 DEF BoundedLifetime
  <2>7. \A i, j \in DOMAIN queue' : i < j => queue'[i].age >= queue'[j].age
    <3> SUFFICES ASSUME NEW i \in DOMAIN queue', NEW j \in DOMAIN queue', i < j
                 PROVE  queue'[i].age >= queue'[j].age
      OBVIOUS
    <3>1. i + 1 < j + 1
      BY <2>3
    <3> QED
      BY <1>2, <2>4, <3>1
  <2>8. \A i \in DOMAIN queue' : current'.age >= queue'[i].age
    <3> SUFFICES ASSUME NEW i \in DOMAIN queue' PROVE current'.age >= queue'[i].age
      OBVIOUS
    <3>1. 1 < i + 1
      BY <2>3
    <3> QED
      BY <1>2, <2>4, <2>5, <3>1
  <2> QED
    BY <2>6, <2>7, <2>8 DEF LInv, AcceptanceOrder
<1> QED
  BY <1>1, <1>4, <1>5, <1>6

LEMMA ReceiveKeepsLInv ==
    ASSUME LInv, NEW s, Receive(s)
    PROVE  LInv'
<1>1. /\ lag' = lag
      /\ current' \in {current, NoOperation} /\ queue' \in {queue, <<>>}
  BY ReceiveServes
<1>2. Active' => Active /\ current' = current
  BY <1>1 DEF Active
<1> QED
  BY <1>1, <1>2 DEF LInv, BoundedLifetime, AcceptanceOrder

LEMMA NextKeepsLInv == ASSUME IInv, LInv, [Next]_vars PROVE LInv'
<1>1. CASE RequestPoll
  BY <1>1 DEF RequestPoll, LInv, BoundedLifetime, AcceptanceOrder, Active
<1>2. CASE UNCHANGED vars
  BY <1>2 DEF vars, LInv, BoundedLifetime, AcceptanceOrder, Active
<1> QED
  BY <1>1, <1>2, AdvanceKeepsLInv, TickKeepsLInv, EnqueueKeepsLInv, ReceiveKeepsLInv
  DEF Next

LEMMA LifetimeInvariance == Spec => []LInv
<1>1. Init => IInv /\ LInv
  BY InitIInv, InitLInv
<1>2. (IInv /\ LInv) /\ [Next]_vars => (IInv /\ LInv)'
  BY NextKeepsIInv, NextKeepsLInv
<1> QED
  BY <1>1, <1>2, PTL DEF Spec

(***************************************************************************)
(* The theorems about lifetime and order.                                  *)
(***************************************************************************)

\* No operation, queued or active, outlives the ten seconds by more than the
\* time since the last tick, whatever phases and re-reads it goes through.
THEOREM LifetimesAreBounded == Spec => []BoundedLifetime
<1>1. LInv => BoundedLifetime
  BY DEF LInv
<1> QED
  BY <1>1, LifetimeInvariance, PTL

\* Operations are served in the order of their acceptance.
THEOREM ServedInOrder == Spec => []AcceptanceOrder
<1>1. LInv => AcceptanceOrder
  BY DEF LInv
<1> QED
  BY <1>1, LifetimeInvariance, PTL

\* Dropping a prefix of the queue drops exactly what is too old.
THEOREM ExpiryTakesThePrefix == Spec => []ExpiryIsAPrefix
<1>1. ASSUME IInv, LInv PROVE ExpiryIsAPrefix
  <2> DEFINE k == Len(queue) - Len(Waiting)
  <2>1. Len(queue) \in Nat /\ DOMAIN queue = 1 .. Len(queue) /\ queue \in Seq(Operation)
    BY <1>1, QueueFacts
  <2>2. /\ Cardinality(Lapsed) \in 0 .. Len(queue)
        /\ Len(Waiting) = Len(queue) - Cardinality(Lapsed)
        /\ \A i \in 1 .. Len(Waiting) : Waiting[i] = queue[i + Cardinality(Lapsed)]
    BY <2>1, ExpirySplits
  <2>3. k = Cardinality(Lapsed) /\ k \in 0 .. Len(queue) /\ Len(Waiting) = Len(queue) - k
    BY <2>1, <2>2
  <2>4. \A i \in DOMAIN queue : Old(queue[i]) <=> i <= k
    BY <1>1, <2>3, LapsedIsAPrefix DEF LInv, Lapsed
  <2>5. \A i \in 1 .. Len(Waiting) : Waiting[i] = queue[i + k]
    BY <2>2, <2>3
  <2> HIDE DEF k
  <2>6. ASSUME NEW i \in DOMAIN queue, ~(i <= k)
        PROVE  i > k /\ Waiting[i - k] = queue[i]
    <3>1. i - k \in 1 .. Len(Waiting) /\ (i - k) + k = i /\ i > k
      BY <2>1, <2>3, <2>6
    <3> QED
      BY <2>5, <3>1
  <2>7. \A i \in DOMAIN queue :
            IF Old(queue[i]) THEN i <= k ELSE i > k /\ Waiting[i - k] = queue[i]
    BY <2>4, <2>6
  <2> QED
    BY <2>7 DEF ExpiryIsAPrefix, k
<1>2. IInv /\ LInv => ExpiryIsAPrefix
  BY <1>1
<1> QED
  BY <1>2, Invariance, LifetimeInvariance, PTL

-----------------------------------------------------------------------------
(***************************************************************************)
(* Every accepted operation has exactly one outcome: the live generations  *)
(* are distinct, and what is reported in a step are those that stop being  *)
(* live in it.                                                             *)
(***************************************************************************)

(***************************************************************************)
(* Generations of operations and of reports.                               *)
(***************************************************************************)
Gens(q)  == {q[i].generation : i \in DOMAIN q}
Named(s) == {s[i].generation : i \in DOMAIN s} \ {0}

DistinctOps(q) ==
    \A i, j \in DOMAIN q : q[i].generation = q[j].generation => i = j

Distinct(s) ==
    \A i, j \in DOMAIN s :
        s[i].generation = s[j].generation /\ s[i].generation # 0 => i = j

LEMMA NotZero == \A op \in Operation : op.generation \in Generation /\ op.generation # 0
BY ConstantFacts DEF Operation, Generation

LEMMA NothingNamed == Named(<<>>) = {} /\ Distinct(<<>>) /\ Gens(<<>>) = {}
<1>1. DOMAIN <<>> = {}
  OBVIOUS
<1> QED
  BY <1>1 DEF Named, Distinct, Gens

LEMMA OutcomesNamed ==
    ASSUME NEW q \in Seq(Operation), NEW result, DistinctOps(q)
    PROVE  Named(Outcomes(q, result)) = Gens(q) /\ Distinct(Outcomes(q, result))
<1> DEFINE s == Outcomes(q, result)
<1>1. \A i \in DOMAIN q : q[i].generation # 0
  BY LenProperties, ElementOfSeq, NotZero
<1>2. DOMAIN s = DOMAIN q /\ \A i \in DOMAIN q : s[i].generation = q[i].generation
  BY DEF Outcomes, Outcome
<1> HIDE DEF s
<1>3. Named(s) = Gens(q) /\ Distinct(s)
  BY <1>1, <1>2 DEF Named, Gens, Distinct, DistinctOps
<1> QED
  BY <1>3 DEF s

LEMMA VerdictNamed ==
    ASSUME NEW op \in Operation \cup {NoOperation}, NEW result
    PROVE  /\ Named(Verdict(op, result)) =
                 IF op # NoOperation THEN {op.generation} ELSE {}
           /\ Distinct(Verdict(op, result))
<1>1. \A c : DOMAIN <<c>> = {1} /\ <<c>>[1] = c
  OBVIOUS
<1>2. CASE op # NoOperation
  <2>1. Verdict(op, result) = <<Outcome(op, result)>> /\ op.generation # 0
    BY <1>2, NotZero DEF Verdict
  <2> QED
    BY <1>1, <1>2, <2>1 DEF Named, Distinct, Outcome
<1>3. CASE op = NoOperation
  <2> DEFINE c == [generation |-> 0, result |-> result]
  <2>1. Verdict(op, result) = <<>> \/ Verdict(op, result) = <<c>>
    BY <1>3 DEF Verdict, When
  <2>2. Named(<<c>>) = {} /\ Distinct(<<c>>)
    BY <1>1 DEF Named, Distinct
  <2> QED
    BY <1>3, <2>1, <2>2, NothingNamed
<1> QED
  BY <1>2, <1>3

LEMMA ConcatNamed ==
    ASSUME NEW a \in Seq(Callback), NEW b \in Seq(Callback),
           Distinct(a), Distinct(b), Named(a) \cap Named(b) = {}
    PROVE  /\ a \o b \in Seq(Callback)
           /\ Named(a \o b) = Named(a) \cup Named(b)
           /\ Distinct(a \o b)
<1> DEFINE s == a \o b
<1>1. /\ s \in Seq(Callback)
      /\ Len(s) = Len(a) + Len(b)
      /\ \A i \in 1 .. Len(a) + Len(b) :
            s[i] = IF i <= Len(a) THEN a[i] ELSE b[i - Len(a)]
  BY ConcatProperties
<1> HIDE DEF s
<1>2. /\ Len(a) \in Nat /\ DOMAIN a = 1 .. Len(a)
      /\ Len(b) \in Nat /\ DOMAIN b = 1 .. Len(b)
      /\ DOMAIN s = 1 .. Len(a) + Len(b)
  BY <1>1, LenProperties
<1>3. ASSUME NEW i \in DOMAIN s
      PROVE  \/ i \in DOMAIN a /\ s[i] = a[i]
             \/ i - Len(a) \in DOMAIN b /\ s[i] = b[i - Len(a)]
  BY <1>1, <1>2
<1>4. ASSUME NEW i \in DOMAIN a PROVE i \in DOMAIN s /\ s[i] = a[i]
  BY <1>1, <1>2
<1>5. ASSUME NEW i \in DOMAIN b
      PROVE  i + Len(a) \in DOMAIN s /\ s[i + Len(a)] = b[i]
  <2>1. i + Len(a) \in 1 .. Len(a) + Len(b) /\ ~(i + Len(a) <= Len(a))
        /\ i + Len(a) - Len(a) = i
    BY <1>2
  <2> QED
    BY <1>1, <1>2, <2>1
<1>6. Named(s) = Named(a) \cup Named(b)
  <2>1. Named(s) \subseteq Named(a) \cup Named(b)
    BY <1>3 DEF Named
  <2>2. Named(a) \subseteq Named(s)
    BY <1>4 DEF Named
  <2>3. Named(b) \subseteq Named(s)
    BY <1>5 DEF Named
  <2> QED
    BY <2>1, <2>2, <2>3
<1>7. Distinct(s)
  <2> SUFFICES ASSUME NEW i \in DOMAIN s, NEW j \in DOMAIN s,
                      s[i].generation = s[j].generation, s[i].generation # 0
               PROVE  i = j
    BY DEF Distinct
  <2>1. CASE i \in DOMAIN a /\ s[i] = a[i] /\ j \in DOMAIN a /\ s[j] = a[j]
    BY <2>1 DEF Distinct
  <2>2. CASE /\ i - Len(a) \in DOMAIN b /\ s[i] = b[i - Len(a)]
             /\ j - Len(a) \in DOMAIN b /\ s[j] = b[j - Len(a)]
    <3>1. i - Len(a) = j - Len(a)
      BY <2>2 DEF Distinct
    <3> QED
      BY <1>2, <3>1
  <2>3. ASSUME NEW l \in DOMAIN a, NEW m \in DOMAIN b,
               a[l].generation = b[m].generation, a[l].generation # 0
        PROVE  FALSE
    <3>1. a[l].generation \in Named(a) /\ a[l].generation \in Named(b)
      BY <2>3 DEF Named
    <3> QED
      BY <3>1
  <2> QED
    BY <1>3, <2>1, <2>2, <2>3
<1> QED
  BY <1>1, <1>6, <1>7 DEF s

(***************************************************************************)
(* The invariant: live generations are distinct.                           *)
(***************************************************************************)
UInv == DistinctOps(queue) /\ (Active => current.generation \notin Gens(queue))

LEMMA LiveFacts ==
    LiveGenerations = Gens(queue) \cup (IF Active THEN {current.generation} ELSE {})
BY DEF LiveGenerations, Gens

LEMMA LiveNext ==
    LiveGenerations' =
        Gens(queue') \cup (IF Active' THEN {current'.generation} ELSE {})
BY DEF LiveGenerations, Gens, Active

\* The part of the queue that a step gives up, and the part it leaves.
Split(gone, rest) ==
    /\ gone \in Seq(Operation) /\ rest \in Seq(Operation)
    /\ DistinctOps(gone) /\ DistinctOps(rest)
    /\ Gens(queue) = Gens(gone) \cup Gens(rest)
    /\ Gens(gone) \cap Gens(rest) = {}

LEMMA SplitAt ==
    ASSUME queue \in Seq(Operation), DistinctOps(queue), NEW k \in 0 .. Len(queue)
    PROVE  Split(SubSeq(queue, 1, k), SubSeq(queue, 1 + k, Len(queue)))
<1> DEFINE gone == SubSeq(queue, 1, k)
           rest == SubSeq(queue, 1 + k, Len(queue))
<1>1. Len(queue) \in Nat /\ DOMAIN queue = 1 .. Len(queue) /\ k \in Nat
      /\ \A i \in 1 .. Len(queue) : queue[i] \in Operation
  BY LenProperties, ElementOfSeq
<1>2. /\ gone \in Seq(Operation)
      /\ Len(gone) = IF 1 <= k THEN k - 1 + 1 ELSE 0
      /\ \A i \in 1 .. k - 1 + 1 : gone[i] = queue[1 + i - 1]
  BY <1>1, SubSeqProperties
<1>3. /\ rest \in Seq(Operation)
      /\ Len(rest) = IF 1 + k <= Len(queue) THEN Len(queue) - (1 + k) + 1 ELSE 0
      /\ \A i \in 1 .. Len(queue) - (1 + k) + 1 : rest[i] = queue[1 + k + i - 1]
  BY <1>1, SubSeqProperties
<1> HIDE DEF gone, rest
<1>4. DOMAIN gone = 1 .. k /\ \A i \in 1 .. k : gone[i] = queue[i]
  <2>1. Len(gone) = k
    <3>1. \A n \in Nat : (IF 1 <= n THEN n - 1 + 1 ELSE 0) = n
      OBVIOUS
    <3> QED
      BY <1>1, <1>2, <3>1
  <2>2. DOMAIN gone = 1 .. k
    BY <1>2, <2>1, LenProperties
  <2> QED
    BY <1>1, <1>2, <2>2
<1>5. DOMAIN rest = 1 .. Len(queue) - k
      /\ \A i \in 1 .. Len(queue) - k : rest[i] = queue[i + k]
  <2>1. Len(rest) = Len(queue) - k
    <3>1. \A n \in Nat : \A j \in 0 .. n :
              (IF 1 + j <= n THEN n - (1 + j) + 1 ELSE 0) = n - j
      OBVIOUS
    <3> QED
      BY <1>1, <1>3, <3>1
  <2>2. DOMAIN rest = 1 .. Len(queue) - k
    BY <1>3, <2>1, LenProperties
  <2>3. ASSUME NEW i \in 1 .. Len(queue) - k PROVE rest[i] = queue[i + k]
    <3>1. i \in 1 .. Len(queue) - (1 + k) + 1 /\ 1 + k + i - 1 = i + k
      BY <1>1
    <3> QED
      BY <1>3, <3>1
  <2> QED
    BY <2>2, <2>3
<1>6. DistinctOps(gone)
  <2>1. \A i \in 1 .. k : i \in DOMAIN queue
    BY <1>1
  <2> QED
    BY <1>4, <2>1 DEF DistinctOps
<1>7. \A i \in 1 .. Len(queue) - k : i + k \in DOMAIN queue /\ i \in Int
  BY <1>1
<1>8. DistinctOps(rest)
  <2> SUFFICES ASSUME NEW i \in DOMAIN rest, NEW j \in DOMAIN rest,
                      rest[i].generation = rest[j].generation
               PROVE  i = j
    BY DEF DistinctOps
  <2>1. i + k = j + k
    BY <1>5, <1>7 DEF DistinctOps
  <2> QED
    BY <1>1, <1>5, <1>7, <2>1
<1>9. Gens(queue) \subseteq Gens(gone) \cup Gens(rest)
  <2> SUFFICES ASSUME NEW i \in DOMAIN queue
               PROVE  queue[i].generation \in Gens(gone) \cup Gens(rest)
    BY DEF Gens
  <2>1. CASE i <= k
    <3>1. i \in DOMAIN gone /\ gone[i] = queue[i]
      BY <1>1, <1>4, <2>1
    <3> QED
      BY <3>1 DEF Gens
  <2>2. CASE ~(i <= k)
    <3>1. i - k \in 1 .. Len(queue) - k /\ (i - k) + k = i
      BY <1>1, <2>2
    <3>2. i - k \in DOMAIN rest /\ rest[i - k] = queue[i]
      BY <1>5, <3>1
    <3> QED
      BY <3>2 DEF Gens
  <2> QED
    BY <2>1, <2>2
<1>10. Gens(gone) \subseteq Gens(queue) /\ Gens(rest) \subseteq Gens(queue)
  <2>1. \A i \in 1 .. k : i \in DOMAIN queue
    BY <1>1
  <2> QED
    BY <1>4, <1>5, <1>7, <2>1 DEF Gens
<1>11. Gens(gone) \cap Gens(rest) = {}
  <2> SUFFICES ASSUME NEW i \in 1 .. k, NEW j \in 1 .. Len(queue) - k,
                      gone[i].generation = rest[j].generation
               PROVE  FALSE
    BY <1>4, <1>5 DEF Gens
  <2>1. i \in DOMAIN queue /\ j + k \in DOMAIN queue /\ i # j + k
    BY <1>1
  <2>2. gone[i] = queue[i] /\ rest[j] = queue[j + k]
    BY <1>4, <1>5
  <2> QED
    BY <2>1, <2>2 DEF DistinctOps
<1> QED
  BY <1>2, <1>3, <1>6, <1>8, <1>9, <1>10, <1>11 DEF Split, gone, rest

\* Tail and head split a sequence too.
LEMMA HeadSplits ==
    ASSUME NEW q \in Seq(Operation), q # <<>>, DistinctOps(q)
    PROVE  /\ Head(q) \in Operation /\ Tail(q) \in Seq(Operation)
           /\ DistinctOps(Tail(q))
           /\ Gens(q) = Gens(Tail(q)) \cup {Head(q).generation}
           /\ Head(q).generation \notin Gens(Tail(q))
<1> DEFINE t == Tail(q)
<1>1. /\ Len(q) \in Nat \ {0} /\ DOMAIN q = 1 .. Len(q)
      /\ Head(q) \in Operation /\ t \in Seq(Operation) /\ Head(q) = q[1]
      /\ Len(t) = Len(q) - 1 /\ \A i \in 1 .. Len(t) : t[i] = q[i + 1]
  BY LenProperties, EmptySeq, HeadTailProperties
<1> HIDE DEF t
<1>2. DOMAIN t = 1 .. Len(q) - 1 /\ \A i \in 1 .. Len(q) - 1 : t[i] = q[i + 1]
  BY <1>1, LenProperties
<1>3. \A i \in 1 .. Len(q) - 1 : i + 1 \in DOMAIN q /\ i + 1 # 1 /\ i \in Int
  BY <1>1
<1>4. DistinctOps(t)
  <2> SUFFICES ASSUME NEW i \in DOMAIN t, NEW j \in DOMAIN t,
                      t[i].generation = t[j].generation
               PROVE  i = j
    BY DEF DistinctOps
  <2>1. i + 1 = j + 1
    BY <1>2, <1>3 DEF DistinctOps
  <2> QED
    BY <1>2, <1>3, <2>1
<1>5. Gens(q) \subseteq Gens(t) \cup {q[1].generation}
  <2> SUFFICES ASSUME NEW i \in DOMAIN q, i # 1
               PROVE  q[i].generation \in Gens(t)
    BY DEF Gens
  <2>1. i - 1 \in 1 .. Len(q) - 1 /\ (i - 1) + 1 = i
    BY <1>1
  <2>2. i - 1 \in DOMAIN t /\ t[i - 1] = q[i]
    BY <1>2, <2>1
  <2> QED
    BY <2>2 DEF Gens
<1>6. 1 \in DOMAIN q
  BY <1>1
<1>7. Gens(t) \cup {q[1].generation} \subseteq Gens(q)
  BY <1>2, <1>3, <1>6 DEF Gens
<1>8. q[1].generation \notin Gens(t)
  BY <1>2, <1>3, <1>6 DEF Gens, DistinctOps
<1> QED
  BY <1>1, <1>4, <1>5, <1>7, <1>8 DEF t

(***************************************************************************)
(* What a step must report, and the kinds of steps there are.              *)
(***************************************************************************)
OutcomeStep ==
    LET reported == {i \in DOMAIN finished' : finished'[i].generation # 0}
        names    == {finished'[i].generation : i \in reported}
    IN  /\ \A i, j \in reported :
              finished'[i].generation = finished'[j].generation => i = j
        /\ names = LiveGenerations \ LiveGenerations'

LEMMA NamedStep ==
    ASSUME Distinct(finished'), Named(finished') = LiveGenerations \ LiveGenerations'
    PROVE  OutcomeStep
<1> DEFINE s == finished'
           reported == {i \in DOMAIN s : s[i].generation # 0}
<1>1. {s[i].generation : i \in reported} = Named(s)
  BY DEF Named
<1>2. \A i, j \in reported : s[i].generation = s[j].generation => i = j
  BY DEF Distinct
<1> HIDE DEF s
<1> QED
  BY <1>1, <1>2 DEF OutcomeStep, s

\* The step that serves nothing new and ends nothing.
LEMMA KeepStep ==
    ASSUME IInv, UInv, NEW gone, NEW rest, Split(gone, rest),
           finished' = Outcomes(gone, "EXPIRED"),
           DistinctOps(queue'), Gens(queue') = Gens(rest),
           Active' <=> Active, Active => current'.generation = current.generation
    PROVE  UInv' /\ OutcomeStep
<1>1. Named(finished') = Gens(gone) /\ Distinct(finished')
  BY OutcomesNamed DEF Split
<1>2. UInv'
  BY DEF UInv, Split
<1>3. LiveGenerations' = Gens(queue') \cup
                         (IF Active THEN {current.generation} ELSE {})
  BY LiveNext
<1>4. LiveGenerations \ LiveGenerations' = Gens(gone)
  BY <1>3, LiveFacts DEF Split, UInv
<1> QED
  BY <1>1, <1>2, <1>4, NamedStep

\* The step that starts the oldest of the queue.
LEMMA StartStep ==
    ASSUME IInv, UInv, NEW gone, NEW rest, Split(gone, rest),
           rest # <<>>, ~Active, current' = Head(rest), queue' = Tail(rest),
           finished' = Outcomes(gone, "EXPIRED")
    PROVE  UInv' /\ OutcomeStep
<1>1. Named(finished') = Gens(gone) /\ Distinct(finished')
  BY OutcomesNamed DEF Split
<1>2. /\ Head(rest) \in Operation /\ DistinctOps(Tail(rest))
      /\ Gens(rest) = Gens(Tail(rest)) \cup {Head(rest).generation}
      /\ Head(rest).generation \notin Gens(Tail(rest))
  BY HeadSplits DEF Split
<1>3. UInv'
  BY <1>2 DEF UInv
<1>4. Active'
  BY <1>2, EnvironmentFacts DEF Active
<1>5. LiveGenerations' = Gens(rest)
  BY <1>2, <1>4, LiveNext
<1>6. LiveGenerations \ LiveGenerations' = Gens(gone)
  BY <1>5, LiveFacts DEF Split
<1> QED
  BY <1>1, <1>3, <1>6, NamedStep

\* The step that fails op, the active operation or the one about to start.
LEMMA FailStep ==
    ASSUME IInv, UInv, NEW gone, NEW q, NEW op \in Operation \cup {NoOperation},
           NEW result, Failure(result),
           gone \in Seq(Operation), q \in Seq(Operation),
           DistinctOps(gone), DistinctOps(q), Gens(gone) \cap Gens(q) = {},
           op # NoOperation => op.generation \notin Gens(gone) \cup Gens(q),
           LiveGenerations = Gens(gone) \cup Gens(q) \cup
                                (IF op # NoOperation THEN {op.generation} ELSE {}),
           result \in Result,
           FinishWith(op, result, q, Outcomes(gone, "EXPIRED"))
    PROVE  UInv' /\ OutcomeStep
<1> DEFINE a == Outcomes(gone, "EXPIRED")
           b == Verdict(op, result)
           c == Outcomes(q, "CANCELLED")
           own == IF op # NoOperation THEN {op.generation} ELSE {}
<1>1. finished' = a \o b \o c /\ queue' = <<>> /\ current' = NoOperation
  BY DEF FinishWith
<1>2. a \in Seq(Callback) /\ b \in Seq(Callback) /\ c \in Seq(Callback)
  BY OutcomesType, VerdictType DEF Result
<1>3. /\ Named(a) = Gens(gone) /\ Distinct(a)
      /\ Named(b) = own /\ Distinct(b)
      /\ Named(c) = Gens(q) /\ Distinct(c)
  BY OutcomesNamed, VerdictNamed
<1> HIDE DEF a, b, c
<1>4. /\ a \o b \in Seq(Callback) /\ Distinct(a \o b)
      /\ Named(a \o b) = Gens(gone) \cup own
  BY <1>2, <1>3, ConcatNamed
<1>5. /\ Distinct(a \o b \o c)
      /\ Named(a \o b \o c) = LiveGenerations
  <2>1. LiveGenerations = Gens(gone) \cup Gens(q) \cup own
        /\ own \cap (Gens(gone) \cup Gens(q)) = {}
    OBVIOUS
  <2> HIDE DEF own
  <2>2. Named(a \o b) \cap Named(c) = {}
    BY <1>3, <1>4, <2>1
  <2>3. /\ Distinct(a \o b \o c)
        /\ Named(a \o b \o c) = Named(a \o b) \cup Named(c)
    BY <1>2, <1>3, <1>4, <2>2, ConcatNamed
  <2> QED
    BY <1>3, <1>4, <2>1, <2>3
<1>6. DOMAIN <<>> = {}
  OBVIOUS
<1>7. UInv'
  BY <1>1, <1>6 DEF UInv, DistinctOps, Active
<1>8. LiveGenerations' = {}
  BY <1>1, NothingNamed, LiveNext DEF Active
<1> QED
  BY <1>1, <1>5, <1>7, <1>8, NamedStep

LEMMA ActiveFails ==
    ASSUME IInv, UInv, NEW gone, NEW rest, Split(gone, rest),
           NEW result \in Result, Failure(result),
           FinishWith(current, result, rest, Outcomes(gone, "EXPIRED"))
    PROVE  UInv' /\ OutcomeStep
<1>1. current \in Operation \cup {NoOperation}
  BY DEF IInv, TypeOK, OperationsOK
<1>2. current # NoOperation => current.generation \notin Gens(gone) \cup Gens(rest)
  BY DEF Split, UInv, Active
<1>3. LiveGenerations = Gens(gone) \cup Gens(rest) \cup
                        (IF current # NoOperation THEN {current.generation} ELSE {})
  BY LiveFacts DEF Split, Active
<1> QED
  BY <1>1, <1>2, <1>3, FailStep DEF Split

LEMMA HeadFails ==
    ASSUME IInv, UInv, NEW gone, NEW rest, Split(gone, rest), rest # <<>>, ~Active,
           NEW result \in Result, Failure(result),
           FinishWith(Head(rest), result, Tail(rest), Outcomes(gone, "EXPIRED"))
    PROVE  UInv' /\ OutcomeStep
<1>1. /\ Head(rest) \in Operation /\ Tail(rest) \in Seq(Operation)
      /\ DistinctOps(Tail(rest))
      /\ Gens(rest) = Gens(Tail(rest)) \cup {Head(rest).generation}
      /\ Head(rest).generation \notin Gens(Tail(rest))
      /\ Head(rest) # NoOperation
  BY HeadSplits, EnvironmentFacts DEF Split
<1>2. LiveGenerations = Gens(gone) \cup Gens(Tail(rest)) \cup {Head(rest).generation}
  BY <1>1, LiveFacts DEF Split
<1> QED
  BY <1>1, <1>2, FailStep DEF Split

\* The step that ends the active operation, or a poll, well.
LEMMA SucceedStep ==
    ASSUME IInv, UInv, NEW result \in Result, ~Failure(result),
           FinishWith(current, result, queue, <<>>)
    PROVE  UInv' /\ OutcomeStep
<1>1. /\ current \in Operation \cup {NoOperation} /\ <<>> \in Seq(Callback)
      /\ Verdict(current, result) \in Seq(Callback)
  BY VerdictType, EmptySeq DEF IInv, TypeOK, OperationsOK
<1>2. /\ finished' = <<>> \o Verdict(current, result)
      /\ queue' = queue /\ current' = NoOperation
  BY DEF FinishWith
<1>3. /\ Distinct(finished')
      /\ Named(finished') = IF Active THEN {current.generation} ELSE {}
  BY <1>1, <1>2, NothingNamed, VerdictNamed, ConcatNamed DEF Active
<1>4. UInv'
  BY <1>2 DEF UInv, Active
<1>5. LiveGenerations' = Gens(queue)
  BY <1>2, LiveNext DEF Active
<1>6. LiveGenerations \ LiveGenerations' = Named(finished')
  BY <1>3, <1>5, LiveFacts DEF UInv
<1> QED
  BY <1>3, <1>4, <1>6, NamedStep

(***************************************************************************)
(* The steps of the engine.                                                *)
(***************************************************************************)
LEMMA TickSplits ==
    ASSUME IInv, UInv
    PROVE  \E gone : Split(gone, Waiting) /\ Lapses = Outcomes(gone, "EXPIRED")
<1>1. queue \in Seq(Operation)
  BY DEF IInv, TypeOK, OperationsOK
<1>2. Cardinality(Lapsed) \in 0 .. Len(queue)
  BY <1>1, ExpirySplits
<1> QED
  BY <1>1, <1>2, SplitAt DEF UInv, Waiting, Lapses

LEMMA CallSplits ==
    ASSUME IInv, UInv
    PROVE  Split(<<>>, queue) /\ Outcomes(<<>>, "EXPIRED") = <<>>
<1>1. queue \in Seq(Operation) /\ <<>> \in Seq(Operation)
  BY EmptySeq DEF IInv, TypeOK, OperationsOK
<1>2. DOMAIN <<>> = {}
  OBVIOUS
<1>3. Outcomes(<<>>, "EXPIRED") \in Seq(Callback) /\ Len(Outcomes(<<>>, "EXPIRED")) = 0
  BY <1>1, OutcomesType, EmptySeq DEF Result
<1> QED
  BY <1>1, <1>2, <1>3, NothingNamed, EmptySeq DEF Split, UInv, DistinctOps

LEMMA TickReports == ASSUME IInv, UInv, TickSteps PROVE UInv' /\ OutcomeStep
<1>1. PICK gone : Split(gone, Waiting) /\ Lapses = Outcomes(gone, "EXPIRED")
  BY TickSplits
<1>2. ASSUME NEW result \in Result, Failure(result),
             FinishWith(current, result, Waiting, Lapses)
      PROVE  UInv' /\ OutcomeStep
  BY <1>1, <1>2, ActiveFails
<1>3. ASSUME current' = current, queue' = Waiting, finished' = Lapses
      PROVE  UInv' /\ OutcomeStep
  <2>1. DistinctOps(queue') /\ Gens(queue') = Gens(Waiting)
    BY <1>1, <1>3 DEF Split
  <2>2. (Active' <=> Active) /\ current'.generation = current.generation
    BY <1>3 DEF Active
  <2> QED
    BY <1>1, <1>3, <2>1, <2>2, KeepStep
<1>4. CASE TickExpired \/ TickBlocked \/ TickTimeout
  <2>1. \E result \in Result : /\ Failure(result)
                                /\ FinishWith(current, result, Waiting, Lapses)
    BY <1>4 DEF TickExpired, TickBlocked, TickTimeout, Finish, Result, Failure
  <2> QED
    BY <1>2, <2>1
<1>5. CASE TickWaits \/ TickDrained
  BY <1>3, <1>5 DEF TickWaits, TickDrained, Quietly
<1>6. CASE TickIdlePoll \/ TickSettled \/ TickReread \/ TickRecovery \/ TickSend
  <2>1. \/ FinishWith(current, "WRITE_FAILED", Waiting, Lapses)
        \/ current' = current /\ queue' = Waiting /\ finished' = Lapses
    BY <1>6 DEF TickIdlePoll, TickSettled, TickReread, TickRecovery, TickSend, Poll,
                PollWith, Finish
  <2>2. "WRITE_FAILED" \in Result /\ Failure("WRITE_FAILED")
    BY DEF Result, Failure
  <2> QED
    BY <1>2, <1>3, <2>1, <2>2
<1>7. CASE TickIdleStart
  <2>1. /\ phase = "IDLE" /\ Waiting # <<>>
        /\ PollWith(Head(Waiting), TRUE, Tail(Waiting), Lapses)
    BY <1>7 DEF TickIdleStart, TickIn
  <2>2. ~Active
    BY <2>1 DEF IInv, SettersSentOnce, Exchange
  <2>3. \/ FinishWith(Head(Waiting), "WRITE_FAILED", Tail(Waiting), Lapses)
        \/ current' = Head(Waiting) /\ queue' = Tail(Waiting) /\ finished' = Lapses
    BY <2>1 DEF PollWith
  <2>4. "WRITE_FAILED" \in Result /\ Failure("WRITE_FAILED")
    BY DEF Result, Failure
  <2>5. CASE FinishWith(Head(Waiting), "WRITE_FAILED", Tail(Waiting), Lapses)
    BY <1>1, <2>1, <2>2, <2>4, <2>5, HeadFails
  <2>6. CASE current' = Head(Waiting) /\ queue' = Tail(Waiting) /\ finished' = Lapses
    BY <1>1, <2>1, <2>2, <2>6, StartStep
  <2> QED
    BY <2>3, <2>5, <2>6
<1> QED
  BY <1>4, <1>5, <1>6, <1>7 DEF TickSteps

LEMMA ReceiveReports ==
    ASSUME IInv, UInv, NEW s, Receive(s)
    PROVE  UInv' /\ OutcomeStep
<1>1. Split(<<>>, queue) /\ Outcomes(<<>>, "EXPIRED") = <<>>
  BY CallSplits
<1>2. CASE ReceiveRuledOut(s) \/ ReceiveDryLost(s)
  <2>1. FinishWith(current, "PREREQUISITE", queue, <<>>)
    BY <1>2 DEF ReceiveRuledOut, ReceiveDryLost, Finish
  <2>2. "PREREQUISITE" \in Result /\ Failure("PREREQUISITE")
    BY DEF Result, Failure
  <2> QED
    BY <1>1, <2>1, <2>2, ActiveFails
<1>3. ASSUME queue' = queue, current' = current, finished' = <<>>
      PROVE  UInv' /\ OutcomeStep
  <2>1. DistinctOps(queue') /\ Gens(queue') = Gens(queue)
    BY <1>3 DEF UInv
  <2>2. (Active' <=> Active) /\ current'.generation = current.generation
    BY <1>3 DEF Active
  <2> QED
    BY <1>1, <1>3, <2>1, <2>2, KeepStep
<1>4. CASE ReceiveIgnored(s) \/ ReceiveTooLate(s) \/ ReceiveStale(s) \/ ReceiveStep(s)
  <2>1. queue' = queue /\ current' = current /\ finished' = <<>>
    BY <1>4 DEF ReceiveIgnored, ReceiveTooLate, ReceiveStale, ReceiveStep
  <2> QED
    BY <1>3, <2>1
<1>5. CASE ReceiveIdle(s) \/ ReceiveDone(s)
  <2>1. \E result \in Result : /\ ~Failure(result)
                                /\ FinishWith(current, result, queue, <<>>)
    BY <1>5 DEF ReceiveIdle, ReceiveDone, Finish, Result, Failure
  <2> QED
    BY <2>1, SucceedStep
<1>6. CASE ReceiveBaseline(s)
  <2>1. \/ queue' = queue /\ current' = current /\ finished' = <<>>
        \/ FinishWith(current, "CONFIRMED", queue, <<>>)
        \/ FinishWith(current, "UNSUPPORTED", queue, <<>>)
    BY <1>6 DEF ReceiveBaseline, Finish
  <2>2. /\ "CONFIRMED" \in Result /\ ~Failure("CONFIRMED")
        /\ "UNSUPPORTED" \in Result /\ Failure("UNSUPPORTED")
    BY DEF Result, Failure
  <2> QED
    BY <1>1, <1>3, <2>1, <2>2, ActiveFails, SucceedStep
<1> QED
  BY <1>2, <1>4, <1>5, <1>6 DEF Receive

LEMMA AcceptReports ==
    ASSUME IInv, UInv, NEW r \in Requests, Admit(r) \/ Supersede(r)
    PROVE  UInv' /\ OutcomeStep
<1> DEFINE g == NextGeneration
           n == Len(queue)
<1>1. /\ queue \in Seq(Operation) /\ n \in Nat /\ DOMAIN queue = 1 .. n
      /\ nextGeneration \in 0 .. (GenerationSize - 1)
  BY LenProperties DEF IInv, TypeOK, OperationsOK
<1>2. Valid(r) /\ g \notin LiveGenerations /\ current' = current
  BY DEF Admit, Supersede, Untouched
<1>3. Entry(r) \in Operation /\ Entry(r).generation = g
  BY <1>1, <1>2, EntryType DEF Entry
<1>4. g \notin Gens(queue) /\ (Active => g # current.generation)
  BY <1>2, LiveFacts
<1>5. LiveGenerations' = Gens(queue') \cup (IF Active THEN {current.generation} ELSE {})
  BY <1>2, LiveNext DEF Active
<1> HIDE DEF g, n
<1>6. CASE Admit(r)
  <2>1. queue' = Append(queue, Entry(r)) /\ finished' = <<>>
    BY <1>6 DEF Admit
  <2>2. /\ queue' \in Seq(Operation) /\ Len(queue') = n + 1
        /\ \A i \in 1 .. n : queue'[i] = queue[i]
        /\ queue'[n + 1] = Entry(r)
    BY <1>1, <1>3, <2>1, AppendProperties DEF n
  <2>3. DOMAIN queue' = 1 .. n + 1
    BY <2>2, LenProperties
  <2>4. \A i \in DOMAIN queue' : \/ i \in DOMAIN queue /\ queue'[i] = queue[i]
                                 \/ i = n + 1 /\ queue'[i] = Entry(r)
    BY <1>1, <2>2, <2>3
  <2>5. \A i \in DOMAIN queue : i \in DOMAIN queue' /\ queue'[i] = queue[i]
    BY <1>1, <2>2, <2>3
  <2>6. Gens(queue') = Gens(queue) \cup {g}
    <3>1. n + 1 \in DOMAIN queue'
      BY <1>1, <2>3
    <3> QED
      BY <1>3, <2>2, <2>4, <2>5, <3>1 DEF Gens
  <2>7. DistinctOps(queue')
    <3>1. \A i \in DOMAIN queue : queue[i].generation # g
      BY <1>4 DEF Gens
    <3> QED
      BY <1>3, <2>4, <3>1 DEF DistinctOps, UInv
  <2>8. UInv'
    BY <1>2, <1>4, <2>6, <2>7 DEF UInv, Active
  <2>9. LiveGenerations \ LiveGenerations' = {}
    BY <1>5, <2>6, LiveFacts
  <2> QED
    BY <2>1, <2>8, <2>9, NothingNamed, NamedStep
<1>7. CASE Supersede(r)
  <2> DEFINE old == queue[n].generation
  <2>1. /\ queue # <<>> /\ queue' = [queue EXCEPT ![n] = Entry(r)]
        /\ finished' = <<Outcome(queue[n], "SUPERSEDED")>>
    BY <1>7 DEF Supersede, Replaces, n
  <2>2. n \in DOMAIN queue
    BY <1>1, <2>1, EmptySeq DEF n
  <2>3. DOMAIN queue' = DOMAIN queue
        /\ \A i \in DOMAIN queue : queue'[i] = IF i = n THEN Entry(r) ELSE queue[i]
    BY <1>1, <2>1
  <2>4. queue[n] \in Operation
    BY <1>1, <2>2, ElementOfSeq DEF n
  <2>5. old # 0 /\ old \in Gens(queue)
    BY <2>2, <2>4, NotZero DEF Gens
  <2>6. Gens(queue') = (Gens(queue) \ {old}) \cup {g}
    <3>1. \A i \in DOMAIN queue : queue[i].generation = old => i = n
      BY <2>2 DEF UInv, DistinctOps
    <3> QED
      BY <1>3, <2>2, <2>3, <3>1 DEF Gens
  <2>7. DistinctOps(queue')
    <3>1. \A i \in DOMAIN queue : queue[i].generation # g
      BY <1>4 DEF Gens
    <3> QED
      BY <1>3, <2>3, <3>1 DEF DistinctOps, UInv
  <2>8. UInv'
    BY <1>2, <1>4, <2>6, <2>7 DEF UInv, Active
  <2>9. LiveGenerations \ LiveGenerations' = {old}
    BY <1>4, <1>5, <2>5, <2>6, LiveFacts DEF UInv
  <2>10. Named(finished') = {old} /\ Distinct(finished')
    <3>1. \A c : DOMAIN <<c>> = {1} /\ <<c>>[1] = c
      OBVIOUS
    <3> QED
      BY <2>1, <2>5, <3>1 DEF Named, Distinct, Outcome
  <2> QED
    BY <2>8, <2>9, <2>10, NamedStep
<1> QED
  BY <1>6, <1>7

LEMMA CallReports ==
    ASSUME IInv, UInv, Advance \/ RequestPoll \/ \E r \in Requests : Enqueue(r)
    PROVE  UInv' /\ OutcomeStep
<1>1. /\ queue \in Seq(Operation) /\ current \in Operation \cup {NoOperation}
      /\ Split(<<>>, queue) /\ Outcomes(<<>>, "EXPIRED") = <<>>
  BY CallSplits DEF IInv, TypeOK, OperationsOK
<1>2. CASE Advance
  <2>1. /\ queue' = [i \in DOMAIN queue |-> Aged(queue[i])] /\ finished' = <<>>
        /\ current' = IF Active THEN Aged(current) ELSE current
    BY <1>2 DEF Advance
  <2>2. \A i \in DOMAIN queue : queue'[i].generation = queue[i].generation
    BY <1>1, <2>1, LenProperties, ElementOfSeq, AgedType
  <2>3. DistinctOps(queue') /\ Gens(queue') = Gens(queue)
    BY <2>1, <2>2 DEF DistinctOps, Gens, UInv
  <2>4. (Active' <=> Active) /\ (Active => current'.generation = current.generation)
    BY <1>1, <2>1, AgedType, EnvironmentFacts DEF Active
  <2> QED
    BY <1>1, <2>1, <2>3, <2>4, KeepStep
<1>3. CASE RequestPoll \/ \E r \in Requests : Reject(r)
  <2>1. queue' = queue /\ current' = current /\ finished' = <<>>
    BY <1>3 DEF RequestPoll, Reject, Untouched
  <2>2. DistinctOps(queue') /\ Gens(queue') = Gens(queue)
    BY <2>1 DEF UInv
  <2>3. (Active' <=> Active) /\ current'.generation = current.generation
    BY <2>1 DEF Active
  <2> QED
    BY <1>1, <2>1, <2>2, <2>3, KeepStep
<1> QED
  BY <1>2, <1>3, AcceptReports DEF Enqueue

LEMMA NextReports ==
    ASSUME IInv, UInv, [Next]_vars
    PROVE  UInv' /\ [OutcomeStep]_vars
<1>1. CASE UNCHANGED vars
  BY <1>1 DEF vars, UInv, Active
<1> QED
  BY <1>1, TickReports, ReceiveReports, CallReports DEF Next

\* The generations reported in a step are those that stop being live in it,
\* each once: no operation is lost, reported twice, or served after its report.
THEOREM OneOutcomeEach == Spec => OneOutcome
<1>1. Init => IInv /\ UInv
  <2>1. Init => UInv
    <3>1. DOMAIN <<>> = {}
      OBVIOUS
    <3> QED
      BY <3>1 DEF Init, UInv, DistinctOps, Active
  <2> QED
    BY <2>1, InitIInv
<1>2. (IInv /\ UInv) /\ [Next]_vars => (IInv /\ UInv)'
  BY NextKeepsIInv, NextReports
<1>3. (IInv /\ UInv) /\ [Next]_vars => [OutcomeStep]_vars
  BY NextReports
<1> QED
  BY <1>1, <1>2, <1>3, PTL DEF Spec, OneOutcome, OutcomeStep

-----------------------------------------------------------------------------
(***************************************************************************)
(* The engine serves as OperationService describes: its initial states are *)
(* initial states of the service, and every step of it is a step of the    *)
(* service or stutters.  The refinement mapping:                           *)
(***************************************************************************)
Mapped(q) == [i \in DOMAIN q |-> q[i].generation]
Serving   == IF Active THEN current.generation ELSE 0

\* The transitions of the service in terms of the mapping, where k operations
\* lapse of the queue, rest is left of it and the step reports `events`.
LEMMA ServiceStutter ==
    ASSUME Mapped(queue)' = Mapped(queue), Serving' = Serving, finished' = finished
    PROVE  UNCHANGED Service!serviceVars
BY DEF Service!serviceVars, Mapped, Serving, Active

LEMMA MappedFacts ==
    ASSUME NEW q \in Seq(Operation)
    PROVE  /\ Mapped(q) \in Seq(Generation) /\ Len(Mapped(q)) = Len(q)
           /\ \A i \in 1 .. Len(q) : Mapped(q)[i] = q[i].generation
<1>1. Len(q) \in Nat /\ DOMAIN q = 1 .. Len(q)
  BY LenProperties
<1>2. \A i \in 1 .. Len(q) : q[i].generation \in Generation
  <2>1. \A i \in 1 .. Len(q) : q[i] \in Operation
    BY ElementOfSeq
  <2> QED
    BY <2>1 DEF Operation
<1>3. Mapped(q) \in [1 .. Len(q) -> Generation]
  BY <1>1, <1>2 DEF Mapped
<1> QED
  BY <1>1, <1>3, FunctionIsSeq DEF Mapped

\* Parts of the queue are mapped part by part.
LEMMA MappedPart ==
    ASSUME NEW q \in Seq(Operation), NEW m \in Nat \ {0}, NEW n \in Nat, n <= Len(q)
    PROVE  /\ SubSeq(q, m, n) \in Seq(Operation)
           /\ SubSeq(Mapped(q), m, n) = Mapped(SubSeq(q, m, n))
<1> DEFINE p == SubSeq(q, m, n)
           x == SubSeq(Mapped(q), m, n)
<1>1. /\ Mapped(q) \in Seq(Generation) /\ Len(Mapped(q)) = Len(q) /\ Len(q) \in Nat
      /\ \A i \in 1 .. Len(q) : Mapped(q)[i] = q[i].generation
  BY MappedFacts, LenProperties
<1>2. \A i \in m .. n : i \in 1 .. Len(q) /\ q[i] \in Operation
                                          /\ Mapped(q)[i] \in Generation
  BY <1>1, ElementOfSeq
<1>3. /\ p \in Seq(Operation)
      /\ Len(p) = IF m <= n THEN n - m + 1 ELSE 0
      /\ \A i \in 1 .. n - m + 1 : p[i] = q[m + i - 1]
  BY <1>2, SubSeqProperties
<1>4. /\ x \in Seq(Generation)
      /\ Len(x) = IF m <= n THEN n - m + 1 ELSE 0
      /\ \A i \in 1 .. n - m + 1 : x[i] = Mapped(q)[m + i - 1]
  BY <1>2, SubSeqProperties
<1> HIDE DEF p, x
<1>5. /\ Mapped(p) \in Seq(Generation) /\ Len(Mapped(p)) = Len(p)
      /\ \A i \in 1 .. Len(p) : Mapped(p)[i] = p[i].generation
  BY <1>3, MappedFacts
<1>6. ASSUME NEW i \in 1 .. Len(p) PROVE x[i] = Mapped(p)[i]
  <2>1. i \in 1 .. n - m + 1 /\ m + i - 1 \in m .. n
    BY <1>3
  <2>2. m + i - 1 \in 1 .. Len(q)
    BY <1>2, <2>1
  <2> QED
    BY <1>1, <1>3, <1>4, <1>5, <2>1, <2>2
<1>7. Len(x) = Len(Mapped(p))
  BY <1>3, <1>4, <1>5
<1>8. x = Mapped(p)
  BY <1>4, <1>5, <1>6, <1>7, SeqEqual
<1> QED
  BY <1>3, <1>8 DEF p, x

LEMMA MappedReports ==
    ASSUME NEW q \in Seq(Operation), NEW result
    PROVE  Service!AllReported(Mapped(q), result) = Outcomes(q, result)
<1>1. DOMAIN Mapped(q) = DOMAIN q
  BY DEF Mapped
<1>2. \A i \in DOMAIN q : Mapped(q)[i] = q[i].generation
  BY DEF Mapped
<1> QED
  BY <1>1, <1>2 DEF Service!AllReported, Service!Reported, Outcomes, Outcome

(***************************************************************************)
(* The steps of the service.  After the k oldest of the queue lapsed,      *)
(* `rest` is left and `events` are what was reported of them.              *)
(***************************************************************************)
Lapsing(k, rest, events) ==
    /\ k \in 0 .. Len(queue)
    /\ rest \in Seq(Operation)
    /\ Service!Left(k) = Mapped(rest)
    /\ Service!GivenUp(k) = events

LEMMA PartsLapse ==
    ASSUME queue \in Seq(Operation), NEW k \in 0 .. Len(queue)
    PROVE  Lapsing(k, SubSeq(queue, 1 + k, Len(queue)),
                   Outcomes(SubSeq(queue, 1, k), "EXPIRED"))
<1> DEFINE rest == SubSeq(queue, 1 + k, Len(queue))
           gone == SubSeq(queue, 1, k)
<1>1. Len(queue) \in Nat /\ Len(Mapped(queue)) = Len(queue)
  BY LenProperties, MappedFacts
<1>2. /\ 1 + k \in Nat \ {0} /\ 1 \in Nat \ {0} /\ k \in Nat
      /\ Len(queue) <= Len(queue) /\ k <= Len(queue)
  BY <1>1
<1>3. /\ rest \in Seq(Operation) /\ gone \in Seq(Operation)
      /\ SubSeq(Mapped(queue), 1 + k, Len(queue)) = Mapped(rest)
      /\ SubSeq(Mapped(queue), 1, k) = Mapped(gone)
  BY <1>1, <1>2, MappedPart
<1> HIDE DEF rest, gone
<1>4. [i \in DOMAIN queue |-> queue[i].generation] = Mapped(queue)
  BY DEF Mapped
<1>5. Service!Left(k) = SubSeq(Mapped(queue), 1 + k, Len(Mapped(queue)))
  BY <1>4 DEF Service!Left
<1>6. Service!GivenUp(k) = Service!AllReported(SubSeq(Mapped(queue), 1, k), "EXPIRED")
  BY <1>4 DEF Service!GivenUp
<1>7. Service!AllReported(Mapped(gone), "EXPIRED") = Outcomes(gone, "EXPIRED")
  BY <1>3, MappedReports
<1>8. Lapsing(k, rest, Outcomes(gone, "EXPIRED"))
  BY <1>1, <1>3, <1>5, <1>6, <1>7 DEF Lapsing
<1> QED
  BY <1>8 DEF rest, gone

LEMMA TickLapses == ASSUME IInv PROVE Lapsing(Cardinality(Lapsed), Waiting, Lapses)
<1>1. queue \in Seq(Operation)
  BY DEF IInv, TypeOK, OperationsOK
<1>2. Cardinality(Lapsed) \in 0 .. Len(queue)
  BY <1>1, ExpirySplits
<1> QED
  BY <1>1, <1>2, PartsLapse DEF Waiting, Lapses

LEMMA CallLapses == ASSUME IInv PROVE Lapsing(0, queue, <<>>)
<1>1. queue \in Seq(Operation) /\ Len(queue) \in Nat
  BY LenProperties DEF IInv, TypeOK, OperationsOK
<1>2. Lapsing(0, SubSeq(queue, 1 + 0, Len(queue)),
              Outcomes(SubSeq(queue, 1, 0), "EXPIRED"))
  BY <1>1, PartsLapse
<1>3. SubSeq(queue, 1 + 0, Len(queue)) = queue
  BY <1>1, SubSeqFull
<1>4. SubSeq(queue, 1, 0) = <<>>
  BY SubSeqEmpty
<1>5. Outcomes(<<>>, "EXPIRED") = <<>>
  <2>1. <<>> \in Seq(Operation) /\ Len(<<>>) = 0 /\ "EXPIRED" \in Result
    BY EmptySeq DEF Result
  <2>2. Outcomes(<<>>, "EXPIRED") \in Seq(Callback)
        /\ Len(Outcomes(<<>>, "EXPIRED")) = 0
    BY <2>1, OutcomesType
  <2> QED
    BY <2>2, EmptySeq
<1> QED
  BY <1>2, <1>3, <1>4, <1>5

LEMMA LapseRange ==
    ASSUME queue \in Seq(Operation), NEW k, NEW rest, NEW events,
           Lapsing(k, rest, events)
    PROVE  k \in 0 .. Len([i \in DOMAIN queue |-> queue[i].generation])
<1>1. [i \in DOMAIN queue |-> queue[i].generation] = Mapped(queue)
  BY DEF Mapped
<1>2. Len(Mapped(queue)) = Len(queue)
  BY MappedFacts
<1> QED
  BY <1>1, <1>2 DEF Lapsing

LEMMA KeepMaps ==
    ASSUME queue \in Seq(Operation), NEW k, NEW rest, NEW events,
           Lapsing(k, rest, events),
           Mapped(queue)' = Mapped(rest), Serving' = Serving, finished' = events
    PROVE  Service!ServiceNext
<1>1. Service!Keep(k)
  BY DEF Service!Keep, Lapsing, Mapped, Serving, Active
<1>2. k \in 0 .. Len([i \in DOMAIN queue |-> queue[i].generation])
  BY LapseRange
<1> QED
  BY <1>1, <1>2 DEF Service!ServiceNext

LEMMA HeadMapped ==
    ASSUME NEW q \in Seq(Operation), q # <<>>
    PROVE  /\ Head(q) \in Operation /\ Tail(q) \in Seq(Operation)
           /\ Mapped(q) # <<>>
           /\ Head(Mapped(q)) = Head(q).generation
           /\ Tail(Mapped(q)) = Mapped(Tail(q))
<1>1. /\ Len(q) \in Nat \ {0} /\ Head(q) \in Operation /\ Tail(q) \in Seq(Operation)
  BY LenProperties, EmptySeq, HeadTailProperties
<1>2. /\ Mapped(q) \in Seq(Generation) /\ Len(Mapped(q)) = Len(q)
      /\ Mapped(q)[1] = q[1].generation
  BY <1>1, MappedFacts
<1>3. Mapped(q) # <<>>
  BY <1>1, <1>2, EmptySeq
<1>4. Head(Mapped(q)) = Mapped(q)[1] /\ Head(q) = q[1]
  BY <1>2
<1>5. /\ Tail(Mapped(q)) = SubSeq(Mapped(q), 2, Len(Mapped(q)))
      /\ Tail(q) = SubSeq(q, 2, Len(q))
  BY <1>2, <1>3, TailIsSubSeq
<1>6. SubSeq(Mapped(q), 2, Len(q)) = Mapped(SubSeq(q, 2, Len(q)))
  <2>1. 2 \in Nat \ {0} /\ Len(q) <= Len(q)
    BY <1>1
  <2> QED
    BY <1>1, <2>1, MappedPart
<1> QED
  BY <1>1, <1>2, <1>3, <1>4, <1>5, <1>6

LEMMA StartMaps ==
    ASSUME queue \in Seq(Operation), NEW k, NEW rest, NEW events,
           Lapsing(k, rest, events), rest # <<>>, Serving = 0,
           queue' = Tail(rest), Serving' = Head(rest).generation,
           finished' = events
    PROVE  Service!ServiceNext
<1>1. /\ Mapped(rest) # <<>> /\ Head(Mapped(rest)) = Head(rest).generation
      /\ Tail(Mapped(rest)) = Mapped(Tail(rest))
  BY HeadMapped DEF Lapsing
<1>2. Service!Left(k) = Mapped(rest) /\ Service!GivenUp(k) = events
  BY DEF Lapsing
<1>3. Mapped(queue') = Tail(Mapped(rest))
  BY <1>1
<1>4. Service!Start(k)
  BY <1>1, <1>2, <1>3 DEF Service!Start, Mapped, Serving, Active
<1> QED
  BY <1>4, LapseRange DEF Service!ServiceNext

LEMMA MappedEmpty == Mapped(<<>>) = <<>>
<1>1. <<>> \in Seq(Operation) /\ Len(<<>>) = 0
  BY EmptySeq
<1>2. Mapped(<<>>) \in Seq(Generation) /\ Len(Mapped(<<>>)) = 0
  BY <1>1, MappedFacts
<1> QED
  BY <1>2, EmptySeq

LEMMA FailMaps ==
    ASSUME queue \in Seq(Operation), NEW k, NEW rest, NEW events,
           Lapsing(k, rest, events), NEW result \in Service!Failing,
           \/ FinishWith(current, result, rest, events)
           \/ /\ ~Active /\ rest # <<>>
              /\ FinishWith(Head(rest), result, Tail(rest), events)
    PROVE  Service!ServiceNext
<1>1. Failure(result)
  BY DEF Service!Failing, Failure
<1>2. Service!Left(k) = Mapped(rest) /\ Service!GivenUp(k) = events
      /\ rest \in Seq(Operation)
  BY DEF Lapsing
<1>3. /\ [i \in DOMAIN queue' |-> queue'[i].generation] = <<>>
      /\ Serving' = 0
  BY <1>1, MappedEmpty DEF FinishWith, Mapped, Serving, Active
<1>4. CASE FinishWith(current, result, rest, events)
  <2>1. Verdict(current, result) = <<Service!Reported(Serving, result)>>
    BY <1>1 DEF Verdict, When, Outcome, Service!Reported, Serving, Active
  <2>2. finished' = events \o Verdict(current, result) \o Outcomes(rest, "CANCELLED")
    BY <1>1, <1>4 DEF FinishWith
  <2>3. Outcomes(rest, "CANCELLED") = Service!AllReported(Service!Left(k), "CANCELLED")
    BY <1>2, MappedReports
  <2>4. Service!FailWith(Serving, k, Service!Left(k))
    BY <1>2, <1>3, <2>1, <2>2, <2>3 DEF Service!FailWith, Serving, Active
  <2>5. Service!Fail(k)
    BY <2>4 DEF Service!Fail, Serving, Active
  <2> QED
    BY <2>5, LapseRange DEF Service!ServiceNext
<1>5. CASE ~Active /\ rest # <<>> /\ FinishWith(Head(rest), result, Tail(rest), events)
  <2>1. /\ Mapped(rest) # <<>> /\ Head(Mapped(rest)) = Head(rest).generation
        /\ Tail(Mapped(rest)) = Mapped(Tail(rest))
        /\ Head(rest) \in Operation /\ Tail(rest) \in Seq(Operation)
    BY <1>2, <1>5, HeadMapped
  <2>2. Head(rest) # NoOperation
    BY <2>1, ConstantFacts, EnvironmentFacts
  <2>3. Verdict(Head(rest), result) = <<Service!Reported(Head(Mapped(rest)), result)>>
    BY <2>1, <2>2 DEF Verdict, Outcome, Service!Reported
  <2>4. finished' = events \o Verdict(Head(rest), result)
                           \o Outcomes(Tail(rest), "CANCELLED")
    BY <1>1, <1>5 DEF FinishWith
  <2>5. Outcomes(Tail(rest), "CANCELLED")
           = Service!AllReported(Tail(Mapped(rest)), "CANCELLED")
    BY <2>1, MappedReports
  <2>6. Service!FailWith(Head(Service!Left(k)), k, Tail(Service!Left(k)))
    BY <1>2, <1>3, <2>3, <2>4, <2>5 DEF Service!FailWith, Serving, Active
  <2>7. Service!Fail(k)
    BY <1>2, <1>5, <2>1, <2>6 DEF Service!Fail, Active
  <2> QED
    BY <2>7, LapseRange DEF Service!ServiceNext
<1> QED
  BY <1>4, <1>5

LEMMA SucceedMaps ==
    ASSUME queue \in Seq(Operation), current \in Operation \cup {NoOperation},
           NEW k, NEW rest, NEW events,
           Lapsing(k, rest, events), events \in Seq(Callback),
           NEW result \in Service!Succeeding,
           ~Active => result = "CONFIRMED",
           FinishWith(current, result, rest, events)
    PROVE  Service!ServiceNext
<1>1. ~Failure(result)
  BY DEF Service!Succeeding, Failure
<1>2. Service!Left(k) = Mapped(rest) /\ Service!GivenUp(k) = events
  BY DEF Lapsing
<1>3. queue' = rest /\ Serving' = 0 /\ finished' = events \o Verdict(current, result)
  BY <1>1 DEF FinishWith, Serving, Active
<1>4. Verdict(current, result) =
         IF Serving = 0 THEN <<>> ELSE <<Service!Reported(Serving, result)>>
  <2>1. CASE Active
    <3>1. current.generation # 0
      BY <2>1, ConstantFacts DEF Active, Operation, Generation
    <3> QED
      BY <2>1, <3>1 DEF Verdict, Outcome, Service!Reported, Serving, Active
  <2>2. CASE ~Active
    BY <1>1, <2>2 DEF Verdict, When, Serving, Active
  <2> QED
    BY <2>1, <2>2
<1>5. Service!Succeed(k)
  BY <1>2, <1>3, <1>4 DEF Service!Succeed, Mapped, Serving, Active
<1> QED
  BY <1>5, LapseRange DEF Service!ServiceNext

(***************************************************************************)
(* Acceptance.                                                             *)
(***************************************************************************)
LEMMA OpenGenerations ==
    ASSUME IInv
    PROVE  Service!Open \subseteq LiveGenerations \cup {0}
<1>1. \A i \in DOMAIN queue :
         [j \in DOMAIN queue |-> queue[j].generation][i] = queue[i].generation
  OBVIOUS
<1> QED
  BY <1>1 DEF Service!Open, LiveGenerations, Active

LEMMA AcceptStep ==
    ASSUME IInv, NEW r \in Requests, Admit(r) \/ Supersede(r)
    PROVE  Service!ServiceNext
<1> DEFINE waiting == [i \in DOMAIN queue |-> queue[i].generation]
<1>1. /\ queue \in Seq(Operation) /\ Len(queue) \in Nat /\ DOMAIN queue = 1 .. Len(queue)
      /\ nextGeneration \in 0 .. (GenerationSize - 1)
  BY LenProperties DEF IInv, TypeOK, OperationsOK
<1>2. Valid(r) /\ NextGeneration \notin LiveGenerations /\ Untouched
  BY DEF Admit, Supersede
<1>0. PICK g \in Generation : g = NextGeneration
  BY <1>1, <1>2, EntryType
<1>3. Entry(r) \in Operation /\ Entry(r).generation = g
  BY <1>0, <1>1, <1>2, EntryType DEF Entry
<1>4. g \in Generation \ Service!Open
  <2>1. g # 0
    BY ConstantFacts DEF Generation
  <2> QED
    BY <1>0, <1>2, <2>1, OpenGenerations
<1>5. waiting = Mapped(queue) /\ waiting \in Seq(Generation) /\ Len(waiting) = Len(queue)
      /\ \A i \in 1 .. Len(queue) : waiting[i] = queue[i].generation
  BY <1>1, MappedFacts DEF Mapped
<1> HIDE DEF waiting
<1>6. Serving' = Serving
  BY <1>2 DEF Untouched, Serving, Active
<1>7. CASE Admit(r)
  <2>1. queue' = Append(queue, Entry(r)) /\ finished' = <<>>
    BY <1>7 DEF Admit
  <2>2. /\ queue' \in Seq(Operation) /\ Len(queue') = Len(queue) + 1
        /\ \A i \in 1 .. Len(queue) : queue'[i] = queue[i]
        /\ queue'[Len(queue) + 1] = Entry(r)
    BY <1>1, <1>3, <2>1, AppendProperties
  <2>3. /\ Mapped(queue') \in Seq(Generation) /\ Len(Mapped(queue')) = Len(queue')
        /\ \A i \in 1 .. Len(queue') : Mapped(queue')[i] = queue'[i].generation
    BY <2>2, MappedFacts
  <2>4. /\ Append(waiting, g) \in Seq(Generation)
        /\ Len(Append(waiting, g)) = Len(queue) + 1
        /\ \A i \in 1 .. Len(queue) : Append(waiting, g)[i] = waiting[i]
        /\ Append(waiting, g)[Len(queue) + 1] = g
    BY <1>3, <1>5, AppendProperties
  <2>5. \A i \in 1 .. Len(queue) + 1 : Mapped(queue')[i] = Append(waiting, g)[i]
    <3> SUFFICES ASSUME NEW i \in 1 .. Len(queue) + 1
                 PROVE  Mapped(queue')[i] = Append(waiting, g)[i]
      OBVIOUS
    <3>1. CASE i = Len(queue) + 1
      BY <1>1, <1>3, <2>2, <2>3, <2>4, <3>1
    <3>2. CASE i # Len(queue) + 1
      <4>1. i \in 1 .. Len(queue) /\ i \in 1 .. Len(queue')
        BY <1>1, <2>2, <3>2
      <4> QED
        BY <1>5, <2>2, <2>3, <2>4, <4>1
    <3> QED
      BY <3>1, <3>2
  <2>6. Mapped(queue') = Append(waiting, g)
    BY <2>2, <2>3, <2>4, <2>5, SeqEqual
  <2>7. Service!Accept(g)
    BY <1>4, <1>6, <2>1, <2>6 DEF Service!Accept, Mapped, Serving, Active, waiting
  <2> QED
    BY <1>3, <2>7 DEF Service!ServiceNext
<1>8. CASE Supersede(r)
  <2> DEFINE n == Len(queue)
  <2>1. /\ queue # <<>>
        /\ queue' = [queue EXCEPT ![n] = Entry(r)]
        /\ finished' = <<Outcome(queue[n], "SUPERSEDED")>>
    BY <1>8 DEF Supersede, Replaces
  <2>2. n \in 1 .. Len(queue) /\ n \in Nat \ {0}
    BY <1>1, <2>1, EmptySeq
  <2>3. waiting # <<>>
    BY <1>5, <2>2, EmptySeq
  <2>4. DOMAIN queue' = DOMAIN queue
        /\ \A i \in DOMAIN queue : queue'[i] = IF i = n THEN Entry(r) ELSE queue[i]
    BY <1>1, <2>1
  <2>5. DOMAIN waiting = DOMAIN queue
    BY DEF waiting
  <2>6. Mapped(queue') = [waiting EXCEPT ![Len(waiting)] = g]
    BY <1>3, <1>5, <2>2, <2>4, <2>5 DEF Mapped, waiting
  <2>7. finished' = <<Service!Reported(waiting[Len(waiting)], "SUPERSEDED")>>
    BY <1>5, <2>1, <2>2 DEF Service!Reported, Outcome
  <2>8. Service!Accept(g)
    BY <1>4, <1>6, <2>3, <2>6, <2>7 DEF Service!Accept, Mapped, Serving, Active, waiting
  <2> QED
    BY <1>3, <2>8 DEF Service!ServiceNext
<1> QED
  BY <1>7, <1>8

(***************************************************************************)
(* The steps of the engine.                                                *)
(***************************************************************************)
LEMMA CallServes ==
    ASSUME IInv, Advance \/ RequestPoll \/ \E r \in Requests : Enqueue(r)
    PROVE  Service!ServiceNext
<1>1. /\ queue \in Seq(Operation) /\ current \in Operation \cup {NoOperation}
      /\ Lapsing(0, queue, <<>>)
  BY CallLapses DEF IInv, TypeOK, OperationsOK
<1>2. CASE Advance
  <2>1. queue' = [i \in DOMAIN queue |-> Aged(queue[i])] /\ finished' = <<>>
        /\ current' = IF Active THEN Aged(current) ELSE current
    BY <1>2 DEF Advance
  <2>2. Mapped(queue') = Mapped(queue)
    <3>1. \A i \in DOMAIN queue : queue[i] \in Operation
      BY <1>1, LenProperties, ElementOfSeq
    <3> QED
      BY <2>1, <3>1, AgedType DEF Mapped
  <2>3. Serving' = Serving
    BY <1>1, <2>1, AgedType, EnvironmentFacts DEF Serving, Active
  <2> QED
    BY <1>1, <2>1, <2>2, <2>3, KeepMaps
<1>3. CASE RequestPoll \/ \E r \in Requests : Reject(r)
  <2>1. queue' = queue /\ current' = current /\ finished' = <<>>
    BY <1>3 DEF RequestPoll, Reject, Untouched
  <2>2. Mapped(queue)' = Mapped(queue) /\ Serving' = Serving
    BY <2>1 DEF Serving, Active
  <2> QED
    BY <1>1, <2>1, <2>2, KeepMaps
<1> QED
  BY <1>2, <1>3, AcceptStep DEF Enqueue

LEMMA PollMaps ==
    ASSUME IInv, NEW baseline, PollWith(current, baseline, Waiting, Lapses)
    PROVE  Service!ServiceNext
<1>1. queue \in Seq(Operation) /\ Lapsing(Cardinality(Lapsed), Waiting, Lapses)
  BY TickLapses DEF IInv, TypeOK, OperationsOK
<1>2. CASE FinishWith(current, "WRITE_FAILED", Waiting, Lapses)
  BY <1>1, <1>2, FailMaps DEF Service!Failing
<1>3. CASE current' = current /\ queue' = Waiting /\ finished' = Lapses
  <2>1. Mapped(queue)' = Mapped(Waiting) /\ Serving' = Serving
    BY <1>3 DEF Serving, Active
  <2> QED
    BY <1>1, <1>3, <2>1, KeepMaps
<1> QED
  BY <1>2, <1>3 DEF PollWith

LEMMA StartServes == ASSUME IInv, TickIdleStart PROVE Service!ServiceNext
<1>1. /\ queue \in Seq(Operation) /\ Lapsing(Cardinality(Lapsed), Waiting, Lapses)
      /\ Waiting \in Seq(Operation)
  BY TickLapses, WaitingFacts DEF IInv, TypeOK, OperationsOK
<1>2. /\ phase = "IDLE" /\ Waiting # <<>>
      /\ PollWith(Head(Waiting), TRUE, Tail(Waiting), Lapses)
  BY DEF TickIdleStart, TickIn
<1>3. ~Active /\ Serving = 0
  BY <1>2 DEF IInv, SettersSentOnce, Exchange, Serving
<1>4. CASE FinishWith(Head(Waiting), "WRITE_FAILED", Tail(Waiting), Lapses)
  BY <1>1, <1>2, <1>3, <1>4, FailMaps DEF Service!Failing
<1>5. CASE current' = Head(Waiting) /\ queue' = Tail(Waiting) /\ finished' = Lapses
  <2>1. Head(Waiting) \in Operation /\ Head(Waiting) # NoOperation
    BY <1>1, <1>2, HeadTailProperties, EnvironmentFacts
  <2>2. Serving' = Head(Waiting).generation
    BY <1>5, <2>1 DEF Serving, Active
  <2> QED
    BY <1>1, <1>2, <1>3, <1>5, <2>2, StartMaps
<1> QED
  BY <1>2, <1>4, <1>5 DEF PollWith

LEMMA TickMaps == ASSUME IInv, TickSteps PROVE Service!ServiceNext
<1>1. queue \in Seq(Operation) /\ Lapsing(Cardinality(Lapsed), Waiting, Lapses)
  BY TickLapses DEF IInv, TypeOK, OperationsOK
<1>2. CASE TickExpired \/ TickBlocked \/ TickTimeout
  <2>1. \E result \in Service!Failing : FinishWith(current, result, Waiting, Lapses)
    BY <1>2 DEF TickExpired, TickBlocked, TickTimeout, Finish, Service!Failing
  <2> QED
    BY <1>1, <2>1, FailMaps
<1>3. CASE TickWaits \/ TickDrained
  <2>1. queue' = Waiting /\ finished' = Lapses /\ current' = current
    BY <1>3 DEF TickWaits, TickDrained, Quietly
  <2>2. Mapped(queue)' = Mapped(Waiting) /\ Serving' = Serving
    BY <2>1 DEF Serving, Active
  <2> QED
    BY <1>1, <2>1, <2>2, KeepMaps
<1>4. CASE TickIdlePoll \/ TickSettled \/ TickReread \/ TickRecovery
  <2>1. \E baseline : PollWith(current, baseline, Waiting, Lapses)
    BY <1>4 DEF TickIdlePoll, TickSettled, TickReread, TickRecovery, Poll
  <2> QED
    BY <2>1, PollMaps
<1>5. CASE TickIdleStart
  BY <1>5, StartServes
<1>6. CASE TickSend
  <2>1. \/ current' = current /\ queue' = Waiting /\ finished' = Lapses
        \/ FinishWith(current, "WRITE_FAILED", Waiting, Lapses)
    BY <1>6 DEF TickSend, Finish
  <2>2. CASE current' = current /\ queue' = Waiting /\ finished' = Lapses
    <3>1. Mapped(queue)' = Mapped(Waiting) /\ Serving' = Serving
      BY <2>2 DEF Serving, Active
    <3> QED
      BY <1>1, <2>2, <3>1, KeepMaps
  <2>3. CASE FinishWith(current, "WRITE_FAILED", Waiting, Lapses)
    BY <1>1, <2>3, FailMaps DEF Service!Failing
  <2> QED
    BY <2>1, <2>2, <2>3
<1> QED
  BY <1>2, <1>3, <1>4, <1>5, <1>6 DEF TickSteps

LEMMA ReceiveMaps ==
    ASSUME IInv, NEW s, Receive(s)
    PROVE  Service!ServiceNext
<1>1. /\ queue \in Seq(Operation) /\ current \in Operation \cup {NoOperation}
      /\ Lapsing(0, queue, <<>>) /\ <<>> \in Seq(Callback)
  BY CallLapses, EmptySeq DEF IInv, TypeOK, OperationsOK
<1>2. ASSUME queue' = queue, current' = current, finished' = <<>>
      PROVE  Service!ServiceNext
  <2>1. Mapped(queue)' = Mapped(queue) /\ Serving' = Serving
    BY <1>2 DEF Serving, Active
  <2> QED
    BY <1>1, <1>2, <2>1, KeepMaps
<1>3. ASSUME NEW result \in Service!Failing, Finish(result, queue, <<>>)
      PROVE  Service!ServiceNext
  BY <1>1, <1>3, FailMaps DEF Finish
<1>4. ASSUME NEW result \in Service!Succeeding, Finish(result, queue, <<>>),
             Active \/ result = "CONFIRMED"
      PROVE  Service!ServiceNext
  BY <1>1, <1>4, SucceedMaps DEF Finish
<1>5. CASE ReceiveIgnored(s) \/ ReceiveTooLate(s) \/ ReceiveStale(s) \/ ReceiveStep(s)
  <2>1. queue' = queue /\ current' = current /\ finished' = <<>>
    BY <1>5 DEF ReceiveIgnored, ReceiveTooLate, ReceiveStale, ReceiveStep
  <2> QED
    BY <1>2, <2>1
<1>6. CASE ReceiveRuledOut(s) \/ ReceiveDryLost(s)
  <2>1. Finish("PREREQUISITE", queue, <<>>)
    BY <1>6 DEF ReceiveRuledOut, ReceiveDryLost
  <2> QED
    BY <1>3, <2>1 DEF Service!Failing
<1>7. CASE ReceiveIdle(s)
  <2>1. Finish("CONFIRMED", queue, <<>>)
    BY <1>7 DEF ReceiveIdle
  <2> QED
    BY <1>4, <2>1 DEF Service!Succeeding
<1>8. CASE ReceiveDone(s)
  <2>1. Active /\ \E result \in Service!Succeeding : Finish(result, queue, <<>>)
    BY <1>8 DEF ReceiveDone, Confirming, Answers, Service!Succeeding
  <2> QED
    BY <1>4, <2>1
<1>9. CASE ReceiveBaseline(s)
  <2>1. /\ Active
        /\ \/ queue' = queue /\ current' = current /\ finished' = <<>>
           \/ Finish("CONFIRMED", queue, <<>>)
           \/ Finish("UNSUPPORTED", queue, <<>>)
    BY <1>9 DEF ReceiveBaseline, Answers
  <2> QED
    BY <1>2, <1>3, <1>4, <2>1 DEF Service!Succeeding, Service!Failing
<1> QED
  BY <1>5, <1>6, <1>7, <1>8, <1>9 DEF Receive

LEMMA NextServes ==
    ASSUME IInv, [Next]_vars
    PROVE  [Service!ServiceNext]_(Service!serviceVars)
<1>1. CASE UNCHANGED vars
  <2>1. queue' = queue /\ current' = current /\ finished' = finished
    BY <1>1 DEF vars, outputs
  <2>2. Mapped(queue)' = Mapped(queue) /\ Serving' = Serving
    BY <2>1 DEF Serving, Active
  <2> QED
    BY <2>1, <2>2, ServiceStutter
<1> QED
  BY <1>1, CallServes, TickMaps, ReceiveMaps DEF Next

LEMMA InitServes == Init => Service!ServiceInit
<1>1. Init => [i \in DOMAIN queue |-> queue[i].generation] = <<>>
  BY MappedEmpty DEF Init, Mapped
<1> QED
  BY <1>1 DEF Init, Service!ServiceInit, Active

\* The engine promises no less than OperationService: one operation at a time,
\* in the order of acceptance, each with exactly one outcome, and a failure
\* gives up all that was accepted before it.
THEOREM EngineServes == Spec => ImplementsService
<1>1. Init => IInv
  BY InitIInv
<1>2. IInv /\ [Next]_vars => IInv'
  BY NextKeepsIInv
<1>3. IInv /\ [Next]_vars => [Service!ServiceNext]_(Service!serviceVars)
  BY NextServes
<1> QED
  BY <1>1, <1>2, <1>3, InitServes, PTL DEF Spec, ImplementsService, Service!ServiceSpec
=============================================================================
