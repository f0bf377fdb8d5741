-------------------------- MODULE OperationService --------------------------
(***************************************************************************)
(* What the engine promises the component, without phases, polls or time:  *)
(* operations are served one at a time in the order they were accepted,    *)
(* each ends in exactly one outcome, and whatever was accepted before a    *)
(* failure and not served yet is given up with it.                         *)
(***************************************************************************)
EXTENDS Integers, Sequences

CONSTANT Generations    \* the identities of operations, 0 not being one

VARIABLES
    waiting,    \* accepted and not started, oldest first
    serving,    \* the operation being served, or 0
    outcomes    \* what the last step reported, in order

serviceVars == <<waiting, serving, outcomes>>

Succeeding == {"CONFIRMED", "UNVERIFIED"}
Failing    == {"TIMEOUT", "EXPIRED", "UNSUPPORTED", "PREREQUISITE", "WRITE_FAILED"}

Reported(g, result) == [generation |-> g, result |-> result]
AllReported(gs, result) == [i \in DOMAIN gs |-> Reported(gs[i], result)]

ServiceInit == waiting = <<>> /\ serving = 0 /\ outcomes = <<>>

Open == {waiting[i] : i \in DOMAIN waiting} \cup {serving}

Accept(g) ==
    /\ g \in Generations \ Open
    /\ \/ waiting' = Append(waiting, g) /\ outcomes' = <<>>
       \/ /\ waiting # <<>>
          /\ waiting' = [waiting EXCEPT ![Len(waiting)] = g]
          /\ outcomes' = <<Reported(waiting[Len(waiting)], "SUPERSEDED")>>
    /\ UNCHANGED serving

\* Give up the k oldest of the queue, then let the rest stand.
Left(k)    == SubSeq(waiting, 1 + k, Len(waiting))
GivenUp(k) == AllReported(SubSeq(waiting, 1, k), "EXPIRED")

Keep(k) ==
    waiting' = Left(k) /\ outcomes' = GivenUp(k) /\ UNCHANGED serving

Start(k) ==
    /\ serving = 0 /\ Left(k) # <<>>
    /\ serving' = Head(Left(k)) /\ waiting' = Tail(Left(k))
    /\ outcomes' = GivenUp(k)

\* A background poll (serving = 0) succeeds without a word.
Succeed(k) ==
    /\ \E result \in Succeeding :
          outcomes' = GivenUp(k) \o
              (IF serving = 0 THEN <<>> ELSE <<Reported(serving, result)>>)
    /\ serving' = 0 /\ waiting' = Left(k)

FailWith(g, k, rest) ==
    /\ \E result \in Failing :
          outcomes' = GivenUp(k) \o <<Reported(g, result)>>
                                 \o AllReported(rest, "CANCELLED")
    /\ serving' = 0 /\ waiting' = <<>>

Fail(k) ==
    \/ FailWith(serving, k, Left(k))
    \/ /\ serving = 0 /\ Left(k) # <<>>
       /\ FailWith(Head(Left(k)), k, Tail(Left(k)))

ServiceNext ==
    \/ \E g \in Generations : Accept(g)
    \/ \E k \in 0 .. Len(waiting) : Keep(k) \/ Start(k) \/ Succeed(k) \/ Fail(k)

ServiceSpec == ServiceInit /\ [][ServiceNext]_serviceVars
=============================================================================
