------------------------------- MODULE Clock -------------------------------
(***************************************************************************)
(* The 32-bit millisecond clock of the engine (ESPHome's millis(), passed  *)
(* to every call as `now`), seen through its timestamps.  A stored         *)
(* timestamp t is represented by (now - t) modulo ClockSize, the only      *)
(* quantity the code ever computes from it, so that `now` itself is not    *)
(* part of any state: a timestamp just taken is 0, one that lies d ahead   *)
(* is ClockSize - d, and time passing adds to every timestamp alike.       *)
(***************************************************************************)
EXTENDS Integers

CONSTANTS
    HalfRange,      \* 2^31 ms: the reach of the signed comparison in due_
    Rollover        \* TRUE when a timestamp may be left to grow that old

ASSUME ClockAssumption == HalfRange \in Nat \ {0} /\ Rollover \in BOOLEAN

ClockSize == 2 * HalfRange

Elapsed == 0 .. (ClockSize - 1)

\* static_cast<int32_t>(now - deadline) >= 0: the timestamp is not ahead.
Due(t) == t < HalfRange

\* The timestamp now + d.
Ahead(d) == IF d = 0 THEN 0 ELSE ClockSize - d

\* The timestamp t + d.
Later(t, d) == IF d <= t THEN t - d ELSE t - d + ClockSize

\* What one unit of time does to a timestamp.  Without Rollover one that is
\* HalfRange - 1 old stays there: the polls of the host renew it long before.
Older(t) ==
    IF t = HalfRange - 1 /\ ~Rollover THEN t
    ELSE IF t = ClockSize - 1 THEN 0 ELSE t + 1
=============================================================================
