---------------------------- MODULE Presentation ----------------------------
(***************************************************************************)
(* What the component shows of the air conditioner.  `confirmed` is what   *)
(* the statuses have said so far, an intent without a preset; a PendingState *)
(* lays over it, per field, what was accepted and has no outcome yet.      *)
(***************************************************************************)
EXTENDS Intents

CONSTANT Optimistic     \* accepted settings are shown at once

ASSUME PresentationAssumption == Optimistic \in BOOLEAN

ClimateField == {"mode", "temperature", "fan", "swing", "preset", "display"}

Nothing == [f \in {} |-> 0]

Without(p, F) == [f \in DOMAIN p \ F |-> p[f]]

\* p laid over q (TLC's @@, which the provers have no definition of).
Over(p, q) ==
    [f \in DOMAIN p \cup DOMAIN q |-> IF f \in DOMAIN p THEN p[f] ELSE q[f]]

-----------------------------------------------------------------------------
(* PendingState: for each pending field its value, the generation of the   *)
(* operation it belongs to, and its age.                                   *)

Laid(p, r, g) ==
    Over([f \in DOMAIN r |-> [value |-> r[f], generation |-> g, age |-> 0]], p)

\* Mutant: the completion of one operation clears whatever its fields show.
CompletedFields(p, generations) ==
    IF \E f \in DOMAIN p : p[f].generation \in generations THEN Nothing ELSE p

Completed(p, generations) ==
    Without(p, {f \in DOMAIN p : p[f].generation \in generations})

\* present(confirmed_, true), for which control asks in either mode.
Context(p, confirmed) == Over([f \in DOMAIN p |-> p[f].value], confirmed)

Present(p, confirmed) == IF Optimistic THEN Context(p, confirmed) ELSE confirmed

-----------------------------------------------------------------------------
(* apply_status_.                                                          *)

\* In Dry a unit with a Dry adjustment reports a target derived from it.
OffsetMode(s) == DryOffsetEnabled /\ s.mode = Dry

KnownTarget(s) == s.setpoint \in IF Fahrenheit THEN 46 .. 90 ELSE 8 .. 32
KnownMode(s)   == s.run = 0 \/ s.mode <= Dry
KnownFan(s)    == NormalFan(s.wind) \in Fan \cup {12, 16}

ReportedMode(s) == IF s.run = 0 THEN ModeOff ELSE s.mode

\* The fields that the status tells; the others keep what they were.
Reported(s) ==
    [f \in {"swing", "display"}
        \cup (IF KnownMode(s) THEN {"mode"} ELSE {})
        \cup (IF KnownTarget(s) /\ ~OffsetMode(s) THEN {"temperature"} ELSE {})
        \cup (IF KnownFan(s) THEN {"fan"} ELSE {})
     |-> CASE f = "swing" -> s.swing
           [] f = "display" -> s.backLed
           [] f = "mode" -> ReportedMode(s)
           [] f = "temperature" -> s.setpoint
           [] f = "fan" -> NormalFan(s.wind)]

Applied(confirmed, s) ==
    Over(Reported(s),
         Without(confirmed, IF OffsetMode(s) THEN {"temperature"} ELSE {}))

\* Five physical speeds are shown as three.
FanShown(fan) == CASE fan = 12 -> 10 [] fan = 16 -> 14 [] OTHER -> fan

\* The climate entity: no target in Dry where there is a Dry adjustment.
Climate(shown) ==
    LET hidden == IF DryOffsetEnabled /\ Names(shown, "mode") /\ shown["mode"] = Dry
                    THEN {"temperature", "display"} ELSE {"display"}
    IN  [f \in DOMAIN shown \ hidden |->
            IF f = "fan" THEN FanShown(shown[f]) ELSE shown[f]]

\* The Dry adjustment number: <<offset>>, or <<>> as long as it is not known.
NumberShown(s, connected) ==
    When(connected /\ Drying(s) /\ s.compensation # UnknownNibble,
         <<OffsetOf(s.compensation)>>)
=============================================================================
