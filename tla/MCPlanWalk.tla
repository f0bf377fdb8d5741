----------------------------- MODULE MCPlanWalk -----------------------------
(***************************************************************************)
(* Requests over every combination of fields, and baselines, for PlanWalk. *)
(***************************************************************************)
EXTENDS PlanWalk

\* The functions over F taking values of the family V.
Selections(F, V(_)) ==
    {r \in [F -> UNION {V(f) : f \in F}] : \A f \in F : r[f] \in V(f)}

Wanted(f) ==
    CASE f = "mode"        -> {2, Dry, ModeOff}
      [] f = "temperature" -> {24}
      [] f = "fan"         -> {0}
      [] f = "swing"       -> Swing
      [] f = "preset"      -> {0, 1}
      [] f = "display"     -> {1}

ClimateFields == {"mode", "temperature", "fan", "swing", "preset", "display"}

ClimateRequests ==
    UNION {Selections(F, Wanted) : F \in SUBSET ClimateFields \ {{}}}

ClimateBaselines ==
    [run : {0, 1}, mode : {2, Dry}, setpoint : {20, 24}, wind : {1, 18},
     compensation : {0}, swing : Swing, backLed : {0}]

\* Every Dry adjustment, from every nibble the unit may report.
DryBaselines ==
    [run : {0, 1}, mode : {2, Dry}, setpoint : {24}, wind : {1},
     compensation : 0 .. 15, swing : {0}, backLed : {0}]

\* Every value of every field, so that each packet is sent.
SingleRequests ==
    [{"mode"} -> Mode] \cup [{"temperature"} -> Minimum .. Maximum]
    \cup [{"fan"} -> Fan] \cup [{"preset"} -> Preset] \cup [{"display"} -> 0 .. 1]
    \cup [{"dryOffset"} -> Offset]

AllRequests  == ClimateRequests \cup SingleRequests
AllBaselines == ClimateBaselines \cup DryBaselines
=============================================================================
