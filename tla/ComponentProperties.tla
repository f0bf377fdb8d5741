------------------------ MODULE ComponentProperties ------------------------
(***************************************************************************)
(* What must be true of the component and its engine together.             *)
(***************************************************************************)
EXTENDS Component, FiniteSetsExt

\* Every variable of the component holds a value of its kind.
ComponentTypeOK ==
    /\ turn \in {"setup", "out", "in"}
    /\ DOMAIN pending \subseteq ClimateField
    /\ \A f \in DOMAIN pending :
          pending[f] \in [value : Int, generation : Generation, age : Elapsed]
    /\ DOMAIN confirmed \subseteq ClimateField \ {"preset"}
    /\ DOMAIN remembered \subseteq {Heat, Cool}
    /\ hasStatus \in BOOLEAN /\ statusAge \in 0 .. StaleAfter
    /\ latest \in 0 .. (GenerationSize - 1)
    /\ {operationWarning, communicationWarning, dirty} \subseteq BOOLEAN
    /\ DOMAIN climate \subseteq ClimateField /\ DOMAIN display \subseteq {"display"}
    /\ number \in {<<>>} \cup {<<n>> : n \in Offset}
    /\ Len(publishing) <= 1 /\ (publishing # <<>> => DOMAIN publishing[1] \subseteq ClimateField)

-----------------------------------------------------------------------------
Live == When(Active, <<current>>) \o queue

Naming(f) == {i \in DOMAIN Live : Names(Live[i].request, f)}

Newest(f) == Live[Max(Naming(f))]

Wanted == {f \in ClimateField : Naming(f) # {}}

\* "Per-field generations prevent an older completion from clearing a newer
\* accepted setting": what is pending is, field by field, the setting of the
\* newest live operation that names it, as old as that operation; a field of
\* a live operation is missing only from the moment in a turn of the loop at
\* which it expires to the tick that ends the operation too.  So no setting
\* is shown longer than its operation lives, and none is forgotten before.
OverlayIsNewest ==
    /\ DOMAIN pending \subseteq Wanted
    /\ \A f \in DOMAIN pending :
          pending[f] = [value |-> Newest(f).request[f],
                        generation |-> Newest(f).generation,
                        age |-> Newest(f).age]
    /\ \A f \in Wanted \ DOMAIN pending : turn = "in" /\ Old(Newest(f))

Quiet == turn = "out" /\ publishing = <<>>

\* Between two turns of the loop Home Assistant sees neither more nor less than
\* what is confirmed and, in optimistic mode, pending: "failure removes the
\* pending state and restores the latest known report", by whichever path the
\* failure arrives, and "if no report exists" the climate stays unpublished.
\* In device-reported mode this survives calls from inside a publication.
ShownIsPresent ==
    Quiet =>
        LET view == Present(pending, confirmed) IN
        /\ ~dirty
        /\ Names(view, "display") => display = Only(view, {"display"})
        /\ climate = IF Names(confirmed, "mode") THEN Climate(view) ELSE Nothing

\* The operation warning is taken back only when nothing is under way any more:
\* every operation accepted so far has its outcome and nothing is pending.
WarningClearedWhenSettled ==
    [][ operationWarning /\ ~operationWarning'
        => LiveGenerations' = {} /\ pending' = Nothing ]_<<vars, component>>

\* A target accepted together with Heat or Cool is remembered for that mode as
\* long as both are pending, whatever the unit reports on its way there.
PendingTargetRemembered ==
    LET m == pending["mode"] t == pending["temperature"] IN
    /\ {"mode", "temperature"} \subseteq DOMAIN pending
    /\ m.generation = t.generation
    /\ m.value \in {Heat, Cool}
    => m.value \in DOMAIN remembered /\ remembered[m.value] = t.value

\* The Dry adjustment number "is unknown before valid Dry feedback, outside
\* active Dry mode, on stale/lost communication": between two turns it shows
\* the offset of the latest status or nothing, and nothing once that status was
\* stale at the last tick or a poll has failed since.
NumberIsFeedback ==
    Quiet /\ number # <<>> =>
        /\ hasStatus /\ Drying(status)
        /\ number = <<OffsetOf(status.compensation)>>
        /\ statusAge < StaleAfter + lag
        /\ ~communicationWarning

\* "Accepted climate and display requests appear immediately" in optimistic
\* mode: between two turns of the loop the climate, once it is published, has
\* every pending setting.  It does not hold when a call comes from inside a
\* publication: what was to be shown before the call is published after it.
AcceptedAppears ==
    Quiet /\ Names(confirmed, "mode") =>
        Only(climate, DOMAIN pending) =
            Only(Climate(Present(pending, confirmed)), DOMAIN pending)

\* "Queue rejections count operations refused for lack of capacity (not invalid
\* user controls)": whatever the component asks the engine for, remembered
\* targets that the unit itself reported included, the engine takes unless its
\* queue is full.
RejectionsAreForCapacity ==
    [][ \A r \in Calls : TurnedAway(r) => Len(queue) = QueueCapacity
      ]_<<vars, component>>
=============================================================================
