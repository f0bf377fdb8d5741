----------------------------- MODULE Component -----------------------------
(***************************************************************************)
(* HisenseAC: the ESPHome component around the engine.  Climate calls, the *)
(* display switch and the Dry adjustment come in between two turns of the  *)
(* main loop, or out of a publication: the display switch tells its        *)
(* automations when it changes, and these may call the component again.  A *)
(* turn of the loop drops what has been pending for too long, reads the    *)
(* statuses that have arrived, lets the engine tick and publishes.         *)
(***************************************************************************)
EXTENDS Transport, Presentation

CONSTANTS
    StaleAfter,     \* three update intervals, at least ten seconds
    Calls,          \* what callers ask of the component, valid or not
    Automations,    \* the calls automations make when the display changes
    Supported       \* supported_modes_, ..._swing_modes_, ..._presets_

Heat == 1
Cool == 2

\* The targets there are to remember: what callers ask for, in whole degrees,
\* and what the unit reports.
Targets ==
    {Rounded(r["temperature"]) : r \in {x \in Calls : Names(x, "temperature")}}
    \cup {s.setpoint : s \in Statuses}

WithTarget(r, target) == Over([f \in {"temperature"} |-> 2 * target], r)

\* The number asks for a Dry adjustment and nothing else, no caller asks for
\* the power on its own, and Requests also has a call for Heat or Cool with
\* any target that may have been remembered.
ASSUME ComponentAssumption ==
    /\ StaleAfter \in Nat /\ StaleAfter >= OperationTimeout
    /\ Calls \subseteq Requests /\ Automations \subseteq Calls
    /\ \A r \in Calls :
          /\ ~Names(r, "power")
          /\ Names(r, "dryOffset") => DOMAIN r = {"dryOffset"}
          /\ Names(r, "mode") /\ r["mode"] \in {Heat, Cool} /\ ~Names(r, "temperature")
               => \A target \in Targets : WithTarget(r, target) \in Requests
    /\ DOMAIN Supported = {"mode", "swing", "preset"}
    /\ Supported["mode"] \subseteq Mode /\ Supported["swing"] \subseteq Swing
    /\ Supported["preset"] \subseteq Preset

VARIABLES
    turn,                   \* "setup", or where the main loop is: "out" or "in"
    pending,                \* pending_
    confirmed,              \* confirmed_
    remembered,             \* heat_tgt_temp, cool_tgt_temp
    hasStatus,              \* has_status_
    statusAge,              \* time since last_status_at_, or since setup
    latest,                 \* latest_generation_
    operationWarning,       \* operation_warning_
    communicationWarning,   \* communication_warning_
    dirty,                  \* presentation_dirty_
    climate, display,       \* the last publications of the climate entity, of
    number,                 \* the display switch and of the Dry adjustment
    publishing              \* <<shown>> while the display switch is told of it

warnings  == <<operationWarning, communicationWarning>>
shown     == <<climate, display, publishing>>
heard     == <<hasStatus, statusAge>>
engine    == <<queue, nextGeneration, current, status, lag, plan, polling, timers>>
component == <<turn, pending, confirmed, remembered, heard, latest, warnings,
               dirty, shown, number>>

ComponentInit ==
    /\ Init
    /\ turn = "setup"
    /\ pending = Nothing /\ confirmed = Nothing /\ remembered = Nothing
    /\ hasStatus = FALSE /\ statusAge = 0 /\ latest = 0
    /\ operationWarning = FALSE /\ communicationWarning = TRUE /\ dirty = FALSE
    /\ climate = Nothing /\ display = Nothing /\ number = <<>>
    /\ publishing = <<>>

-----------------------------------------------------------------------------
StatusStale == statusAge >= StaleAfter

EngineIdle == finished' = <<>> /\ sent' = <<>> /\ UNCHANGED engine

Ended == {finished'[i].generation : i \in DOMAIN finished'}

\* Mutant: the confirmation of any operation takes the warning back.
RelievesAny == \E i \in DOMAIN finished' : finished'[i].result = "CONFIRMED"

\* The outcome of the operation accepted last takes the warning back.
Relieves ==
    \E i \in DOMAIN finished' :
        finished'[i].generation = latest /\ finished'[i].result = "CONFIRMED"

Alarms(generations) ==
    \E i \in DOMAIN finished' :
        /\ finished'[i].generation \in generations
        /\ finished'[i].result \notin {"CONFIRMED", "SUPERSEDED"}

\* operation_finished, for each outcome the engine reports in this step.  A
\* status that was just read leaves no communication warning of before.
React(before, communication) ==
    /\ pending' = Completed(before, Ended)
    /\ operationWarning' = (Alarms(Generation) \/ (operationWarning /\ ~Relieves))
    /\ communicationWarning' = (communication \/ Alarms({0}))

\* Mutant: what is no longer pending is not published any more.
DirtiedNever(before) == dirty

\* presentation_dirty_, when nothing is published by the handler itself.
Dirtied(before) == dirty \/ (Optimistic /\ pending' # before)

\* The climate entity has no way to say "unknown": it is not published before
\* a status has told the mode.
PublishedClimate(view) ==
    climate' = IF Names(confirmed', "mode") THEN Climate(view) ELSE climate

\* Mutant: what is pending is published in device-reported mode too.
PublishPending ==
    LET view == Context(pending', confirmed') IN
    /\ dirty' = FALSE
    /\ display' = IF Names(view, "display") THEN Only(view, {"display"}) ELSE display
    /\ PublishedClimate(view) /\ UNCHANGED publishing

\* publish_presentation_.  When the display switch changes, its automations run
\* before the climate is published from what was to be shown until then.  An
\* automation's own call publishes without a break (bound).
Publish ==
    LET view == Present(pending', confirmed') IN
    /\ dirty' = FALSE
    /\ display' = IF Names(view, "display") THEN Only(view, {"display"}) ELSE display
    /\ IF Automations # {} /\ publishing = <<>> /\ display' # display
         THEN publishing' = <<view>> /\ UNCHANGED climate
         ELSE PublishedClimate(view) /\ UNCHANGED publishing

\* The automations are done, and publish_presentation_ goes on.
Resume ==
    /\ publishing # <<>> /\ publishing' = <<>>
    /\ EngineIdle
    /\ UNCHANGED <<turn, pending, confirmed, remembered, heard, latest, warnings,
                   dirty, display, number>>
    /\ PublishedClimate(publishing[1])

-----------------------------------------------------------------------------
(* Calls.                                                                  *)

\* A climate call for Heat or Cool without a target takes the one remembered.
Filled(r) ==
    IF ~Names(r, "temperature") /\ Names(r, "mode") /\ r["mode"] \in DOMAIN remembered
      THEN WithTarget(r, remembered[r["mode"]])
      ELSE r

Here == Context(pending, confirmed)

InDry(r) ==
    IF Names(r, "mode") THEN r["mode"] = Dry
    ELSE (Names(Here, "mode") /\ Here["mode"] = Dry) \/ (hasStatus /\ status.mode = Dry)

\* Mutant: the range of a target is left to enqueue.
SoundAtAnyTarget(r) ==
    /\ DOMAIN r # {}
    /\ \A f \in DOMAIN Supported : Names(r, f) => r[f] \in Supported[f]
    /\ Names(r, "fan") => r["fan"] \in Fan
    /\ Names(r, "dryOffset") =>
          DryOffsetEnabled /\ ~Fahrenheit /\ Dry \in Supported["mode"]
                           /\ r["dryOffset"] \in Offset

\* What control and set_dry_offset look at before they ask the engine.
Sound(r) ==
    /\ DOMAIN r # {}
    /\ \A f \in DOMAIN Supported : Names(r, f) => r[f] \in Supported[f]
    /\ Names(r, "fan") => r["fan"] \in Fan
    /\ Names(r, "temperature") => Encodable(r["temperature"])
    /\ Names(r, "dryOffset") =>
          DryOffsetEnabled /\ ~Fahrenheit /\ Dry \in Supported["mode"]
                           /\ r["dryOffset"] \in Offset

\* An absolute target in Dry, or a Dry adjustment when the unit is not drying,
\* is about to leave Dry, or has not been heard of.
OutOfPlace(r) ==
    \/ DryOffsetEnabled /\ Names(r, "temperature") /\ InDry(r)
    \/ /\ Names(r, "dryOffset")
       /\ \/ ~hasStatus \/ communicationWarning \/ StatusStale \/ ~Drying(status)
          \/ Names(Here, "mode") /\ Here["mode"] # Dry

\* The target of an accepted call is kept for the mode it is meant for.
Target(r) ==
    LET mode == IF Names(r, "mode") THEN r["mode"]
                ELSE IF Names(Here, "mode") THEN Here["mode"] ELSE ModeOff
    IN  [m \in {mode} \cap {Heat, Cool} |-> Rounded(r["temperature"])]

\* Mutant: an adjustment is laid over the climate.
LaysOverAlways(r) == TRUE

\* A Dry adjustment is never laid over the climate's target or mode.
LaysOver(r) == ~Names(r, "dryOffset")

Asked(r) == Sound(Filled(r)) /\ ~OutOfPlace(r)

Warned ==
    /\ operationWarning' = TRUE
    /\ UNCHANGED <<turn, pending, confirmed, remembered, heard, latest,
                   communicationWarning, dirty, shown, number>>

\* The component turns the call down by itself.
Dismissed(r) == ~Asked(r) /\ EngineIdle /\ Warned

\* The engine turns it down, which queue_rejections_ counts.
TurnedAway(r) == Asked(r) /\ Reject(Filled(r)) /\ Warned

Taken(r) ==
    /\ Asked(r)
    /\ Admit(Filled(r)) \/ Supersede(Filled(r))
    /\ UNCHANGED <<turn, confirmed, heard, warnings, number>>
    /\ LET kept == Completed(pending, Ended) IN
         /\ latest' = nextGeneration'
         /\ remembered' = Over(IF Names(r, "temperature") THEN Target(r) ELSE Nothing,
                               remembered)
         /\ pending' = IF LaysOver(r) THEN Laid(kept, Normalized(Filled(r)), latest')
                                      ELSE kept
         /\ IF LaysOver(r) /\ Optimistic THEN Publish ELSE UNCHANGED <<dirty, shown>>

\* control, set_display, set_dry_offset.
Call(r) == Dismissed(r) \/ TurnedAway(r) \/ Taken(r)

Setup ==
    /\ turn = "setup" /\ turn' = "out"
    /\ RequestPoll
    /\ UNCHANGED <<pending, confirmed, remembered, heard, latest, warnings,
                   dirty, shown, number>>

Update ==
    /\ turn = "out"
    /\ RequestPoll
    /\ UNCHANGED component

-----------------------------------------------------------------------------
(* A turn of the main loop.                                                *)

\* PendingState::expire.
Overdue == {f \in DOMAIN pending : pending[f].age >= OperationTimeout}

\* Mutant: what expires is not published any more.
LoopBeginClean ==
    /\ turn = "out" /\ turn' = "in"
    /\ pending' = Without(pending, Overdue)
    /\ IF Overdue # {} THEN RequestPoll /\ operationWarning' = TRUE
                       ELSE EngineIdle /\ UNCHANGED operationWarning
    /\ UNCHANGED <<confirmed, remembered, heard, latest, communicationWarning,
                   dirty, shown, number>>

LoopBegin ==
    /\ turn = "out" /\ turn' = "in"
    /\ pending' = Without(pending, Overdue)
    /\ IF Overdue # {} THEN RequestPoll /\ dirty' = Optimistic /\ operationWarning' = TRUE
                       ELSE EngineIdle /\ UNCHANGED <<dirty, operationWarning>>
    /\ UNCHANGED <<confirmed, remembered, heard, latest, communicationWarning,
                   shown, number>>

\* Mutant: what is pending does not keep the unit's target from being saved.
SteadyWhenIdle(s) ==
    ~OffsetMode(s) /\ KnownTarget(s) /\ KnownMode(s) /\ current' = NoOperation

\* The unit's own target is worth remembering: nothing is on its way to it.
Steady(s) ==
    /\ ~OffsetMode(s) /\ KnownTarget(s) /\ KnownMode(s)
    /\ current' = NoOperation
    /\ DOMAIN pending' \cap {"mode", "temperature"} = {}

\* get_response with a status frame, then apply_status_.
Read(s) ==
    /\ turn = "in"
    /\ Receive(s)
    /\ hasStatus' = TRUE /\ statusAge' = 0
    /\ React(pending, FALSE)
    /\ confirmed' = Applied(confirmed, s)
    /\ remembered' =
          Over(IF Steady(s)
                 THEN [m \in {ReportedMode(s)} \cap {Heat, Cool} |-> s.setpoint]
                 ELSE Nothing,
               remembered)
    /\ Publish
    /\ UNCHANGED <<turn, latest, number>>

\* Mutant: the number is published before the age of the status is looked at.
ConnectedBefore == hasStatus /\ ~communicationWarning

Connected == hasStatus /\ ~communicationWarning'

LoopEnd ==
    /\ turn = "in" /\ turn' = "out"
    /\ TickSteps
    /\ UNCHANGED <<confirmed, remembered, heard, latest>>
    /\ React(pending, communicationWarning \/ StatusStale)
    /\ IF Dirtied(pending) THEN Publish ELSE UNCHANGED <<dirty, shown>>
    /\ number' = When(DryOffsetEnabled, NumberShown(status, Connected))

-----------------------------------------------------------------------------
Elapse ==
    /\ turn # "setup"
    /\ Advance
    /\ pending' = [f \in DOMAIN pending |-> [pending[f] EXCEPT !.age = Older(@)]]
    /\ statusAge' = IF StatusStale THEN statusAge ELSE statusAge + 1
    /\ UNCHANGED <<turn, confirmed, remembered, hasStatus, latest, warnings,
                   dirty, shown, number>>

\* Nothing else happens before a publication is over.
ComponentNext ==
    \/ /\ publishing = <<>>
       /\ \/ Setup \/ Update \/ LoopBegin \/ LoopEnd \/ Elapse
          \/ turn = "out" /\ \E r \in Calls : Call(r)
          \/ \E s \in Statuses : Read(s)
    \/ publishing # <<>> /\ \E r \in Automations : Call(r)
    \/ Resume

ComponentSpec == ComponentInit /\ [][ComponentNext]_<<vars, component>>
=============================================================================
