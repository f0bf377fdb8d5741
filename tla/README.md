# A TLA+ model of the Hisense AC component

The repository is an ESPHome external component that controls a Hisense air
conditioner over a half-duplex serial line. There is one thread, ESPHome's main
loop, and no operating system; what makes the code hard is time and order: a
setting takes several polls to confirm, the unit answers late, wrongly or not at
all, callers ask for more in the meantime, and every operation lives for ten
seconds at most. This directory holds TLA+ models of that behaviour, the TLC
runs that check them on small instances, and machine-checked proofs about the
engine, the component, the line and the temperatures. Every definition is translated from the source; comments name the
function.

## 1. Inventory

| Component (source) | State | Operations | Model |
|---|---|---|---|
| Transaction engine (`transport.cpp/.h`) | queue of 8, active operation, phase, deadlines, generation counter, poll flags | `enqueue`, `request_poll`, `tick`, `receive` | `Transport` |
| Step planner (`transport.cpp`) | the steps of the active operation and their packet buffers | `build_steps_`, `matches`, the Dry branch of `receive` | `Intents`, `PlanWalk` |
| Temperature conversion (`temperature.h`), limits (`traits`, `validate_visual`) | none | `normalize`, `from_device` | `Setpoints`, `Intents` |
| Frame parser (`protocol.cpp`) | buffer of 128, expected size, escape flag, time of the last byte, error count | `feed`, `expire`, `reset` | `FrameParser`, `SerialLine` |
| Status decoding (`protocol.cpp`) | none | `decode_status` | `StatusLayout` (what the engine reads) |
| Command encoding (`commands.cpp`) | none | `encode_command`, three encoders, the constant packets | `Framing`, `CommandEncoder`, `Commands` |
| Pending state (`pending_state.h`) | per field: value, generation, start | `accept`, `complete`, `expire`, `present` | `Presentation` |
| Component (`hisense_ac.cpp`) | confirmed fields, remembered targets, two warnings, latest generation, dirty flag | `loop`, `update`, `control`, `set_display`, `set_dry_offset`, `operation_finished`, `apply_status_`, publications | `Component` |
| Diagnostics (`hisense_ac.cpp`) | counters | `publish_diagnostics_` | the error count and the warnings only |
| Configuration schema (`climate.py`) | none at run time | validation | `validate_visual`, in `Setpoints` |
| Logging | rate-limit timestamps | | not modelled |
| UART driver, ESPHome, air conditioner | | | external, in the environment |

How they interact: ESPHome calls `loop` for ever and, between two turns,
`control`, `set_display`, `set_dry_offset` and (every `update_interval`)
`update`. `loop` drops what has been pending for too long, feeds the bytes that
have arrived to the parser, hands each decoded status to `Engine::receive`, then
lets `Engine::tick` drive the transaction. The engine calls back into the
component: `send_packet` when it transmits, `operation_finished` when an
operation ends - from inside `enqueue`, `receive` and `tick`. Everything the
callback does (pending fields, warnings, what is to be published) happens
before the call that caused it returns.

What is hard, and which correctness follows from it:

* **Engine.** Seven phases with conditions of their own; expiry in any of them;
  failure in the middle of a plan with operations queued behind; late, early
  and stale answers; refused writes; a recovery poll that may fail. It must
  report one outcome per accepted operation, send no setter twice, confirm only
  what a status shows, end every operation in time and come back to rest.
* **Planner.** 225 Dry adjustments and thousands of combinations of fields and
  baselines; shared packet buffers; guards that must hold when a step is sent.
* **Bytes.** Packets are tables written by hand, with update bits beside the
  values and a checksum at the end; some bring along more than their name says.
  A packet must set what its step is for and nothing else, and what a unit
  answers must be read back whatever the unused bits say.
* **Temperatures.** The unit's whole degrees, in either unit, travel as decimal
  fractions of degrees Celsius, with one tolerance in the configuration and
  another in the code. What is offered must be taken; nothing may creep.
* **Frame parser.** It must find its way back after any damage, stay in its
  buffer and count what it discards once.
* **Component.** Pending fields of overlapping operations with two expiry
  clocks; outcomes reported from three places; publication by flag, and calls
  made from inside a publication. What Home Assistant sees must be what is
  confirmed and pending, no more and no less.

`PROJECT.json` lists under `hazards` each place in the code, and the property
that watches it.

## 2. Modules

| Module | What it models |
|---|---|
| `Clock` | The 32-bit millisecond clock seen through timestamps: `now - t` modulo `ClockSize`, the signed comparison of `due_`, and its rollover. |
| `Intents` | Requests (functions whose domain is the set of fields named), statuses, `matches`, validation, normalization, `build_steps_`. |
| `Transport` | `Engine`: one action per branch of each method, with the state of the class as variables, the callbacks of a step in `finished` and its packets in `sent`. |
| `OperationService` | Abstract: operations are served one at a time in order, each with one outcome; a failure gives up what is waiting. |
| `TransportProperties` | The properties of the engine, its fairness, and the refinement of `OperationService`. |
| `Commands` | The bytes of each packet a plan can send, constant or encoded, and which fields they tell the unit. |
| `StatusLayout` | The unit's answer in bytes, and `decode_status`. |
| `PlanWalk` | The plan of a request from a baseline, carried out on a unit that does what the bytes of the packets tell it; composes `Intents`, `Commands` and `StatusLayout`. |
| `Setpoints` | Targets between sliders, buttons, scenes, `normalize` and the unit, in 1/90000 of a degree, under any limits that `validate_visual` lets pass. |
| `CommandEncoder` | `encode_command` as one step: the checks, the room, the packet written or refused. |
| `Framing`, `FrameParser`, `SerialLine` | Frames and stuffing; the parser, one action per branch of `feed`; a line with noise, lost bytes, cut frames and pauses. |
| `Presentation` | `PendingState`, `apply_status_` and what is published, as operators. |
| `Component`, `ComponentProperties` | `HisenseAC` over `Transport`: its calls, the turn of the main loop in parts, its reactions to outcomes, publications and the calls made from inside them. |
| `MC*` | The instances for TLC. |
| `TransportProofs` | Types and the inductive invariant of the engine, and lemmas about its operators and actions; the basis of the next three and of `ComponentProofs`. |
| `OperationProofs` | Lifetimes, order, expiry, one outcome for each accepted operation, and that the engine implements `OperationService`. |
| `PlanProofs` | What a confirmation is worth, and what is sent to the unit. |
| `TimingProofs` | The line and the timers. |
| `WalkProofs` | Theorems about `PlanWalk`: the plan itself, what it does to a unit, and its bytes on the way out and back. |
| `ComponentProofs` | Theorems about `Component` and the engine inside it. |
| `SerialLineProofs` | Theorems about the parser, the frames and the line, and about `CommandEncoder`. |
| `SetpointProofs` | Theorems about `Setpoints`. |

Correspondence. A call of an engine method is one atomic step, as it is in the
code, where nothing runs in between; `tick` is split by cases that exclude one
another (`TickExpired`, `TickIdleStart`, `TickSend`, ...), each of which first
drops the queued operations whose time is over. `finish_`, `poll_` and `send_`
are operators used by these cases, so that a write refused in the middle of a
poll cancels the queue in the same step. `send_packet` may fail whenever it is
called. Time passes in units (`Advance`) between any two calls. `Component`
splits a turn of the loop where statuses and time may come in between:
`LoopBegin` (`pending_.expire`), any number of `Read`, `LoopEnd` (`tick`, the
stale check, the publications). Where `Automations` is not empty, a publication
that changes the display switch is two steps, `Publish` and `Resume`, with any
number of calls in between: `publish_presentation_` has taken its snapshot and
cleared `presentation_dirty_` by then. A call made there publishes without a
break of its own. `Call` is one step with the cases of the code: refused as
unsound, dismissed with a warning, turned away by a full queue, or taken. The
state of a parser step is exactly that of
`FrameParser`; the bytes are numbers and the marker values are the real ones.

`PlanWalk` is the one place where packets and statuses are bytes. A step's
packet sets the fields whose update bits it carries; the fan speed and setpoint
that come with a mode or a preset packet the unit may take or leave.

Abstractions. For the engine packets are a name and a value and statuses have
the members the code reads; texts and logs are left out. A timestamp is its age, because the
code only ever subtracts; ages saturate at `HalfRange - 1` unless `Rollover` is
on. The 20 confirmation polls need more than ten seconds (20 x 524 ms), so
they never end an operation; `MaxPolls` keeps that relation in the instances.
`latest`, `finished`, `sent` and `setters` (a ghost counting the setters handed
over) serve the properties or mirror arguments of callbacks.

## 3. Runs

All of them finish in about two minutes at most with two workers.

| Run | Instance | Shows |
|---|---|---|
| `queue` | queue of 2, generations 1..4, lifetime 8, one call in three refused | `TypeOK`; no operation outlives its lifetime (`BoundedLifetime`); order (`AcceptanceOrder`, `ExpiryIsAPrefix`); exactly one outcome each (`OneOutcome`); the engine implements `OperationService`; no idling with work at hand (`IdleServes`); no write failure of its own making (`WriteFailedMeansRefused`) |
| `mode` | plans of up to four setters (power, mode, setpoint, preset), lifetime 8 | `SettersSentOnce`, `RecoveryIsReadOnly`, `ConfirmedMeansShown`, `TimeoutMeansSilence`; with a Dry adjustment and a unit that enters and leaves Dry, `DrySafety` |
| `live` | one setting, fairness | `EveryOperationEnds`, `PollNotStarved`, `AlwaysIdleAgain` |
| `plan` | every combination of fields, every value of each, 225 adjustments, in bytes | `PlanOwnsStorage`, `PlanFlows`, `PlanReachesGoal`; each swing packet turns the one axis it names (`OneAxisAtATime`); `PacketsFit`: checksums, stuffing and size; `NothingElseChanges`; `StatusIsReadBack` |
| `line` | frames with up to two bytes of payload, five noise bytes; the other way, commands with markers in payload and checksum, up to the longest packet and beyond, and buffers from too small to too large | `ParserTypeOK`, `FrameDelivered`, `CountsDiscarded`; `RoomIsExact`: `encode_command` overruns no buffer and refuses nothing that fits |
| `shown` | optimistic, two calls that share a field and name both swing axes, a swing that changes at any moment, lifetime 5 | `OverlayIsNewest`, `ShownIsPresent`, `WarningClearedWhenSettled`, `SwingSafety` |
| `reported` | device-reported, Heat and Cool with remembered targets, one of them out of range, calls from inside a publication | `ShownIsPresent`, `PendingTargetRemembered`, `RejectionsAreForCapacity` |
| `number` | a Dry adjustment number, optimistic | `ComponentTypeOK`, `NumberIsFeedback`, `ShownIsPresent` |
| `setpoints` | Fahrenheit, exact overrides, drift of a ten-thousandth of a degree | `OfferedIsTaken`, `RepeatKeepsTarget`, `PressIsWhole` |
| `rollover` | `Rollover = TRUE` | **violated**: `DrainAllowance` |
| `nested` | optimistic, an automation on the display switch | **violated**: `AcceptedAppears` |
| `visual` | Fahrenheit, overrides typed with three decimals | **violated**: `OfferedIsTaken` |

Why the bounds are enough. A queue of two behind an active operation has a
first, a last and an operation behind the one that fails. The generations are
one more than can be live (in `shown` and `number` as many: there a queued
operation is superseded only while none is active, and `queue` and `reported`
do the rest), and the counter wraps around; a guard (named in
`Admit`) keeps a live generation from being given again, which takes 2^32
operations in ten seconds in the code. Wire times of 1 and 2, a response
timeout of 1 and a lifetime of 5 to 8 units let an operation end before,
during and after each transmission: in 5 a plan of one setter is confirmed and
one of two has sent both, in 8 one of two is confirmed and one of three has
sent them all. `MaxLag = 1` lets the loop come late. The status
sets are unrestricted in time: any of them arrives at any moment, in any phase,
as often as it likes. For the parser a maximal frame of 11 bytes has a length
byte that is too long, payloads and checksums that need stuffing, and room for
a footer that overlaps a header. In the runs of the component the queue holds
one operation behind the active one, which is enough for two generations to
share fields and for one to be superseded. `plan` has every single value of
every field, so that each packet that can be sent is sent, and combinations of
all six climate fields; the bits of an answer that have no use are all clear or
all set, which tells any mask that is too wide or too narrow. `StatusIsReadBack`
is checked at the end of each plan, for the cost of it. `setpoints` has default
limits and every combination of a few exact ones, and every setpoint the unit
may report, including those below its range. `line` has commands with a payload
of up to three bytes, stuffed or not, with buffers of 8 to 13 bytes around their
packets, and bodies of 55 to 60 bytes, of which 58 may be taken, with buffers of
63 to 66; the two directions share no state and are not interleaved.

`CHECK_DEADLOCK FALSE` is there because the bounds stop the models where the
program goes on (generations that are all live, a line nobody sends on), and in
`plan` because a plan ends.

Fairness (`live`). `WF(TickSteps)`: ESPHome calls `loop`, which always ends in
`tick`. `WF(Advance)`: time passes. Nothing is assumed of callers, of the unit
or of the UART, which may refuse every packet.

The finding of `rollover`: `tick` and `send_` compare `now` with `tx_until_` by
a signed difference, and `tx_until_` is only renewed by a transmission. 2^31 ms
(24.8 days) after the last one the line seems to be busy again, for as long; in
that time every operation expires. It takes an `update_interval` of that length
and no other traffic. With `Rollover = FALSE`, which polls at any sane interval
guarantee, `DrainAllowance` is not at stake.

The finding of `nested`: `publish_presentation_` publishes the display switch
before the climate, from a snapshot. A call that an automation makes at that
moment is accepted and shown, and then the older snapshot is published over it;
nothing publishes again before the next status or outcome. `ShownIsPresent`
holds, without such automations, in the other runs, and in device-reported mode
with them, where calls change nothing that is shown.

The finding of `visual`: the configuration takes limits up to 0.001 degrees
outside the encodable range, a call only up to 0.0001. 16.111 degrees Celsius
for 61 Fahrenheit is advertised as the minimum, and refused when chosen.
`ExactLimitsAreTaken` proves that this tolerance is the only cause.

`PlanReachesGoal` has one named exception, `FanBrought`. Mode and turbo packets
carry a fan speed with its update bit set. The plan restores the setpoint after
a mode packet but sends no fan step when the fan matched before, and sends the
preset after the fan: whether the request is then confirmed depends on whether
the unit takes what comes along, which no document says. Off is the packet of a
mode as well, and excepted with the others. `OffInDry` is the other exception, of
`PlanFlows`.

`TimeoutMeansSilence` is about the response window: a status counts as an answer
from the moment the query has left the wire until the response timeout, and what
comes later does not.

Every property of a passing run has a mutant: a definition with a plausible bug
(dropped guard, wrong order, missing reset), kept beside the original and marked
`Mutant:`, under which TLC finds the property violated.

## 4. Proofs

### The engine

`TransportProofs` proves, for every value of the constants that satisfies
`ClockAssumption`, `UnitAssumption` and `TransportAssumption` - any queue, any
timeouts, any set of well-formed requests and statuses:

* `TypeCorrect`: `Spec => []TypeOK`. The queue stays within `QueueCapacity`, the
  plan within `MaxSteps`, no live operation has generation 0, every step of a
  plan is well formed.
* `NoSetterRetry`: `Spec => []SettersSentOnce`, the documentation's "never a
  setter retry".
* `ReadOnlyRecovery`: `Spec => []RecoveryIsReadOnly`.
* `PlanIsPlan`: a plan made for any request from any status consists of steps.

The argument. `IInv` is `TypeOK`, `SettersSentOnce`, `RecoveryIsReadOnly` and
the fact that without an active operation the phase is one of `IDLE`,
`RECOVERY`, `POLL_DRAIN`, `WAIT_STATUS`. Neither of the properties is inductive
by itself: that a poll which finds the line refusing ends in a proper state
needs `RecoveryIsReadOnly` (who was polling), that `TickSend` sends the step
whose number equals the count needs `SettersSentOnce`, and that `TickSettled`
and `TickBlocked` only happen to an active operation needs the last conjunct.
There is one lemma per action or group of actions and one for each operator
that several of them share (`FinishKeepsIInv`, `PollKeepsIInv`); lemmas about
sequences, clocks, intents and plans come first. TLC has checked `IInv` too.

Three modules build on `IInv`, each with strengthenings of its own:

* `OperationProofs`. `LifetimesAreBounded` (`Spec => []BoundedLifetime`) and
  `ServedInOrder` (`Spec => []AcceptanceOrder`) need each other: the operations
  that are too old are a prefix of the queue only because it is in the order of
  acceptance (`LapsedIsAPrefix`, and from it `ExpiryTakesThePrefix`: `Spec =>
  []ExpiryIsAPrefix`), and what `tick` leaves of the queue is young only because
  they are a prefix. `OneOutcomeEach` (`Spec => OneOutcome`): `UInv` says that
  the generations of the queue and of the active operation are distinct, which
  the guard of `Admit` and `Supersede` keeps; the reports of a step are a
  concatenation of what lapsed, what was served and what is cancelled, and
  `SplitAt` and `HeadSplits` say that these are disjoint parts of what is live.
  `EngineServes` (`Spec => ImplementsService`): the mapping takes the
  generations of the queue and of the active operation; each step of the engine
  is mapped, by `Lapsing`, to a step of the service that first gives up the k
  oldest operations, k being how many lapsed (0 outside `tick`). What the
  service promises holds of the engine: in particular that an operation leaves
  the queue only by being served or reported.
* `PlanProofs`. `ConfirmedIsShown` (`Spec => ConfirmedMeansShown`): an operation
  is confirmed by the last step of its plan, or because its plan is empty;
  `EmptyPlanMeansShown` says what the latter is worth. `CInv` ties `unverified`
  to the request while a plan is carried out. `SwingIsTurnedSafely` (`Spec =>
  SwingSafety`) and `DryIsAdjustedSafely` (`Spec => DrySafety`): `PlanSound`
  says of any plan from any baseline that rules nothing out which steps carry
  which guards, `SInv` that the plan in progress is such a one, and `SendStep`
  that what is sent is a query or the step whose guard the latest status meets.
* `TimingProofs`. `LineIsFreedInTime` (`DrainAllowance`), `FailureMeansRefusal`
  (`WriteFailedMeansRefused`), `IdleLineIsUsed` (`IdleServes`) and
  `TimeoutIsSilence` (`TimeoutMeansSilence`), all for `~Rollover`: the run
  `rollover` refutes the first without it, and with it the reason why the others
  hold, which is that the line is free when a phase that follows a drain begins.
  This is `TxInv`; the allowance alone is not inductive. `TimeoutIsSilence` also
  has the hypothesis `PollsOutlastOperations`: the polls of a step take as long
  as an operation may live, which is what the 20 polls of 524 ms are to the ten
  seconds of the code. `PollsInv` counts the polls against the operation's age:
  when the n-th response timeout ends, the operation is at least n polls old, so
  that its lifetime ends it before their number does; `SeenInv` says what a
  status that was seen and did not end the wait stands for.

What a step reports is a concatenation of parts, and three of these theorems say
that something is not in it (no success, no write failure, no timeout). The
lemmas about `Excludes` at the end of `TransportProofs` show for any set of
outcomes which actions cannot report it.

### The plan

`WalkProofs` proves everything that the run `plan` checks, for any request and
any baseline, that is for every combination of fields and values at once. It
assumes of requests what `enqueue` takes and `normalize` makes whole, that
statuses are in the ranges of their bits, that a status fits the parser's buffer
and that the array of steps holds nine (`WalkAssumption`):

* `StorageIsOwned`: `WalkSpec => []PlanOwnsStorage`. A plan has nine steps at
  most, of the ten that the array holds;
* `AxesTurnOneByOne`: `WalkSpec => []OneAxisAtATime`;
* `PlansFlow`: `WalkSpec => []PlanFlows`;
* `PlansReachGoals`: `WalkSpec => []PlanReachesGoal`;
* `OnlyTheNamedChanges`: `WalkSpec => NothingElseChanges`;
* `PacketsAreRight`: `WalkSpec => []PacketsFit`;
* `StatusesAreReadBack`: `WalkSpec => []StatusIsReadBack`.

The parts. A plan is a concatenation of seven parts. `Part` says of a part how
many steps it has, in which buffers they are encoded and that a swing step turns
only the axis of its packet (`TurnsOnly`); `PartConcat` adds up two parts whose buffers are apart, and there is
one lemma for each part that needs one.

What the unit does. Six bytes of a packet tell the unit something: its `Key`.
`KeyOf...` gives them for each kind of packet, `Obeys...` what the unit makes of
them, with everything it may take or leave. A plan is then treated as a program
in the manner of Hoare: `Outline(r, P, steps, Q)` says that there is a set of
statuses before, between and after the steps, from P to Q, such that each step
`Leads` from one to the next: its guard lets it be sent, what it is to achieve
is shown, and nothing changes that the request does not name. `OutlineConcat`
puts two outlines together; `Stage` names the sets between the seven parts of
`build_steps_`, with the mode and the setpoint that hold from there on and the
fan speed if no packet has brought another. `Underway` - the unit is where the
outline of its plan has it - is the inductive invariant from which all but the
first two theorems follow; none of the properties is one, because a unit that
shows only what the last step was to achieve need not meet the next guard.

The bytes out. A plan only sends members of `Packets` (part of `Leads`). All
commands are the same but for 13 bytes (`Varying`), so that a command adds up to
463 and these (`Total`): `ChecksumOf`, by induction over the 44 bytes for an
arbitrary command, where a sum over bytes known one by one is out of the
provers' reach. No byte of a command is a marker, so that only the checksum can
need stuffing (`StuffedPair`), which leaves 52 bytes at most, of 64. Then there
is one lemma for each kind of packet, with its sum: for the packets kept as
constants that is the checksum written next to them.

The bytes back. `FrameOfAnswer` takes the frame of any body apart by position,
whatever its checksum is; `BitsReadBack` separates the fields of a byte.

### The component

`ComponentProofs` proves, from `ComponentAssumption` and the assumptions of the
engine, for any calls, automations, statuses and times:

* `PendingIsNewest`: `ComponentSpec => []OverlayIsNewest`;
* `ShowsPresent`: `[]ShownIsPresent`, if `Automations = {} \/ ~Optimistic`. The
  hypothesis is what the run `nested` is about: there an older snapshot is
  published over a newer one;
* `TargetSurvivesItsWay`: `[]PendingTargetRemembered`;
* `NumberShowsFeedback`: `[]NumberIsFeedback`;
* `OnlyCapacityRejects`: `RejectionsAreForCapacity`;
* `WarningEndsWhenSettled`: `WarningClearedWhenSettled`;
* `ComponentTypeCorrect`: `[]ComponentTypeOK`;
* `EngineInComponent`: the engine's invariants, `OneOutcome`,
  `ConfirmedMeansShown`, `SwingSafety`, `DrySafety` and `ImplementsService` hold
  of the engine inside the component. It is called with less than any request at
  any time there, and with more than the callers said: `control` fills in a
  remembered target.

The argument. `CoreInv` is inductive: the engine's `IInv`, uniqueness and order
(`EngineInv`), `OverlayIsNewest` put by means of the newest live operation that
names a field (`OverlayInv`), that the newest live operation has the latest
generation (`LatestInv`), and that every remembered target is one a request may
have been filled with (`MemoryInv`). The engine's part is needed because an
outcome takes a pending field back by its generation: that it is the right one
follows from the generations being distinct, and that it leaves no pending field
behind from each operation having an outcome. A field that has expired in
`LoopBegin` is gone before its operation only until the tick of the same turn,
which ends everything that old. Conversely the engine's part needs the
component's, since what it is offered is a request only if the remembered
targets are. Every step of the engine takes operations away from the front of
what is live (`Drops`) or adds one behind it, possibly in place of the last; one
lemma for each says what becomes of the overlay. On `CoreInv` rest `TargetKept`, `ShownInv` (what is shown in terms of
`dirty`, `publishing` and the turn), `FeedbackInv` and `KindInv`, one for each
theorem.

### The serial line

`SerialLineProofs` proves, from `FrameAssumption` and `LineAssumption` - any
buffer of at least nine bytes, any bodies that fit it, any noise:

* `ParserTypeCorrect`: `LineSpec => []ParserTypeOK`;
* `DiscardsAreCounted`: `CountsDiscarded`;
* `FramesAreDelivered`: `FrameDelivered`;

and, from `EncoderAssumption` (any bytes, any capacities) and nothing else,

* `RoomIsAlwaysExact`: `EncoderSpec => []RoomIsExact`, for every body that
  `encode_command` may be given. With `PacketsAreRight`, by which the packets of
  a plan take at most 64 bytes, it says that `build_steps_` never fails for lack
  of room.

`LineInv` says of the parser that it is within its buffer and that a pending
escape follows a marker (`ParserInv`, `EscapeMarked`), and of a frame which
arrives intact that the parser is where it should be (`Followed`): after k bytes
of it the buffer holds, unstuffed, the first k of them, and what is still to
come is the rest (`Hears`, `Coming`). `WireForm` says what stuffing makes of a
body, byte by byte, so that each `Send` is one case of `feed`. How the checksum
and the length of the stuffed bytes grow with the body are inductions; they are
done by minimal counterexample, over a set of numbers, since a well-founded
relation has a minimal element in any set (`WFMin`).

### Temperatures

`SetpointProofs` proves, for both units, any overrides and steps and any drift
up to the tolerance of the code:

* `RangeSuffices`: the second check of `normalize` is redundant;
* `NormalizeStable`: what `normalize` returns it takes again as it is, with a
  margin; `HalfDegreesAgree`: the half degrees of `Intents` are a faithful
  count of targets;
* `SetpointsAreWhole`: `SetpointsSpec => []SetpointsInv`, every target kept is
  one of the unit's whole degrees;
* `NoCreep`: `SetpointsSpec => RepeatKeepsTarget`;
* `PressesAreWhole`: `SetpointsSpec => PressIsWhole`, for every step that
  `validate_visual` lets pass: what is left of a thousandth is rounded away;
* `ExactLimitsAreTaken`: `OfferedIsTaken`, if the overrides that pass lie in the
  range itself. Without that premise the run `visual` refutes it.

These are linear integer arithmetic once the unit is known: each proof splits on
`Fahrenheit`. The temporal ones rest on `SetpointsInv`, because what is repeated
is what an earlier call or report left.

### Only model-checked

Liveness under fairness (`EveryOperationEnds`, `PollNotStarved`,
`AlwaysIdleAgain`) and everything that needs ENABLED. `DrainAllowance` and
`OfferedIsTaken` are proved under the hypotheses that the runs `rollover` and
`visual` show to be necessary, and `AcceptedAppears` is refuted by `nested`;
without automations `ShowsPresent` is its counterpart. Every other property that
a run checks is a theorem.

## 5. Not modelled

* Logging, its rate limits, `dump_config`: no effect on the state modelled.
* Measurements (temperatures, humidity, compressor) and the climate action:
  copied from a status to sensors by `decode_status` and `apply_status_`.
* `publish_diagnostics_`: it copies counters and, as `connected`, what
  `Connected` is at the end of a turn.
* Packets that nothing sends: sleep, switching the unit of the device.
* Single-precision arithmetic as such: its error is far below 1/90000 of a
  degree for these magnitudes and is part of `Drift`.
* The configuration schema except `validate_visual`: exclusive UART, Celsius and
  DRY where there is a Dry adjustment are assumptions of the models.
* The IDF UART driver and its FIFO, ESPHome and the unit, which are external.
* The component's own liveness: what is pending ends with its operation
  (`EveryOperationEnds`) or with its own expiry in `LoopBegin`, whichever is
  first, so that it follows from the run `live`; over `Component` the state
  space is too large for TLC's liveness check.
* What an automation does when its own call publishes: a second level of
  nesting.

## 6. Plan

Done in this order: `Clock`, `Intents`, `Transport` and its runs; the abstract
`OperationService` and the refinement; `PlanWalk`; `TransportProofs`;
`FrameParser` with `SerialLine`; `Component` over `Transport`; calls from inside
a publication; `Setpoints` and its proofs; `Commands` and `StatusLayout` under
`PlanWalk`.

Then the theorems about lifetimes, confirmations, what is sent, outcomes, and
the refinement.

Then the theorems about the component, the parser and the line, the timers of
the engine, and the plan.

Last the theorems about what a plan does to a unit that obeys it and about the
bytes on the line, from a lemma for each kind of packet.

Not planned further: a proof of liveness, for want of ENABLED.
