---------------------------- MODULE MCComponent ----------------------------
(***************************************************************************)
(* Instances of the component for TLC: what it is asked, what the engine   *)
(* may be asked in turn, and what the unit answers.                        *)
(***************************************************************************)
EXTENDS ComponentProperties, TransportProperties

Running(run, mode, setpoint) ==
    [NoStatus EXCEPT !.run = run, !.mode = mode, !.setpoint = setpoint]

EveryControl == [mode |-> Mode, swing |-> Swing, preset |-> Preset]
WithoutDry == [EveryControl EXCEPT !["mode"] = @ \ {Dry}]
NoCalls == {}

\* Both axes of the swing, and one of them with a preset: calls that share a
\* field, for a unit in Cool whose swing may change at any moment: off, both
\* axes, and the vertical one, which lies halfway.
OverlapCalls == {[swing |-> 3], [swing |-> 2, preset |-> 1]}
OverlapStatuses == {[Running(1, Cool, 23) EXCEPT !.swing = w] : w \in {0, 2, 3}}

\* Heat with a setpoint, Cool with the one remembered, if there is one, also
\* from an automation, and Dry, which is not supported.  The unit may report a
\* target too low for a caller, and its display changes with the mode.
MemoryCalls == {[mode |-> Heat, temperature |-> 50], [mode |-> Cool],
                [mode |-> Dry]}
MemoryAutomations == {[mode |-> Cool]}
MemoryRequests ==
    MemoryCalls \cup {[mode |-> Cool, temperature |-> 2 * t] : t \in {12, 20, 25}}
MemoryStatuses == {Running(1, Heat, 20),
                   [Running(1, Cool, 12) EXCEPT !.backLed = 1]}

\* The display, and a fan speed that follows it.
NestedCalls == {[display |-> 1], [fan |-> 18]}
NestedAutomations == {[fan |-> 18]}
NestedStatuses == {Running(1, Cool, 23)}

\* A Dry adjustment and a setpoint, and a unit in Dry, in Dry with an unknown
\* offset, in Cool, and in a mode that the component does not know: it then
\* keeps the mode of before, while the engine goes by the one reported.
NumberCalls == {[dryOffset |-> -2], [temperature |-> 46]}
Drier(nibble) == [Running(1, Dry, 40) EXCEPT !.compensation = nibble]
NumberStatuses == {Drier(10), Drier(UnknownNibble), Running(1, Cool, 24),
                   Running(1, 7, 23)}
=============================================================================
