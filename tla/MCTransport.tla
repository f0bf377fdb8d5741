---------------------------- MODULE MCTransport ----------------------------
(***************************************************************************)
(* Instances of the engine for TLC: what callers ask for and what the unit *)
(* answers, one family of requests at a time.                              *)
(***************************************************************************)
EXTENDS TransportProperties

\* A status that differs from NoStatus in a few members.
Running(run, mode, setpoint) ==
    [NoStatus EXCEPT !.run = run, !.mode = mode, !.setpoint = setpoint]

\* A mode with its setpoint and a preset, and a Dry adjustment; a unit that is
\* off, in Cool, in Dry with the offset wanted, with another one and with an
\* unknown one.
ModeRequests == {[mode |-> 2, temperature |-> 48, preset |-> 1],
                 [dryOffset |-> -1]}
Drier(run, nibble) == [Running(run, Dry, 24) EXCEPT !.compensation = nibble]
ModeStatuses == {Running(0, 2, 24), Running(1, 2, 20), Running(1, 2, 24),
                 Drier(1, 9), Drier(1, 2), Drier(1, UnknownNibble)}

\* Two settings that do not supersede each other, one of which supersedes
\* itself, to fill a longer queue, and a setpoint out of range, which is refused.
QueueRequests == {[display |-> 1], [mode |-> ModeOff], [temperature |-> 31]}
QueueStatuses == {NoStatus}

\* One setting and a unit that may or may not show it.
LiveRequests == {[display |-> 1]}
LiveStatuses == {NoStatus, [NoStatus EXCEPT !.backLed = 1]}
=============================================================================
