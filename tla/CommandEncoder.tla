--------------------------- MODULE CommandEncoder ---------------------------
(***************************************************************************)
(* encode_command: the body of a command is looked at, the room that it    *)
(* takes with everything stuffed is worked out, and only then is it        *)
(* written, all of it or nothing.                                          *)
(***************************************************************************)
EXTENDS Framing

CONSTANTS
    Offers,         \* bodies that are offered, commands or not
    Capacities      \* of the buffers that take the packet

ASSUME EncoderAssumption ==
    Offers \subseteq Seq(0 .. 255) /\ Capacities \subseteq Nat

VARIABLES
    offered,        \* the body of the last call
    capacity,       \* of its output
    output          \* the bytes it has written there: as many as `size` says

encoderVars == <<offered, capacity, output>>

EncoderInit == offered = <<>> /\ capacity = 0 /\ output = <<>>

Command == 0

\* A body to the unit, whose third byte says how long it is.
IsCommand(body) ==
    /\ Len(body) >= 3
    /\ body[1] = Command /\ body[2] = Control /\ body[3] = Len(body) - 3

Markers(bytes) == Cardinality({i \in DOMAIN bytes : bytes[i] = Marker})

\* Mutant: the checksum is taken to need no stuffing.
RequiredUnstuffed(body) == Len(body) + 6 + Markers(body)

\* The size for which the room is checked before anything is written.
Required(body) == Len(body) + 6 + Markers(body) + Markers(Checksum(body))

Takes(body, room) ==
    /\ IsCommand(body) /\ Len(body) <= MaxPacketSize - 6
    /\ Required(body) <= room /\ Required(body) <= MaxPacketSize

Encode(body, room) ==
    /\ offered' = body /\ capacity' = room
    /\ output' = IF Takes(body, room) THEN Wire(body) ELSE <<>>

EncoderNext == \E body \in Offers, room \in Capacities : Encode(body, room)

EncoderSpec == EncoderInit /\ [][EncoderNext]_encoderVars

-----------------------------------------------------------------------------
\* "encoded" and the caller's buffer are never overrun, whatever has to be
\* stuffed, checksum included; and the check of the room is not too strict
\* either: a command is refused only if its packet is longer than the caller's
\* buffer or than MAX_COMMAND_WIRE_SIZE.
RoomIsExact ==
    /\ Len(output) <= capacity /\ Len(output) <= MaxPacketSize
    /\ IsCommand(offered) /\ output = <<>> =>
          Len(Wire(offered)) > capacity \/ Len(Wire(offered)) > MaxPacketSize
=============================================================================
