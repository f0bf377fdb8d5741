------------------------------ MODULE Framing ------------------------------
(***************************************************************************)
(* The frames of the serial line.  A body (direction, control byte, length *)
(* and payload) is followed by a checksum and enclosed in a header and a   *)
(* footer; a marker byte within is sent twice.  Bytes are numbers.         *)
(***************************************************************************)
EXTENDS Integers, SequencesExt

CONSTANT MaxFrameSize   \* MAX_FRAME_SIZE

Marker    == 244    \* 0xF4
HeaderEnd == 245    \* 0xF5
FooterEnd == 251    \* 0xFB
Response  == 1
Control   == 64     \* 0x40
EnvelopeSize == 9
MaxPacketSize == 64     \* MAX_COMMAND_WIRE_SIZE

ASSUME FrameAssumption == MaxFrameSize \in Nat /\ MaxFrameSize >= EnvelopeSize

Header == <<Marker, HeaderEnd>>
Footer == <<Marker, FooterEnd>>

\* uint16_t: its addition, and its two bytes, high byte first.
Plus16(m, n) == (m + n) % 65536

Bytes16(n) == <<n \div 256, n % 256>>

Checksum(bytes) ==
    LET sum[n \in 0 .. Len(bytes)] ==
            IF n = 0 THEN 0 ELSE Plus16(sum[n - 1], bytes[n])
    IN  Bytes16(sum[Len(bytes)])

Frame(body) == Header \o body \o Checksum(body) \o Footer

\* valid_frame, for a buffer whose header and footer are those of a frame.
ValidFrame(f) ==
    /\ Len(f) \in EnvelopeSize .. MaxFrameSize
    /\ f[5] + EnvelopeSize = Len(f)
    /\ SubSeq(f, Len(f) - 3, Len(f) - 2) = Checksum(SubSeq(f, 3, Len(f) - 4))

Stuffed(bytes) ==
    FlattenSeq([i \in DOMAIN bytes |->
        IF bytes[i] = Marker THEN <<Marker, Marker>> ELSE <<bytes[i]>>])

\* What goes over the line for a body.
Wire(body) == Header \o Stuffed(body \o Checksum(body)) \o Footer
=============================================================================
