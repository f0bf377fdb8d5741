---------------------------- MODULE MCSerialLine ----------------------------
(***************************************************************************)
(* Both directions of a line.  From the unit: frames with a payload of up  *)
(* to two bytes, which, or whose checksum, may have to be stuffed.  To the *)
(* unit: short commands, and commands as long as a packet may be or a      *)
(* little shorter or longer; buffers that are just large enough, or not.   *)
(***************************************************************************)
EXTENDS SerialLine, CommandEncoder

\* 178 makes the checksum of a payload of one byte end in a marker.
Payloads == {<<>>, <<178>>, <<HeaderEnd>>, <<Marker, Marker>>}

ShortBodies == {<<Response, Control, Len(p)>> \o p : p \in Payloads}

LineNoise == {Response, Control, Marker, HeaderEnd, FooterEnd}

CommandOf(payload) == <<Command, Control, Len(payload)>> \o payload

\* Here 179 makes the lower byte of the checksum a marker.
Short == UNION {[1 .. n -> {0, 179, Marker}] : n \in 0 .. 3}

\* All zero but for the first byte; the third kind makes the checksum hold a
\* marker.
Long == UNION {{[i \in 1 .. n |-> IF i = 1 THEN first ELSE 0] :
                   first \in {0, Marker, 180 - n}} : n \in 52 .. 57}

\* What is refused for its shape.
Misshapen == {<<>>, <<Command, Control>>, <<Response, Control, 0>>,
              <<Command, Control, 1>>, <<Command, Response, 0>>}

MCOffers == {CommandOf(p) : p \in Short \cup Long} \cup Misshapen

MCCapacities == {0} \cup 8 .. 13 \cup 63 .. 66

\* The directions share no variable: what either does alone is all there is to
\* see, and the other one rests meanwhile.
BothInit == LineInit /\ EncoderInit

BothNext ==
    \/ EncoderInit /\ LineNext /\ UNCHANGED encoderVars
    \/ LineInit /\ EncoderNext /\ UNCHANGED lineVars

BothSpec == BothInit /\ [][BothNext]_<<lineVars, encoderVars>>
=============================================================================
