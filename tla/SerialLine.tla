----------------------------- MODULE SerialLine -----------------------------
(***************************************************************************)
(* The parser at the end of a line on which the unit sends frames, between *)
(* and within which anything may go wrong: noise, a frame cut short, bytes *)
(* lost, pauses.                                                           *)
(***************************************************************************)
EXTENDS FrameParser

CONSTANTS
    NoiseBytes,     \* bytes that are not part of a frame
    Bodies          \* what the unit may send

Byte == 0 .. 255

\* The unit answers with frames that fit the buffer.
ASSUME LineAssumption ==
    /\ NoiseBytes \subseteq Byte
    /\ \A sent \in Bodies :
          /\ sent \in Seq(Byte) /\ Len(sent) \in 3 .. MaxFrameSize - 6
          /\ sent[1] = Response /\ sent[2] = Control /\ sent[3] = Len(sent) - 3

VARIABLES
    body,           \* of the frame being sent, or <<>>
    left,           \* its bytes still to come
    intact,         \* it began after something else than a marker, and nothing
                    \* happened to it since
    afterMarker     \* the last byte was a marker, not long ago

lineVars == <<parserVars, body, left, intact, afterMarker>>

LineInit ==
    /\ ParserInit
    /\ body = <<>> /\ left = <<>> /\ intact = FALSE /\ afterMarker = FALSE

\* What the line brings reaches the parser.
Arrives(b) == Feed(b) /\ afterMarker' = (b = Marker)

Noise(b) ==
    /\ left = <<>>
    /\ Arrives(b)
    /\ UNCHANGED <<body, left, intact>>

Begin(sent) ==
    /\ left = <<>>
    /\ body' = sent /\ left' = Wire(sent) /\ intact' = ~afterMarker
    /\ returned' = <<>>
    /\ UNCHANGED <<buffer, expected, escapePending, quiet, invalid, afterMarker>>

\* What is being sent is forgotten with the last byte of it.
Rest == body' = IF left' = <<>> THEN <<>> ELSE body

Send ==
    /\ left # <<>>
    /\ Arrives(Head(left))
    /\ left' = Tail(left) /\ Rest
    /\ UNCHANGED intact

\* One byte of the frame, or the rest of it, never arrives.
Lost(remains) ==
    /\ left # <<>> /\ intact
    /\ left' = remains /\ intact' = FALSE /\ Rest
    /\ returned' = <<>>
    /\ UNCHANGED <<buffer, expected, escapePending, quiet, invalid, afterMarker>>

Lose == Lost(Tail(left))

CutShort == Lost(<<>>)

Begun == left # <<>> /\ Len(left) < Len(Wire(body))

Pause ==
    /\ Silence
    /\ intact' = (intact /\ ~(Begun /\ quiet' = InterByteTimeout))
    /\ afterMarker' = (afterMarker /\ quiet' < InterByteTimeout)
    /\ UNCHANGED <<body, left>>

LoopExpires == Expire /\ UNCHANGED <<body, left, intact, afterMarker>>

LineNext ==
    \/ \E b \in NoiseBytes : Noise(b)
    \/ \E sent \in Bodies : Begin(sent)
    \/ Send \/ CutShort \/ Lose \/ Pause \/ LoopExpires

LineSpec == LineInit /\ [][LineNext]_lineVars

-----------------------------------------------------------------------------
\* The buffer and the length never leave their bounds, whatever arrives: the
\* parser stays within buffer_, and a known length is that of some frame.
ParserTypeOK ==
    /\ buffer \in Seq(Byte) /\ size < MaxFrameSize
    /\ expected \in {0} \cup EnvelopeSize .. MaxFrameSize
    /\ expected # 0 => size \in 5 .. expected - 1
    /\ quiet \in 0 .. InterByteTimeout /\ invalid \in 0 .. MaxInvalid
    /\ escapePending => Candidate /\ ~AtFooter

\* The parser finds its way back: whatever arrived before, a frame that begins
\* after anything but a marker and arrives unharmed is returned with its last
\* byte, as the unit meant it.
FrameDelivered ==
    [][ Send /\ Len(left) = 1 /\ intact => returned' = Frame(body) ]_lineVars

Kept ==
    \/ UNCHANGED <<buffer, escapePending>>
    \/ buffer' = buffer /\ escapePending'
    \/ Len(buffer') = size + 1

\* "invalid frames count malformed framed candidates and partial-frame
\* timeouts": each header that is lost is counted, once, and nothing else is.
CountsDiscarded ==
    [][ invalid' = IF Candidate /\ ~Kept /\ returned' = <<>>
                     THEN Counted ELSE invalid ]_lineVars
=============================================================================
