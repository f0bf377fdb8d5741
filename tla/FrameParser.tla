---------------------------- MODULE FrameParser ----------------------------
(***************************************************************************)
(* protocol::FrameParser: from the bytes of the serial line, one at a      *)
(* time, to decoded frames.                                                *)
(***************************************************************************)
EXTENDS Framing

CONSTANTS
    InterByteTimeout,   \* INTER_BYTE_TIMEOUT_MS
    MaxInvalid          \* UINT32_MAX, where invalid_frames_ stops counting

ASSUME ParserAssumption ==
    {InterByteTimeout, MaxInvalid} \subseteq Nat \ {0}

VARIABLES
    buffer,         \* the first size_ bytes of buffer_
    expected,       \* expected_size_, 0 as long as it is not known
    escapePending,  \* escape_pending_
    quiet,          \* time since last_byte_at_, no more than InterByteTimeout
    invalid,        \* invalid_frames_
    returned        \* the frame that the last call returned, or <<>>

parserVars == <<buffer, expected, escapePending, quiet, invalid, returned>>

ParserInit ==
    /\ buffer = <<>> /\ expected = 0 /\ escapePending = FALSE /\ quiet = 0
    /\ invalid = 0 /\ returned = <<>>

size == Len(buffer)

\* A header was seen: losing it now counts as an invalid frame.
Candidate == size >= 2

Stale == buffer # <<>> /\ quiet >= InterByteTimeout

Counted == IF invalid < MaxInvalid THEN invalid + 1 ELSE invalid

\* restart_(b): begin anew with the byte b, if it can begin a frame.
Restarted(b) == IF b = Marker THEN <<Marker>> ELSE <<>>

\* Begin anew with `rest`; what was there is an invalid frame or is not.
StartOver(rest, rejected) ==
    /\ buffer' = rest /\ expected' = 0 /\ escapePending' = FALSE
    /\ invalid' = IF rejected THEN Counted ELSE invalid
    /\ returned' = <<>>

Heard == quiet' = 0

-----------------------------------------------------------------------------
(* feed(b).  First the parser expires, then it takes the byte.             *)

FeedFirst(b) ==
    /\ Heard
    /\ buffer = <<>> \/ Stale
    /\ StartOver(Restarted(b), Stale /\ Candidate)

Fresh == Heard /\ ~Stale

FeedSecond(b) ==
    /\ Fresh /\ size = 1
    /\ StartOver(IF b = HeaderEnd THEN Header ELSE Restarted(b), FALSE)

AtFooter == expected # 0 /\ size >= expected - 2

FooterByte == Footer[size - expected + 3]

FeedFooter(b) ==
    /\ Fresh /\ AtFooter /\ b = FooterByte /\ size = expected - 2
    /\ buffer' = Append(buffer, b)
    /\ returned' = <<>>
    /\ UNCHANGED <<expected, escapePending, invalid>>

FeedLast(b) ==
    /\ Fresh /\ AtFooter /\ b = FooterByte /\ size = expected - 1
    /\ LET frame == Append(buffer, b) IN
         /\ invalid' = IF ValidFrame(frame) THEN invalid ELSE Counted
         /\ returned' = IF ValidFrame(frame) THEN frame ELSE <<>>
    /\ buffer' = <<>> /\ expected' = 0 /\ escapePending' = FALSE

\* Mutant: a header overlapping the rejected footer is not recognized.
FeedBadFooterPlain(b) ==
    /\ Fresh /\ AtFooter /\ b # FooterByte
    /\ StartOver(Restarted(b), TRUE)

\* A new header can overlap the rejected footer.
FeedBadFooter(b) ==
    /\ Fresh /\ AtFooter /\ b # FooterByte
    /\ StartOver(IF size = expected - 1 /\ b = HeaderEnd THEN Header ELSE Restarted(b),
                 TRUE)

InBody == Fresh /\ Candidate /\ ~AtFooter

FeedMarker(b) ==
    /\ InBody /\ ~escapePending /\ b = Marker
    /\ escapePending' = TRUE
    /\ returned' = <<>>
    /\ UNCHANGED <<buffer, expected, invalid>>

\* A marker alone within a body: perhaps the header of the next frame.
FeedBadEscape(b) ==
    /\ InBody /\ escapePending /\ b # Marker
    /\ StartOver(IF b = HeaderEnd THEN Header ELSE <<>>, TRUE)

\* The byte as it stands in the frame: not a marker, or the second of two.
Decoded(b) == InBody /\ (escapePending <=> b = Marker)

\* Mutant: the announced length is taken as it is.
UnfitByteAnyLength(b) ==
    \/ size = 2 /\ b # Response
    \/ size = 3 /\ b # Control

\* The byte that cannot stand where it does: no answer, or too long a frame.
UnfitByte(b) ==
    \/ size = 2 /\ b # Response
    \/ size = 3 /\ b # Control
    \/ size = 4 /\ b + EnvelopeSize > MaxFrameSize

FeedUnfit(b) ==
    /\ Decoded(b) /\ UnfitByte(b)
    /\ StartOver(Restarted(b), TRUE)

FeedBody(b) ==
    /\ Decoded(b) /\ ~UnfitByte(b)
    /\ buffer' = Append(buffer, b)
    /\ expected' = IF size = 4 THEN b + EnvelopeSize ELSE expected
    /\ escapePending' = FALSE
    /\ returned' = <<>>
    /\ UNCHANGED invalid

Feed(b) ==
    \/ FeedFirst(b) \/ FeedSecond(b) \/ FeedFooter(b) \/ FeedLast(b)
    \/ FeedBadFooter(b) \/ FeedMarker(b) \/ FeedBadEscape(b)
    \/ FeedUnfit(b) \/ FeedBody(b)

\* Mutant: a partial frame is dropped without being counted.
ExpireUncounted ==
    /\ Stale /\ Heard
    /\ StartOver(<<>>, FALSE)

\* expire, from loop.
Expire ==
    /\ Stale /\ Heard
    /\ StartOver(<<>>, Candidate)

\* One unit of time without a byte.
Silence ==
    /\ buffer # <<>> /\ quiet < InterByteTimeout
    /\ quiet' = quiet + 1
    /\ returned' = <<>>
    /\ UNCHANGED <<buffer, expected, escapePending, invalid>>
=============================================================================
