-------------------------- MODULE SerialLineProofs --------------------------
(***************************************************************************)
(* Proofs about the bytes of the line: the frame parser at its end, for    *)
(* whatever frames, noise and losses there are, and the room for a command *)
(* that goes the other way.                                                *)
(***************************************************************************)
EXTENDS SerialLine, CommandEncoder, FiniteSetTheorems, SequenceTheorems, WellFoundedInduction, TLAPS

(***************************************************************************)
(* The parser.                                                             *)
(***************************************************************************)
ParserInv ==
    /\ ParserTypeOK
    /\ expected = 0 => size <= 4

LEMMA SizeFacts ==
    ASSUME ParserInv
    PROVE  /\ buffer \in Seq(Byte) /\ size \in Nat /\ (size = 0 <=> buffer = <<>>)
           /\ MaxFrameSize \in Nat /\ MaxFrameSize >= 9
           /\ EnvelopeSize = 9 /\ InterByteTimeout \in Nat /\ InterByteTimeout > 0
           /\ MaxInvalid \in Nat /\ MaxInvalid > 0
           /\ expected = 0 \/ (expected \in 9 .. MaxFrameSize /\ size \in 5 .. expected - 1)
<1>1. buffer \in Seq(Byte) /\ size \in Nat /\ (size = 0 <=> buffer = <<>>)
  BY LenProperties, EmptySeq DEF ParserInv, ParserTypeOK, size
<1> QED
  BY <1>1, FrameAssumption, ParserAssumption
  DEF ParserInv, ParserTypeOK, EnvelopeSize

LEMMA SmallBuffers ==
    /\ <<>> \in Seq(Byte) /\ Len(<<>>) = 0
    /\ Header \in Seq(Byte) /\ Len(Header) = 2
    /\ \A b : Restarted(b) \in Seq(Byte) /\ Len(Restarted(b)) \in 0 .. 1
<1>1. Marker \in Byte /\ HeaderEnd \in Byte
  BY DEF Marker, HeaderEnd, Byte
<1>2. \A x \in Byte : <<x>> \in Seq(Byte) /\ Len(<<x>>) = 1
  OBVIOUS
<1>3. \A x, y \in Byte : <<x, y>> \in Seq(Byte) /\ Len(<<x, y>>) = 2
  OBVIOUS
<1>4. <<>> \in Seq(Byte) /\ Len(<<>>) = 0
  OBVIOUS
<1> QED
  BY <1>1, <1>2, <1>3, <1>4 DEF Header, Restarted

LEMMA CountedType == ASSUME ParserInv PROVE Counted \in 0 .. MaxInvalid
BY SizeFacts DEF Counted, ParserInv, ParserTypeOK

LEMMA StartOverKeeps ==
    ASSUME ParserInv, NEW rest \in Seq(Byte), Len(rest) \in 0 .. 2, NEW rejected,
           StartOver(rest, rejected), quiet' = 0
    PROVE  ParserInv'
<1>1. /\ buffer' = rest /\ expected' = 0 /\ escapePending' = FALSE
      /\ invalid' \in 0 .. MaxInvalid
  BY CountedType DEF StartOver, ParserInv, ParserTypeOK
<1>2. size' = Len(rest)
  BY <1>1 DEF size
<1> QED
  BY <1>1, <1>2, SizeFacts DEF ParserInv, ParserTypeOK

LEMMA FeedKeeps ==
    ASSUME ParserInv, NEW b \in Byte, Feed(b)
    PROVE  ParserInv'
<1>1. /\ <<>> \in Seq(Byte) /\ Len(<<>>) = 0
      /\ Header \in Seq(Byte) /\ Len(Header) = 2
      /\ Restarted(b) \in Seq(Byte) /\ Len(Restarted(b)) \in 0 .. 2
  BY SmallBuffers
<1>2. CASE FeedFirst(b)
  BY <1>1, <1>2, StartOverKeeps DEF FeedFirst, Heard
<1>3. CASE FeedSecond(b)
  <2> DEFINE rest == IF b = HeaderEnd THEN Header ELSE Restarted(b)
  <2>1. rest \in Seq(Byte) /\ Len(rest) \in 0 .. 2
    BY <1>1
  <2>2. StartOver(rest, FALSE) /\ quiet' = 0
    BY <1>3 DEF FeedSecond, Fresh, Heard
  <2> HIDE DEF rest
  <2> QED
    BY <2>1, <2>2, StartOverKeeps
<1>4. CASE FeedFooter(b) \/ FeedBody(b)
  <2>1. /\ buffer' = Append(buffer, b) /\ quiet' = 0 /\ invalid' = invalid
    BY <1>4 DEF FeedFooter, FeedBody, Fresh, Heard, Decoded, InBody
  <2>2. buffer' \in Seq(Byte) /\ size' = size + 1
    BY <2>1, SizeFacts, AppendProperties DEF size
  <2>3. CASE FeedFooter(b)
    <3>1. /\ expected # 0 /\ size = expected - 2 /\ expected' = expected
          /\ escapePending' = escapePending /\ AtFooter
      BY <2>3 DEF FeedFooter, AtFooter
    <3>2. ~escapePending
      BY <3>1 DEF ParserInv, ParserTypeOK
    <3> QED
      BY <2>1, <2>2, <3>1, <3>2, SizeFacts DEF ParserInv, ParserTypeOK
  <2>4. CASE FeedBody(b)
    <3>1. /\ size >= 2 /\ ~AtFooter /\ escapePending' = FALSE
          /\ expected' = IF size = 4 THEN b + EnvelopeSize ELSE expected
          /\ ~(size = 4 /\ b + EnvelopeSize > MaxFrameSize)
      BY <2>4 DEF FeedBody, Decoded, InBody, Candidate, UnfitByte
    <3>2. b \in Nat
      BY DEF Byte
    <3>3. CASE size = 4
      BY <2>1, <2>2, <3>1, <3>2, <3>3, SizeFacts DEF ParserInv, ParserTypeOK
    <3>4. CASE size # 4 /\ expected = 0
      BY <2>1, <2>2, <3>1, <3>4, SizeFacts DEF ParserInv, ParserTypeOK
    <3>5. CASE size # 4 /\ expected # 0
      <4>1. ~(size >= expected - 2)
        BY <3>1, <3>5 DEF AtFooter
      <4>2. size + 1 \in 5 .. expected - 1 /\ size + 1 < MaxFrameSize
        BY <3>5, <4>1, SizeFacts
      <4>3. expected' = expected /\ expected \in EnvelopeSize .. MaxFrameSize
        BY <3>1, <3>5 DEF ParserInv, ParserTypeOK
      <4>4. size' < MaxFrameSize /\ size' \in 5 .. expected' - 1 /\ expected' # 0
        BY <2>2, <3>5, <4>2, <4>3
      <4>5. quiet' \in 0 .. InterByteTimeout /\ invalid' \in 0 .. MaxInvalid
        BY <2>1, SizeFacts DEF ParserInv, ParserTypeOK
      <4> QED
        BY <2>2, <3>1, <4>3, <4>4, <4>5 DEF ParserInv, ParserTypeOK
    <3> QED
      BY <3>3, <3>4, <3>5
  <2> QED
    BY <1>4, <2>3, <2>4
<1>5. CASE FeedLast(b)
  <2>1. /\ buffer' = <<>> /\ expected' = 0 /\ escapePending' = FALSE /\ quiet' = 0
        /\ invalid' \in 0 .. MaxInvalid
    BY <1>5, CountedType DEF FeedLast, Fresh, Heard, ParserInv, ParserTypeOK
  <2>2. size' = 0
    BY <1>1, <2>1 DEF size
  <2> QED
    BY <1>1, <2>1, <2>2, SizeFacts DEF ParserInv, ParserTypeOK
<1>6. CASE FeedBadFooter(b)
  <2> DEFINE rest == IF size = expected - 1 /\ b = HeaderEnd
                       THEN Header ELSE Restarted(b)
  <2>1. rest \in Seq(Byte) /\ Len(rest) \in 0 .. 2
    BY <1>1
  <2>2. StartOver(rest, TRUE) /\ quiet' = 0
    BY <1>6 DEF FeedBadFooter, Fresh, Heard
  <2> HIDE DEF rest
  <2> QED
    BY <2>1, <2>2, StartOverKeeps
<1>7. CASE FeedMarker(b)
  <2>1. /\ escapePending' = TRUE /\ quiet' = 0 /\ Candidate /\ ~AtFooter
        /\ buffer' = buffer /\ expected' = expected /\ invalid' = invalid
    BY <1>7 DEF FeedMarker, InBody, Fresh, Heard
  <2>2. size' = size /\ Candidate' /\ ~AtFooter'
    BY <2>1 DEF size, Candidate, AtFooter
  <2> QED
    BY <2>1, <2>2, SizeFacts DEF ParserInv, ParserTypeOK
<1>8. CASE FeedBadEscape(b)
  <2> DEFINE rest == IF b = HeaderEnd THEN Header ELSE <<>>
  <2>1. rest \in Seq(Byte) /\ Len(rest) \in 0 .. 2
    BY <1>1
  <2>2. StartOver(rest, TRUE) /\ quiet' = 0
    BY <1>8 DEF FeedBadEscape, InBody, Fresh, Heard
  <2> HIDE DEF rest
  <2> QED
    BY <2>1, <2>2, StartOverKeeps
<1>9. CASE FeedUnfit(b)
  BY <1>1, <1>9, StartOverKeeps DEF FeedUnfit, Decoded, InBody, Fresh, Heard
<1> QED
  BY <1>2, <1>3, <1>4, <1>5, <1>6, <1>7, <1>8, <1>9 DEF Feed

LEMMA ExpireKeeps ==
    ASSUME ParserInv, Expire
    PROVE  ParserInv'
<1>1. <<>> \in Seq(Byte) /\ Len(<<>>) \in 0 .. 2
  BY SmallBuffers
<1>2. StartOver(<<>>, Candidate) /\ quiet' = 0
  BY DEF Expire, Heard
<1> QED
  BY <1>1, <1>2, StartOverKeeps

LEMMA SilenceKeeps ==
    ASSUME ParserInv, Silence
    PROVE  ParserInv'
<1>1. /\ quiet' \in 0 .. InterByteTimeout
      /\ buffer' = buffer /\ expected' = expected /\ escapePending' = escapePending
      /\ invalid' = invalid
  BY SizeFacts DEF Silence, ParserInv, ParserTypeOK
<1>2. size' = size /\ Candidate' = Candidate /\ AtFooter' = AtFooter
  BY <1>1 DEF size, Candidate, AtFooter
<1> QED
  BY <1>1, <1>2 DEF ParserInv, ParserTypeOK

LEMMA StillKeeps ==
    ASSUME ParserInv,
           UNCHANGED <<buffer, expected, escapePending, quiet, invalid>>
    PROVE  ParserInv'
<1>1. size' = size /\ Candidate' = Candidate /\ AtFooter' = AtFooter
  BY DEF size, Candidate, AtFooter
<1> QED
  BY <1>1 DEF ParserInv, ParserTypeOK

(***************************************************************************)
(* What the parser discards it counts.                                     *)
(***************************************************************************)
DiscardCounted ==
    invalid' = IF Candidate /\ ~Kept /\ returned' = <<>> THEN Counted ELSE invalid

\* The three ways in which a call leaves what was read so far in the buffer.
LEMMA FeedCounts ==
    ASSUME ParserInv, NEW b \in Byte, Feed(b)
    PROVE  DiscardCounted
<1>a. Len(<<>>) \in 0 .. 1 /\ Len(Header) \in 0 .. 2 /\ Len(Restarted(b)) \in 0 .. 1
  BY SmallBuffers
<1>b. size = Len(buffer) /\ size \in Nat
  BY SizeFacts DEF size
<1>c. \A m \in 0 .. 1 : size >= 2 => m # size /\ m # size + 1
  BY <1>b
<1>d. \A m \in 0 .. 2 : size >= 2 => m # size + 1
  BY <1>b
<1>e. \A m \in 0 .. 2 : size >= 5 => m # size /\ m # size + 1
  BY <1>b
<1>2. CASE FeedFirst(b)
  <2>1. /\ buffer' = Restarted(b) /\ returned' = <<>> /\ escapePending' = FALSE
        /\ invalid' = IF Stale /\ Candidate THEN Counted ELSE invalid
        /\ buffer = <<>> \/ Stale
    BY <1>2 DEF FeedFirst, StartOver
  <2>2. CASE Candidate
    <3>1. buffer' # buffer /\ Len(buffer') # size + 1
      BY <1>a, <1>b, <1>c, <2>1, <2>2 DEF Candidate
    <3>2. buffer # <<>>
      BY SizeFacts, <2>2 DEF Candidate
    <3> QED
      BY <2>1, <2>2, <3>1, <3>2 DEF DiscardCounted, Kept
  <2> QED
    BY <2>1, <2>2 DEF DiscardCounted
<1>3. CASE FeedSecond(b)
  <2>1. invalid' = invalid /\ size = 1
    BY <1>3 DEF FeedSecond, StartOver
  <2>2. ~Candidate
    BY <2>1 DEF Candidate
  <2> QED
    BY <2>1, <2>2 DEF DiscardCounted
<1>4. CASE FeedFooter(b) \/ FeedBody(b)
  <2>1. buffer' = Append(buffer, b) /\ invalid' = invalid
    BY <1>4 DEF FeedFooter, FeedBody
  <2>2. Len(buffer') = size + 1
    BY <2>1, SizeFacts, AppendProperties DEF size
  <2> QED
    BY <2>1, <2>2 DEF DiscardCounted, Kept
<1>5. CASE FeedLast(b)
  <2> DEFINE frame == Append(buffer, b)
  <2>1. frame # <<>>
    BY SizeFacts, AppendProperties, EmptySeq
  <2>2. /\ buffer' = <<>> /\ AtFooter /\ escapePending' = FALSE
        /\ invalid' = IF ValidFrame(frame) THEN invalid ELSE Counted
        /\ returned' = IF ValidFrame(frame) THEN frame ELSE <<>>
    BY <1>5 DEF FeedLast
  <2>3. size >= 2
    <3>1. expected # 0
      BY <2>2 DEF AtFooter
    <3> QED
      BY <3>1, SizeFacts
  <2>4. Len(buffer') # size + 1 /\ buffer' # buffer
    BY <1>a, <1>b, <1>c, <2>2, <2>3
  <2>5. Candidate
    BY <2>3 DEF Candidate
  <2> HIDE DEF frame
  <2> QED
    BY <2>1, <2>2, <2>4, <2>5 DEF DiscardCounted, Kept
<1>6. CASE FeedBadFooter(b)
  <2> DEFINE rest == IF size = expected - 1 /\ b = HeaderEnd
                       THEN Header ELSE Restarted(b)
  <2>1. Len(rest) \in 0 .. 2
    BY <1>a
  <2>2. StartOver(rest, TRUE) /\ AtFooter
    BY <1>6 DEF FeedBadFooter
  <2> HIDE DEF rest
  <2>3. size >= 5
    BY <2>2, SizeFacts DEF AtFooter
  <2>4. Len(rest) # size /\ Len(rest) # size + 1
    BY <1>e, <2>1, <2>3
  <2>5. Candidate /\ ~Kept
    BY <1>b, <2>2, <2>3, <2>4 DEF StartOver, Kept, Candidate
  <2> QED
    BY <2>2, <2>5 DEF StartOver, DiscardCounted
<1>7. CASE FeedMarker(b)
  BY <1>7 DEF FeedMarker, DiscardCounted, Kept
<1>8. CASE FeedBadEscape(b)
  <2> DEFINE rest == IF b = HeaderEnd THEN Header ELSE <<>>
  <2>1. Len(rest) \in 0 .. 2
    BY <1>a
  <2>2. StartOver(rest, TRUE) /\ Candidate /\ escapePending
    BY <1>8 DEF FeedBadEscape, InBody
  <2> HIDE DEF rest
  <2>3. /\ buffer' = rest /\ escapePending' = FALSE /\ returned' = <<>>
        /\ invalid' = Counted
    BY <2>2 DEF StartOver
  <2>4. size >= 2
    BY <2>2 DEF Candidate
  <2>5. Len(rest) # size + 1
    BY <1>d, <2>1, <2>4
  <2> QED
    BY <2>2, <2>3, <2>5 DEF DiscardCounted, Kept
<1>9. CASE FeedUnfit(b)
  <2>1. StartOver(Restarted(b), TRUE) /\ Candidate
    BY <1>9 DEF FeedUnfit, Decoded, InBody
  <2>2. /\ buffer' = Restarted(b) /\ returned' = <<>> /\ invalid' = Counted
    BY <2>1 DEF StartOver
  <2>3. buffer' # buffer /\ Len(buffer') # size + 1
    BY <1>a, <1>b, <1>c, <2>1, <2>2 DEF Candidate
  <2> QED
    BY <2>1, <2>2, <2>3 DEF DiscardCounted, Kept
<1> QED
  BY <1>2, <1>3, <1>4, <1>5, <1>6, <1>7, <1>8, <1>9 DEF Feed

LEMMA ExpireCounts ==
    ASSUME ParserInv, Expire
    PROVE  DiscardCounted
<1>1. /\ buffer' = <<>> /\ returned' = <<>>
      /\ invalid' = IF Candidate THEN Counted ELSE invalid
  BY DEF Expire, StartOver
<1>2. Candidate => ~Kept
  <2>1. Candidate => Len(buffer') # size + 1 /\ buffer' # buffer
    BY <1>1, SizeFacts DEF Candidate, size
  <2> QED
    BY <2>1 DEF Kept
<1> QED
  BY <1>1, <1>2 DEF DiscardCounted

\* What leaves the buffer as it is leaves the count as it is.
LEMMA StillCounts ==
    ASSUME UNCHANGED <<buffer, escapePending, invalid>>
    PROVE  DiscardCounted
BY DEF DiscardCounted, Kept


(***************************************************************************)
(* Stuffing: where the bytes of p stand among those that are sent.         *)
(***************************************************************************)
Joined(s, t, r) ==
    /\ r \in Seq(Byte) /\ Len(r) = Len(s) + Len(t)
    /\ Len(s) \in Nat /\ Len(t) \in Nat
    /\ \A i \in 1 .. Len(s) : r[i] = s[i]
    /\ \A i \in 1 .. Len(t) : r[Len(s) + i] = t[i]

LEMMA ConcatForm ==
    ASSUME NEW s \in Seq(Byte), NEW t \in Seq(Byte)
    PROVE  Joined(s, t, s \o t)
<1>1. /\ s \o t \in Seq(Byte) /\ Len(s \o t) = Len(s) + Len(t)
      /\ Len(s) \in Nat /\ Len(t) \in Nat
  BY ConcatProperties, LenProperties
<1>2. \A i \in 1 .. Len(s) : (s \o t)[i] = s[i]
  BY <1>1, ConcatProperties
<1>3. \A i \in 1 .. Len(t) : (s \o t)[Len(s) + i] = t[i]
  BY <1>1, ConcatProperties
<1> QED
  BY <1>1, <1>2, <1>3 DEF Joined

LEMMA Induction ==
    ASSUME NEW T, 0 \in T, \A n \in Nat : n \in T => n + 1 \in T
    PROVE  Nat \subseteq T
<1> DEFINE R == OpToRel(<, Nat)
           U == Nat \ T
<1>1. IsWellFoundedOn(R, Nat)
  BY NatLessThanWellFounded
<1>2. \A x, y \in Nat : x < y => <<x, y>> \in R
  BY DEF OpToRel
<1> HIDE DEF R
<1> SUFFICES ASSUME U # {} PROVE FALSE
  OBVIOUS
<1>3. PICK m \in U : \A y \in U : ~ (<<y, m>> \in R)
  BY <1>1, WFMin
<1>4. m # 0 /\ m - 1 \in Nat /\ m - 1 < m /\ m = (m - 1) + 1
  BY <1>3
<1>5. m - 1 \in T
  BY <1>2, <1>3, <1>4
<1> QED
  BY <1>3, <1>4, <1>5

MarkersUpTo(p, m) == Cardinality({i \in 1 .. m : p[i] = Marker})

\* The number of bytes sent for the first m of p.
Sent(p, m) == m + MarkersUpTo(p, m)

Width(x) == IF x = Marker THEN 2 ELSE 1

LEMMA SentStep ==
    ASSUME NEW p
    PROVE  /\ Sent(p, 0) = 0
           /\ \A m \in Nat : /\ MarkersUpTo(p, m) \in Nat /\ Sent(p, m) \in Nat
                             /\ Sent(p, m) >= m
                             /\ Sent(p, m + 1) = Sent(p, m) + Width(p[m + 1])
<1> DEFINE M(m) == {i \in 1 .. m : p[i] = Marker}
<1>1. \A m \in Nat : IsFiniteSet(M(m)) /\ Cardinality(M(m)) \in Nat
  <2> SUFFICES ASSUME NEW m \in Nat
               PROVE  IsFiniteSet(M(m)) /\ Cardinality(M(m)) \in Nat
    OBVIOUS
  <2>1. IsFiniteSet(1 .. m) /\ M(m) \subseteq 1 .. m
    BY FS_Interval
  <2> QED
    BY <2>1, FS_Subset, FS_CardinalityType
<1>2. M(0) = {} /\ Cardinality(M(0)) = 0
  BY FS_EmptySet
<1>3. ASSUME NEW m \in Nat
      PROVE  Cardinality(M(m + 1)) = Cardinality(M(m))
                                       + (IF p[m + 1] = Marker THEN 1 ELSE 0)
  <2>1. m + 1 \notin M(m)
    OBVIOUS
  <2>2. CASE p[m + 1] = Marker
    <3>1. M(m + 1) = M(m) \cup {m + 1}
      BY <2>2
    <3> QED
      BY <1>1, <2>1, <2>2, <3>1, FS_AddElement
  <2>3. CASE p[m + 1] # Marker
    <3>1. M(m + 1) = M(m)
      BY <2>3
    <3> QED
      BY <1>1, <2>3, <3>1
  <2> QED
    BY <2>2, <2>3
<1>4. \A m : MarkersUpTo(p, m) = Cardinality(M(m))
  BY DEF MarkersUpTo
<1> HIDE DEF M
<1> QED
  BY <1>1, <1>2, <1>3, <1>4 DEF Sent, Width

LEMMA SentMonotone ==
    ASSUME NEW p, NEW n \in Nat, NEW m \in 0 .. n
    PROVE  Sent(p, m) <= Sent(p, n)
<1> DEFINE T == {k \in Nat : Sent(p, m) <= Sent(p, m + k)}
<1>1. 0 \in T
  BY SentStep
<1>2. ASSUME NEW k \in Nat, k \in T PROVE k + 1 \in T
  <2>1. Sent(p, m + k + 1) = Sent(p, m + k) + Width(p[m + k + 1])
    BY SentStep
  <2>2. Width(p[m + k + 1]) \in 1 .. 2
    BY DEF Width
  <2> QED
    BY <1>2, <2>1, <2>2, SentStep
<1> HIDE DEF T
<1>3. n - m \in T
  BY <1>1, <1>2, Induction
<1> QED
  BY <1>3 DEF T

Doubled(x) == IF x = Marker THEN <<Marker, Marker>> ELSE <<x>>

\* w is what is sent for the first m bytes of p.
Stuffs(p, m, w) ==
    /\ w \in Seq(Byte) /\ Len(w) = Sent(p, m)
    /\ \A i \in 1 .. m :
          /\ w[Sent(p, i - 1) + 1] = p[i]
          /\ p[i] = Marker => w[Sent(p, i - 1) + 2] = Marker

LEMMA DoubledForm ==
    ASSUME NEW x \in Byte
    PROVE  /\ Doubled(x) \in Seq(Byte) /\ Len(Doubled(x)) = Width(x)
           /\ Doubled(x)[1] = x
           /\ x = Marker => Doubled(x)[2] = Marker
<1>1. Marker \in Byte
  BY DEF Marker, Byte
<1> QED
  BY <1>1 DEF Doubled, Width

LEMMA StuffsNext ==
    ASSUME NEW p \in Seq(Byte), NEW m \in Nat, m < Len(p), NEW w, Stuffs(p, m, w)
    PROVE  Stuffs(p, m + 1, w \o Doubled(p[m + 1]))
<1> DEFINE d == Doubled(p[m + 1])
<1>1. p[m + 1] \in Byte
  OBVIOUS
<1>2. /\ d \in Seq(Byte) /\ Len(d) = Width(p[m + 1]) /\ d[1] = p[m + 1]
      /\ p[m + 1] = Marker => d[2] = Marker
  BY <1>1, DoubledForm
<1>3. w \in Seq(Byte) /\ Len(w) = Sent(p, m)
  BY DEF Stuffs
<1>4. w \o d \in Seq(Byte) /\ Len(w \o d) = Sent(p, m + 1)
  <2> HIDE DEF d
  <2>1. w \o d \in Seq(Byte) /\ Len(w \o d) = Len(w) + Len(d)
    BY <1>2, <1>3, ConcatProperties
  <2> QED
    BY <1>2, <1>3, <2>1, SentStep
<1>5. ASSUME NEW i \in 1 .. m + 1
      PROVE  /\ (w \o d)[Sent(p, i - 1) + 1] = p[i]
             /\ p[i] = Marker => (w \o d)[Sent(p, i - 1) + 2] = Marker
  <2>1. CASE i = m + 1
    <3>1. i - 1 = m /\ Sent(p, m) \in Nat /\ Len(d) \in 1 .. 2
          /\ (p[i] = Marker => Len(d) = 2)
      BY <1>2, <2>1, SentStep DEF Width
    <3> HIDE DEF d
    <3>2. /\ (w \o d)[Sent(p, m) + 1] = d[1]
          /\ p[i] = Marker => (w \o d)[Sent(p, m) + 2] = d[2]
      BY <1>2, <1>3, <3>1, ConcatProperties
    <3> QED
      BY <1>2, <2>1, <3>1, <3>2
  <2>2. CASE i # m + 1
    <3>1. i - 1 \in Nat /\ (i - 1) + 1 = i /\ i \in 0 .. m
      BY <2>2
    <3>2. Sent(p, i) = Sent(p, i - 1) + Width(p[i]) /\ Sent(p, i) <= Sent(p, m)
          /\ Sent(p, i - 1) \in Nat
      BY <3>1, SentStep, SentMonotone
    <3>3. /\ Sent(p, i - 1) + 1 \in 1 .. Len(w)
          /\ p[i] = Marker => Sent(p, i - 1) + 2 \in 1 .. Len(w)
      <4>1. Len(w) \in Nat /\ Sent(p, i) <= Len(w) /\ Sent(p, i) \in Nat
        BY <1>3, <3>1, <3>2, SentStep
      <4>2. Width(p[i]) \in 1 .. 2 /\ (p[i] = Marker => Width(p[i]) = 2)
        BY DEF Width
      <4> QED
        BY <3>2, <4>1, <4>2
    <3> HIDE DEF d
    <3>4. \A j \in 1 .. Len(w) : (w \o d)[j] = w[j]
      BY <1>2, <1>3, ConcatProperties
    <3> QED
      BY <2>2, <3>3, <3>4 DEF Stuffs
  <2> QED
    BY <2>1, <2>2
<1> QED
  BY <1>4, <1>5 DEF Stuffs

\* FlattenSeq's recursion over s, up to its m-th sequence.
IsFlat(s, m, flat) ==
    flat = [i \in 1 .. m |-> IF i = 1 THEN s[i] ELSE flat[i - 1] \o s[i]]

LEMMA FlatExists ==
    ASSUME NEW s, NEW n \in Nat
    PROVE  \E flat : IsFlat(s, n, flat)
<1> DEFINE T == {m \in Nat : \E flat : IsFlat(s, m, flat)}
<1>1. 0 \in T
  <2>1. IsFlat(s, 0, <<>>)
    BY DEF IsFlat
  <2> QED
    BY <2>1
<1>2. ASSUME NEW m \in Nat, m \in T PROVE m + 1 \in T
  <2>1. PICK flat : IsFlat(s, m, flat)
    BY <1>2
  <2> DEFINE next == [i \in 1 .. m + 1 |-> IF i <= m THEN flat[i]
                                           ELSE IF i = 1 THEN s[i] ELSE flat[i - 1] \o s[i]]
  <2>2. ASSUME NEW i \in 1 .. m + 1
        PROVE  next[i] = IF i = 1 THEN s[i] ELSE next[i - 1] \o s[i]
    <3>1. i # 1 => i - 1 \in 1 .. m + 1 /\ i - 1 <= m
      OBVIOUS
    <3>2. \A j \in 1 .. m : flat[j] = IF j = 1 THEN s[j] ELSE flat[j - 1] \o s[j]
      BY <2>1 DEF IsFlat
    <3> QED
      BY <3>1, <3>2
  <2>3. IsFlat(s, m + 1, next)
    <3>1. next = [i \in 1 .. m + 1 |-> next[i]]
      OBVIOUS
    <3> HIDE DEF next
    <3> QED
      BY <2>2, <3>1 DEF IsFlat
  <2> QED
    BY <2>3
<1> HIDE DEF T
<1>3. n \in T
  BY <1>1, <1>2, Induction
<1> QED
  BY <1>3 DEF T

LEMMA FlatOf ==
    ASSUME NEW s, Len(s) \in Nat, Len(s) # 0
    PROVE  \E flat : IsFlat(s, Len(s), flat) /\ FlattenSeq(s) = flat[Len(s)]
<1>1. \E flat : IsFlat(s, Len(s), flat)
  BY FlatExists
<1> QED
  BY <1>1 DEF FlattenSeq, IsFlat

LEMMA StuffedForm ==
    ASSUME NEW p \in Seq(Byte), p # <<>>
    PROVE  Stuffs(p, Len(p), Stuffed(p))
<1> DEFINE s == [i \in DOMAIN p |-> IF p[i] = Marker THEN <<Marker, Marker>> ELSE <<p[i]>>]
<1>1. Len(p) \in Nat \ {0} /\ DOMAIN p = 1 .. Len(p)
  BY EmptySeq, LenProperties
<1>2. \A i \in 1 .. Len(p) : s[i] = Doubled(p[i]) /\ s[i] \in Seq(Byte)
  BY <1>1, DoubledForm DEF Doubled
<1>3. s \in Seq(Seq(Byte)) /\ Len(s) = Len(p)
  <2>1. s = [i \in 1 .. Len(p) |-> s[i]]
    BY <1>1
  <2> HIDE DEF s
  <2>2. s \in [1 .. Len(p) -> Seq(Byte)]
    BY <1>2, <2>1
  <2> QED
    BY <1>1, <2>2, IsASeq, LenProperties
<1>4. Stuffed(p) = FlattenSeq(s)
  BY DEF Stuffed
<1> HIDE DEF s
<1>5. PICK flat : IsFlat(s, Len(p), flat) /\ FlattenSeq(s) = flat[Len(p)]
  BY <1>1, <1>3, FlatOf
<1> DEFINE T == {m \in Nat : m + 1 <= Len(p) => Stuffs(p, m + 1, flat[m + 1])}
<1>6. \A i \in 1 .. Len(p) : flat[i] = IF i = 1 THEN s[i] ELSE flat[i - 1] \o s[i]
  BY <1>5 DEF IsFlat
<1>7. 0 \in T
  <2>1. Stuffs(p, 0, <<>>)
    BY SentStep DEF Stuffs
  <2>2. Stuffs(p, 1, <<>> \o Doubled(p[1]))
    <3>1. 0 \in Nat /\ 0 < Len(p) /\ 0 + 1 = 1
      BY <1>1
    <3>2. Stuffs(p, 0 + 1, <<>> \o Doubled(p[0 + 1]))
      BY <2>1, <3>1, StuffsNext
    <3> QED
      BY <3>1, <3>2
  <2>3. flat[1] = Doubled(p[1]) /\ Doubled(p[1]) \in Seq(Byte)
    BY <1>1, <1>2, <1>6
  <2>4. <<>> \o Doubled(p[1]) = Doubled(p[1])
    BY <2>3, ConcatEmptySeq
  <2> QED
    BY <2>2, <2>3, <2>4
<1>8. ASSUME NEW m \in Nat, m \in T PROVE m + 1 \in T
  <2> SUFFICES ASSUME m + 2 <= Len(p) PROVE Stuffs(p, m + 2, flat[m + 2])
    BY <1>1
  <2>1. Stuffs(p, m + 1, flat[m + 1]) /\ m + 1 < Len(p) /\ m + 1 \in Nat
    BY <1>1, <1>8
  <2>2. Stuffs(p, (m + 1) + 1, flat[m + 1] \o Doubled(p[(m + 1) + 1]))
    BY <2>1, StuffsNext
  <2>3. m + 2 \in 1 .. Len(p) /\ m + 2 # 1 /\ (m + 2) - 1 = m + 1 /\ (m + 1) + 1 = m + 2
    BY <1>1
  <2>4. flat[m + 2] = flat[m + 1] \o Doubled(p[m + 2])
    BY <1>2, <1>6, <2>3
  <2> QED
    BY <2>2, <2>3, <2>4
<1> HIDE DEF T
<1>9. Len(p) - 1 \in T /\ (Len(p) - 1) + 1 = Len(p)
  BY <1>1, <1>7, <1>8, Induction
<1>10. Stuffs(p, Len(p), flat[Len(p)])
  BY <1>1, <1>9 DEF T
<1> QED
  BY <1>4, <1>5, <1>10

(***************************************************************************)
(* The checksum, and what is sent for a body.                              *)
(***************************************************************************)
IsSum(bytes, m, sum) ==
    sum = [n \in 0 .. m |-> IF n = 0 THEN 0 ELSE Plus16(sum[n - 1], bytes[n])]

LEMMA SumExists ==
    ASSUME NEW bytes, NEW n \in Nat
    PROVE  \E sum : IsSum(bytes, n, sum)
<1> DEFINE T == {m \in Nat : \E sum : IsSum(bytes, m, sum)}
<1>1. 0 \in T
  <2> DEFINE none == [i \in 0 .. 0 |-> 0]
  <2>1. none = [i \in 0 .. 0 |-> IF i = 0 THEN 0 ELSE Plus16(none[i - 1], bytes[i])]
    OBVIOUS
  <2> HIDE DEF none
  <2>2. IsSum(bytes, 0, none)
    BY <2>1 DEF IsSum
  <2> QED
    BY <2>2
<1>2. ASSUME NEW m \in Nat, m \in T PROVE m + 1 \in T
  <2>1. PICK sum : IsSum(bytes, m, sum)
    BY <1>2
  <2> DEFINE next == [i \in 0 .. m + 1 |-> IF i <= m THEN sum[i]
                                           ELSE Plus16(sum[m], bytes[m + 1])]
  <2>2. ASSUME NEW i \in 0 .. m + 1
        PROVE  next[i] = IF i = 0 THEN 0 ELSE Plus16(next[i - 1], bytes[i])
    <3>1. \A j \in 0 .. m : sum[j] = IF j = 0 THEN 0 ELSE Plus16(sum[j - 1], bytes[j])
      BY <2>1 DEF IsSum
    <3>2. CASE i = m + 1
      <4>1. i - 1 = m /\ m \in 0 .. m + 1 /\ ~(i <= m) /\ i # 0
        BY <3>2
      <4> QED
        BY <3>2, <4>1
    <3>3. CASE i # m + 1
      <4>1. i \in 0 .. m /\ (i # 0 => i - 1 \in 0 .. m /\ i - 1 \in 0 .. m + 1)
        BY <3>3
      <4>2. next[i] = sum[i] /\ (i # 0 => next[i - 1] = sum[i - 1])
        BY <4>1
      <4> HIDE DEF next
      <4> QED
        BY <3>1, <4>1, <4>2
    <3> QED
      BY <3>2, <3>3
  <2>3. IsSum(bytes, m + 1, next)
    <3>1. next = [i \in 0 .. m + 1 |-> next[i]]
      OBVIOUS
    <3> HIDE DEF next
    <3> QED
      BY <2>2, <3>1 DEF IsSum
  <2> QED
    BY <2>3
<1> HIDE DEF T
<1>3. n \in T
  BY <1>1, <1>2, Induction
<1> QED
  BY <1>3 DEF T

Small(x) == x \in Nat /\ x < 65536

LEMMA SmallFacts ==
    /\ Small(0)
    /\ \A x : Small(x) => x \div 256 \in Byte /\ x % 256 \in Byte
    /\ \A x : Small(x) => \A y \in Byte : Small(Plus16(x, y))
<1>1. \A x \in Nat, y \in Nat : (x + y) % 65536 \in Nat /\ (x + y) % 65536 < 65536
  OBVIOUS
<1>2. \A x \in Nat : x < 65536 =>
         x \div 256 \in Nat /\ x \div 256 < 256 /\ x % 256 \in Nat /\ x % 256 < 256
  OBVIOUS
<1>3. \A x : x \in Byte <=> x \in Nat /\ x < 256
  BY DEF Byte
<1> QED
  BY <1>1, <1>2, <1>3 DEF Small, Plus16

LEMMA SumBounded ==
    ASSUME NEW bytes \in Seq(Byte), NEW n \in Nat, n = Len(bytes), NEW sum, IsSum(bytes, n, sum)
    PROVE  Small(sum[n])
<1>1. \A m \in 0 .. n : sum[m] = IF m = 0 THEN 0 ELSE Plus16(sum[m - 1], bytes[m])
  BY DEF IsSum
<1> DEFINE T == {m \in Nat : m <= n => Small(sum[m])}
<1>2. 0 \in T
  <2>1. sum[0] = 0
    BY <1>1
  <2> QED
    BY <2>1, SmallFacts
<1>3. ASSUME NEW m \in Nat, m \in T PROVE m + 1 \in T
  <2> SUFFICES ASSUME m + 1 <= n PROVE Small(sum[m + 1])
    OBVIOUS
  <2>1. /\ Small(sum[m]) /\ m + 1 \in 0 .. n /\ m + 1 # 0
        /\ (m + 1) - 1 = m
    BY <1>3
  <2>2. bytes[m + 1] \in Byte
    OBVIOUS
  <2>3. sum[m + 1] = Plus16(sum[m], bytes[m + 1])
    BY <1>1, <2>1
  <2> QED
    BY <2>1, <2>2, <2>3, SmallFacts
<1> HIDE DEF T
<1>4. n \in T
  BY <1>2, <1>3, Induction
<1> QED
  BY <1>4 DEF T

LEMMA ChecksumBytes ==
    ASSUME NEW bytes \in Seq(Byte)
    PROVE  Checksum(bytes) \in Seq(Byte) /\ Len(Checksum(bytes)) = 2
<1> DEFINE sum == CHOOSE sum :
                    sum = [n \in 0 .. Len(bytes) |->
                             IF n = 0 THEN 0 ELSE Plus16(sum[n - 1], bytes[n])]
<1>1. IsSum(bytes, Len(bytes), sum)
  <2>1. \E f : IsSum(bytes, Len(bytes), f)
    BY LenProperties, SumExists
  <2> QED
    BY <2>1 DEF IsSum
<1>2. Checksum(bytes) = Bytes16(sum[Len(bytes)])
  BY SMT DEF Checksum
<1> HIDE DEF sum
<1>3. Small(sum[Len(bytes)])
  BY <1>1, LenProperties, SumBounded
<1>4. \A x, y \in Byte : <<x, y>> \in Seq(Byte) /\ Len(<<x, y>>) = 2
  OBVIOUS
<1> QED
  BY <1>2, <1>3, <1>4, SmallFacts DEF Bytes16

\* What is stuffed of a body.
Inner(sent) == sent \o Checksum(sent)

LEMMA InnerBytes ==
    ASSUME NEW sent \in Seq(Byte)
    PROVE  /\ Inner(sent) \in Seq(Byte) /\ Len(Inner(sent)) = Len(sent) + 2
           /\ Inner(sent) # <<>> /\ Joined(sent, Checksum(sent), Inner(sent))
           /\ Checksum(sent) \in Seq(Byte) /\ Len(Checksum(sent)) = 2
<1>1. Checksum(sent) \in Seq(Byte) /\ Len(Checksum(sent)) = 2
  BY ChecksumBytes
<1> DEFINE c == Checksum(sent)
<1> HIDE DEF c
<1>2. c \in Seq(Byte) /\ Len(c) = 2 /\ Len(sent) \in Nat
  BY <1>1, LenProperties DEF c
<1>3. Joined(sent, c, sent \o c)
  BY <1>2, ConcatForm
<1>4. /\ sent \o c \in Seq(Byte) /\ Len(sent \o c) = Len(sent) + 2
      /\ sent \o c # <<>>
  BY <1>2, <1>3, EmptySeq DEF Joined
<1>5. Inner(sent) = sent \o c
  BY DEF Inner, c
<1> QED
  BY <1>1, <1>3, <1>4, <1>5 DEF c

LEMMA InnerForm ==
    ASSUME NEW sent \in Bodies
    PROVE  /\ Inner(sent) \in Seq(Byte) /\ Len(Inner(sent)) = Len(sent) + 2
           /\ Len(Inner(sent)) \in 5 .. MaxFrameSize - 4 /\ Inner(sent) # <<>>
           /\ Inner(sent)[1] = Response /\ Inner(sent)[2] = Control
           /\ Inner(sent)[3] = Len(sent) - 3
           /\ sent \in Seq(Byte) /\ Len(sent) \in 3 .. MaxFrameSize - 6
           /\ Checksum(sent) \in Seq(Byte) /\ Len(Checksum(sent)) = 2
           /\ MaxFrameSize \in Nat
<1>1. /\ sent \in Seq(Byte) /\ Len(sent) \in 3 .. MaxFrameSize - 6
      /\ sent[1] = Response /\ sent[2] = Control /\ sent[3] = Len(sent) - 3
      /\ MaxFrameSize \in Nat
  BY LineAssumption, FrameAssumption
<1>2. Checksum(sent) \in Seq(Byte) /\ Len(Checksum(sent)) = 2
  BY <1>1, ChecksumBytes
<1> DEFINE c == Checksum(sent)
<1> HIDE DEF c
<1>3. c \in Seq(Byte) /\ Len(c) = 2
  BY <1>2 DEF c
<1>4. /\ sent \o c \in Seq(Byte) /\ Len(sent \o c) = Len(sent) + 2
      /\ \A i \in 1 .. Len(sent) : (sent \o c)[i] = sent[i]
  <2>1. Joined(sent, c, sent \o c)
    BY <1>1, <1>3, ConcatForm
  <2> QED
    BY <1>3, <2>1 DEF Joined
<1>5. Inner(sent) = sent \o c
  BY DEF Inner, c
<1>6. 1 \in 1 .. Len(sent) /\ 2 \in 1 .. Len(sent) /\ 3 \in 1 .. Len(sent)
  BY <1>1
<1>7. Len(sent) + 2 \in 5 .. MaxFrameSize - 4
  BY <1>1
<1> QED
  BY <1>1, <1>2, <1>4, <1>5, <1>6, <1>7, EmptySeq

\* s between a header and a footer.
Enclosed(s, w) ==
    /\ w \in Seq(Byte) /\ Len(w) = Len(s) + 4 /\ Len(s) \in Nat
    /\ w[1] = Marker /\ w[2] = HeaderEnd
    /\ \A j \in 1 .. Len(s) : w[j + 2] = s[j]
    /\ w[Len(s) + 3] = Marker /\ w[Len(s) + 4] = FooterEnd

LEMMA EnclosedForm ==
    ASSUME NEW s \in Seq(Byte)
    PROVE  Enclosed(s, Header \o s \o Footer)
<1>1. /\ Header \in Seq(Byte) /\ Len(Header) = 2 /\ Header[1] = Marker /\ Header[2] = HeaderEnd
      /\ Footer \in Seq(Byte) /\ Len(Footer) = 2 /\ Footer[1] = Marker /\ Footer[2] = FooterEnd
  BY DEF Header, Footer, Marker, HeaderEnd, FooterEnd, Byte
<1> DEFINE h == Header
           f == Footer
           hs == h \o s
           w == hs \o f
<1> HIDE DEF h, f
<1>2. /\ h \in Seq(Byte) /\ Len(h) = 2 /\ h[1] = Marker /\ h[2] = HeaderEnd
      /\ f \in Seq(Byte) /\ Len(f) = 2 /\ f[1] = Marker /\ f[2] = FooterEnd
  BY <1>1 DEF h, f
<1>3. Joined(h, s, hs)
  BY <1>2, ConcatForm
<1> HIDE DEF hs
<1>4. /\ hs \in Seq(Byte) /\ Len(hs) = Len(s) + 2 /\ Len(s) \in Nat
      /\ \A j \in 1 .. 2 : hs[j] = h[j]
      /\ \A j \in 1 .. Len(s) : hs[j + 2] = s[j]
  BY <1>2, <1>3 DEF Joined
<1>5. Joined(hs, f, w)
  BY <1>2, <1>4, ConcatForm
<1> HIDE DEF w
<1>6. /\ w \in Seq(Byte) /\ Len(w) = Len(s) + 4
      /\ \A j \in 1 .. Len(s) + 2 : w[j] = hs[j]
      /\ \A j \in 1 .. 2 : w[Len(s) + 2 + j] = f[j]
  BY <1>2, <1>4, <1>5 DEF Joined
<1>7. w[1] = Marker /\ w[2] = HeaderEnd
  <2>1. 1 \in 1 .. Len(s) + 2 /\ 2 \in 1 .. Len(s) + 2 /\ 1 \in 1 .. 2 /\ 2 \in 1 .. 2
    BY <1>4
  <2> QED
    BY <1>2, <1>4, <1>6, <2>1
<1>8. \A j \in 1 .. Len(s) : w[j + 2] = s[j]
  <2>1. \A j \in 1 .. Len(s) : j + 2 \in 1 .. Len(s) + 2
    BY <1>4
  <2> QED
    BY <1>4, <1>6, <2>1
<1>9. w[Len(s) + 3] = Marker /\ w[Len(s) + 4] = FooterEnd
  <2>1. /\ Len(s) + 2 + 1 = Len(s) + 3 /\ Len(s) + 2 + 2 = Len(s) + 4
        /\ 1 \in 1 .. 2 /\ 2 \in 1 .. 2
    BY <1>4
  <2> QED
    BY <1>2, <1>6, <2>1
<1>10. Enclosed(s, w)
  BY <1>4, <1>6, <1>7, <1>8, <1>9 DEF Enclosed
<1> QED
  BY <1>10 DEF w, hs, h, f

\* Where the bytes of a body stand on the wire, and in its frame.
OnTheWire(p, n, w) ==
    /\ w \in Seq(Byte) /\ Len(w) = Sent(p, n) + 4
    /\ w[1] = Marker /\ w[2] = HeaderEnd
    /\ \A i \in 1 .. n : /\ w[Sent(p, i - 1) + 3] = p[i]
                         /\ p[i] = Marker => w[Sent(p, i - 1) + 4] = Marker
    /\ w[Sent(p, n) + 3] = Marker /\ w[Sent(p, n) + 4] = FooterEnd

LEMMA WireForm ==
    ASSUME NEW sent \in Seq(Byte)
    PROVE  OnTheWire(Inner(sent), Len(Inner(sent)), Wire(sent))
<1> DEFINE p == Inner(sent)
           n == Len(p)
           w == Wire(sent)
           s == Stuffed(p)
<1>1. p \in Seq(Byte) /\ p # <<>> /\ n \in Nat
  BY InnerBytes, LenProperties
<1>2. Stuffs(p, n, s)
  BY <1>1, StuffedForm
<1>3. w = Header \o s \o Footer
  BY DEF Wire, Inner
<1> HIDE DEF p, w, s
<1>4. /\ s \in Seq(Byte) /\ Len(s) = Sent(p, n) /\ Len(s) \in Nat
      /\ \A i \in 1 .. n : /\ s[Sent(p, i - 1) + 1] = p[i]
                           /\ p[i] = Marker => s[Sent(p, i - 1) + 2] = Marker
  BY <1>1, <1>2, LenProperties DEF Stuffs
<1>5. Enclosed(s, w)
  BY <1>3, <1>4, EnclosedForm
<1>6. ASSUME NEW i \in 1 .. n
      PROVE  /\ w[Sent(p, i - 1) + 3] = p[i]
             /\ p[i] = Marker => w[Sent(p, i - 1) + 4] = Marker
  <2>1. i - 1 \in Nat /\ (i - 1) + 1 = i /\ i \in 0 .. n
    BY <1>1
  <2>2. /\ Sent(p, i) = Sent(p, i - 1) + Width(p[i]) /\ Sent(p, i) <= Sent(p, n)
        /\ Sent(p, i - 1) \in Nat /\ Sent(p, i) \in Nat
    <3>1. Sent(p, i) = Sent(p, i - 1) + Width(p[i]) /\ Sent(p, i - 1) \in Nat
      BY <2>1, SentStep
    <3>2. Sent(p, i) <= Sent(p, n) /\ i \in Nat
      BY <1>1, <2>1, SentMonotone
    <3> QED
      BY <3>1, <3>2, SentStep
  <2>3. Width(p[i]) \in 1 .. 2 /\ (p[i] = Marker => Width(p[i]) = 2)
    BY DEF Width
  <2>4. /\ Sent(p, i - 1) + 1 \in 1 .. Len(s)
        /\ p[i] = Marker => Sent(p, i - 1) + 2 \in 1 .. Len(s)
        /\ (Sent(p, i - 1) + 1) + 2 = Sent(p, i - 1) + 3
        /\ (Sent(p, i - 1) + 2) + 2 = Sent(p, i - 1) + 4
    BY <1>4, <2>2, <2>3
  <2>5. w[Sent(p, i - 1) + 3] = s[Sent(p, i - 1) + 1]
    BY <1>5, <2>4 DEF Enclosed
  <2>6. p[i] = Marker => w[Sent(p, i - 1) + 4] = s[Sent(p, i - 1) + 2]
    BY <1>5, <2>4 DEF Enclosed
  <2> QED
    BY <1>4, <2>5, <2>6
<1>7. OnTheWire(p, n, w)
  BY <1>4, <1>5, <1>6 DEF OnTheWire, Enclosed
<1> QED
  BY <1>7 DEF p, w

LEMMA FrameForm ==
    ASSUME NEW sent \in Bodies
    PROVE  Enclosed(Inner(sent), Frame(sent))
<1>1. /\ Header \in Seq(Byte) /\ sent \in Seq(Byte) /\ Checksum(sent) \in Seq(Byte)
      /\ Inner(sent) \in Seq(Byte)
  BY InnerForm, SmallBuffers
<1>2. (Header \o sent) \o Checksum(sent) = Header \o Inner(sent)
  BY <1>1, ConcatAssociative DEF Inner
<1>3. Frame(sent) = Header \o Inner(sent) \o Footer
  BY <1>2 DEF Frame
<1> QED
  BY <1>1, <1>3, EnclosedForm

LEMMA FrameIsValid ==
    ASSUME NEW sent \in Bodies
    PROVE  ValidFrame(Frame(sent)) /\ Frame(sent) # <<>>
<1> DEFINE p == Inner(sent)
           c == Checksum(sent)
           f == Frame(sent)
           m == Len(sent)
<1>1. Enclosed(p, f) /\ Joined(sent, c, p)
  BY FrameForm, InnerForm, ConcatForm DEF Inner
<1>2. /\ Len(p) = m + 2 /\ p[3] = m - 3 /\ m \in 3 .. MaxFrameSize - 6
      /\ sent \in Seq(Byte) /\ c \in Seq(Byte) /\ Len(c) = 2 /\ MaxFrameSize \in Nat
  BY InnerForm
<1> HIDE DEF p, c, f
<1>3. /\ f \in Seq(Byte) /\ Len(f) = m + 6
      /\ \A j \in 1 .. m + 2 : f[j + 2] = p[j]
  BY <1>1, <1>2 DEF Enclosed
<1>4. (\A i \in 1 .. m : p[i] = sent[i]) /\ (\A i \in 1 .. 2 : p[m + i] = c[i])
  BY <1>1, <1>2 DEF Joined
<1>5. f[5] + EnvelopeSize = Len(f) /\ Len(f) \in EnvelopeSize .. MaxFrameSize
  <2>1. 3 \in 1 .. m + 2 /\ 3 + 2 = 5
    BY <1>2
  <2>2. f[5] = m - 3
    BY <1>2, <1>3, <2>1
  <2> QED
    BY <1>2, <1>3, <2>2 DEF EnvelopeSize
<1>6. SubSeq(f, 3, Len(f) - 4) = sent
  <2> DEFINE t == SubSeq(f, 3, m + 2)
  <2>1. Len(f) - 4 = m + 2 /\ 3 \in 1 .. Len(f) /\ m + 2 \in 2 .. Len(f)
    BY <1>2, <1>3
  <2>2. /\ t \in Seq(Byte) /\ Len(t) = m
        /\ \A i \in 1 .. m : t[i] = f[i + 2]
    <3>1. t \in Seq(Byte)
      BY <1>2, <1>3, <2>1, SubSeqProperties
    <3>2. Len(t) = m
      BY <1>2, <1>3, <2>1, SubSeqProperties
    <3>3. \A i \in 1 .. m : t[i] = f[3 + i - 1] /\ 3 + i - 1 = i + 2
      BY <1>2, <1>3, <2>1, SubSeqProperties
    <3> QED
      BY <3>1, <3>2, <3>3
  <2> HIDE DEF t
  <2>3. \A i \in 1 .. m : i \in 1 .. m + 2
    BY <1>2
  <2>4. \A i \in 1 .. m : t[i] = sent[i]
    BY <1>3, <1>4, <2>2, <2>3
  <2>5. t = sent
    BY <1>2, <2>2, <2>4, SeqEqual
  <2> QED
    BY <2>1, <2>5 DEF t
<1>7. SubSeq(f, Len(f) - 3, Len(f) - 2) = c
  <2> DEFINE t == SubSeq(f, m + 3, m + 4)
  <2>1. /\ Len(f) - 3 = m + 3 /\ Len(f) - 2 = m + 4
        /\ m + 3 \in 1 .. Len(f) /\ m + 4 \in 1 .. Len(f)
    BY <1>2, <1>3
  <2>2. /\ t \in Seq(Byte) /\ Len(t) = 2
        /\ \A i \in 1 .. 2 : t[i] = f[m + 2 + i]
    <3>1. t \in Seq(Byte)
      BY <1>2, <1>3, <2>1, SubSeqProperties
    <3>2. Len(t) = 2
      BY <1>2, <1>3, <2>1, SubSeqProperties
    <3>3. \A i \in 1 .. 2 : t[i] = f[m + 3 + i - 1] /\ m + 3 + i - 1 = m + 2 + i
      BY <1>2, <1>3, <2>1, SubSeqProperties
    <3> QED
      BY <3>1, <3>2, <3>3
  <2> HIDE DEF t
  <2>3. \A i \in 1 .. 2 : m + i \in 1 .. m + 2 /\ (m + i) + 2 = m + 2 + i
    BY <1>2
  <2>4. \A i \in 1 .. 2 : t[i] = c[i]
    BY <1>3, <1>4, <2>2, <2>3
  <2>5. t = c
    BY <1>2, <2>2, <2>4, SeqEqual
  <2> QED
    BY <2>1, <2>5 DEF t
<1>8. f # <<>>
  BY <1>2, <1>3, EmptySeq
<1>9. Checksum(SubSeq(f, 3, Len(f) - 4)) = c
  BY <1>6 DEF c
<1> QED
  BY <1>5, <1>7, <1>8, <1>9 DEF ValidFrame, f

LEMMA MarkersForm ==
    ASSUME NEW s \in Seq(Byte)
    PROVE  Markers(s) = MarkersUpTo(s, Len(s))
<1>1. DOMAIN s = 1 .. Len(s)
  BY LenProperties
<1> QED
  BY <1>1 DEF Markers, MarkersUpTo

\* The room that is checked is what the packet takes, for every body.
LEMMA RoomExact ==
    ASSUME NEW sent \in Seq(Byte)
    PROVE  Len(Wire(sent)) = Required(sent)
<1> DEFINE p == Inner(sent)
           c == Checksum(sent)
           m == Len(sent)
<1>1. Joined(sent, c, p)
  BY InnerBytes
<1>2. /\ Len(p) = m + 2 /\ m \in Nat
      /\ sent \in Seq(Byte) /\ c \in Seq(Byte) /\ Len(c) = 2
  BY InnerBytes, LenProperties
<1>3. Len(Wire(sent)) = Sent(p, m + 2) + 4
  BY <1>2, WireForm DEF OnTheWire
<1>4. Required(sent) = m + 6 + MarkersUpTo(sent, m) + MarkersUpTo(c, 2)
  BY <1>2, MarkersForm DEF Required
<1> HIDE DEF p, c
<1>5. (\A i \in 1 .. m : p[i] = sent[i]) /\ (\A i \in 1 .. 2 : p[m + i] = c[i])
  BY <1>1, <1>2 DEF Joined
<1>6. MarkersUpTo(p, m) = MarkersUpTo(sent, m)
  <2>1. {i \in 1 .. m : p[i] = Marker} = {i \in 1 .. m : sent[i] = Marker}
    BY <1>5
  <2> QED
    BY <2>1 DEF MarkersUpTo
<1>7. p[m + 1] = c[1] /\ p[m + 2] = c[2]
  BY <1>5
<1>8. /\ Sent(p, m + 1) = Sent(p, m) + Width(p[m + 1])
      /\ Sent(p, m + 2) = Sent(p, m + 1) + Width(p[m + 2])
      /\ Sent(p, m) \in Nat /\ MarkersUpTo(p, m) \in Nat
  <2>1. m + 1 \in Nat /\ (m + 1) + 1 = m + 2
    BY <1>2
  <2> QED
    BY <1>2, <2>1, SentStep
<1>9. /\ Sent(c, 1) = Width(c[1]) /\ Sent(c, 2) = Sent(c, 1) + Width(c[2])
      /\ MarkersUpTo(c, 2) \in Nat
  <2>1. 0 \in Nat /\ 1 \in Nat /\ 2 \in Nat /\ 0 + 1 = 1 /\ 1 + 1 = 2
    OBVIOUS
  <2>2. Sent(c, 0 + 1) = Sent(c, 0) + Width(c[0 + 1]) /\ Sent(c, 0) = 0
    BY <2>1, SentStep
  <2>3. Sent(c, 1 + 1) = Sent(c, 1) + Width(c[1 + 1]) /\ MarkersUpTo(c, 2) \in Nat
    BY <2>1, SentStep
  <2>4. Width(c[1]) \in 1 .. 2
    BY DEF Width
  <2> QED
    BY <2>2, <2>3, <2>4
<1>10. Width(c[1]) \in 1 .. 2 /\ Width(c[2]) \in 1 .. 2
  BY DEF Width
<1>11. Sent(p, m) = m + MarkersUpTo(p, m) /\ Sent(c, 2) = 2 + MarkersUpTo(c, 2)
  BY DEF Sent
<1>12. MarkersUpTo(c, 2) = Width(c[1]) + Width(c[2]) - 2
  BY <1>9, <1>10, <1>11
<1>13. Sent(p, m + 2) = m + MarkersUpTo(p, m) + Width(c[1]) + Width(c[2])
  BY <1>2, <1>7, <1>8, <1>10, <1>11
<1> QED
  BY <1>2, <1>3, <1>4, <1>6, <1>8, <1>10, <1>12, <1>13

(***************************************************************************)
(* Which call it is that the byte makes: the conditions exclude each other. *)
(***************************************************************************)
Reading == buffer # <<>> /\ ~Stale

LEMMA OnlyBody ==
    ASSUME NEW b, Feed(b), Reading, size >= 2, size # 1, ~AtFooter,
           escapePending <=> b = Marker, ~UnfitByte(b)
    PROVE  FeedBody(b)
BY DEF Feed, Reading, FeedFirst, FeedSecond, FeedFooter, FeedLast, FeedBadFooter,
       FeedMarker, FeedBadEscape, FeedUnfit

LEMMA OnlyMarker ==
    ASSUME NEW b, Feed(b), Reading, size # 1, ~AtFooter, ~escapePending, b = Marker
    PROVE  FeedMarker(b)
BY DEF Feed, Reading, FeedFirst, FeedSecond, FeedFooter, FeedLast, FeedBadFooter,
       FeedBadEscape, FeedUnfit, FeedBody, Decoded

LEMMA OnlyFooter ==
    ASSUME NEW b, Feed(b), Reading, size # 1, AtFooter, b = FooterByte
    PROVE  \/ FeedFooter(b) /\ size = expected - 2
           \/ FeedLast(b) /\ size = expected - 1
BY DEF Feed, Reading, FeedFirst, FeedSecond, FeedFooter, FeedLast, FeedBadFooter,
       FeedMarker, FeedBadEscape, FeedUnfit, FeedBody, Decoded, InBody

\* After the first byte of a frame: the parser has forgotten what was before,
\* or will, if a header's end follows.
HeaderOpened ==
    \/ size = 1
    \/ Candidate /\ ~AtFooter /\ escapePending
    \/ AtFooter /\ size = expected - 1

LEMMA OpensHeader ==
    ASSUME ParserInv, Feed(Marker), ~escapePending \/ Stale
    PROVE  HeaderOpened' /\ buffer' # <<>> /\ quiet' = 0
<1>0. quiet' = 0
  BY DEF Feed, Heard, Fresh, InBody, Decoded, FeedFirst, FeedSecond, FeedFooter, FeedLast,
         FeedBadFooter, FeedMarker, FeedBadEscape, FeedUnfit, FeedBody
<1>1. /\ Marker # HeaderEnd /\ Marker # FooterEnd
      /\ Restarted(Marker) = <<Marker>> /\ <<Marker>> # <<>> /\ Len(<<Marker>>) = 1
  BY DEF Marker, HeaderEnd, FooterEnd, Restarted
<1>2. ASSUME buffer' = <<Marker>> PROVE HeaderOpened' /\ buffer' # <<>>
  BY <1>1, <1>2 DEF HeaderOpened, size
<1>3. CASE FeedFirst(Marker)
  BY <1>0, <1>1, <1>2, <1>3 DEF FeedFirst, StartOver
<1>4. CASE FeedSecond(Marker)
  BY <1>0, <1>1, <1>2, <1>4 DEF FeedSecond, StartOver
<1>5. CASE FeedFooter(Marker)
  <2>1. /\ buffer' = Append(buffer, Marker) /\ expected' = expected
        /\ expected # 0 /\ size = expected - 2
    BY <1>5 DEF FeedFooter, AtFooter
  <2>2. size' = size + 1 /\ buffer' # <<>>
    BY <2>1, SizeFacts, AppendProperties, EmptySeq DEF size
  <2>3. size' = expected' - 1 /\ expected' # 0 /\ size' >= expected' - 2
    BY <2>1, <2>2, SizeFacts
  <2> QED
    BY <1>0, <2>2, <2>3 DEF HeaderOpened, AtFooter
<1>6. CASE FeedLast(Marker)
  <2>1. Marker = Footer[2]
    <3>1. Marker = FooterByte /\ size = expected - 1 /\ expected # 0
      BY <1>6 DEF FeedLast, AtFooter
    <3>2. size - expected + 3 = 2
      BY <3>1, SizeFacts
    <3> QED
      BY <3>1, <3>2 DEF FooterByte
  <2> QED
    BY <1>1, <2>1 DEF Footer
<1>7. CASE FeedBadFooter(Marker)
  BY <1>0, <1>1, <1>2, <1>7 DEF FeedBadFooter, StartOver
<1>8. CASE FeedMarker(Marker)
  <2>1. /\ escapePending' = TRUE /\ Candidate /\ ~AtFooter
        /\ buffer' = buffer /\ expected' = expected
    BY <1>8 DEF FeedMarker, InBody
  <2>2. size' = size /\ Candidate' /\ ~AtFooter' /\ buffer' # <<>>
    BY <2>1, SizeFacts DEF size, Candidate, AtFooter
  <2> QED
    BY <1>0, <2>1, <2>2 DEF HeaderOpened
<1>9. CASE FeedBadEscape(Marker)
  BY <1>9 DEF FeedBadEscape
<1>10. CASE FeedUnfit(Marker) \/ FeedBody(Marker)
  <2>1. escapePending /\ ~Stale
    BY <1>10 DEF FeedUnfit, FeedBody, Decoded, InBody, Fresh
  <2> QED
    BY <2>1
<1> QED
  BY <1>3, <1>4, <1>5, <1>6, <1>7, <1>8, <1>9, <1>10 DEF Feed

LEMMA ClosesHeader ==
    ASSUME ParserInv, Feed(HeaderEnd), HeaderOpened, Reading
    PROVE  /\ buffer' = Header /\ expected' = 0 /\ escapePending' = FALSE
           /\ quiet' = 0
<1>0. quiet' = 0
  BY DEF Feed, Heard, Fresh, InBody, Decoded, FeedFirst, FeedSecond, FeedFooter, FeedLast,
         FeedBadFooter, FeedMarker, FeedBadEscape, FeedUnfit, FeedBody
<1>1. HeaderEnd # Marker /\ HeaderEnd # FooterEnd /\ Footer[2] = FooterEnd
  BY DEF Marker, HeaderEnd, FooterEnd, Footer
<1>2. CASE size = 1
  <2>1. ~Candidate /\ ~AtFooter
    BY <1>2, SizeFacts DEF Candidate, AtFooter
  <2>2. FeedSecond(HeaderEnd)
    BY <1>2, <2>1 DEF Feed, Reading, FeedFirst, FeedFooter, FeedLast, FeedBadFooter,
       FeedMarker, FeedBadEscape, FeedUnfit, FeedBody, Decoded, InBody
  <2> QED
    BY <1>0, <2>2 DEF FeedSecond, StartOver
<1>3. CASE Candidate /\ ~AtFooter /\ escapePending
  <2>1. size # 1
    BY <1>3, SizeFacts DEF Candidate
  <2>2. FeedBadEscape(HeaderEnd)
    BY <1>1, <1>3, <2>1 DEF Feed, Reading, FeedFirst, FeedSecond, FeedFooter, FeedLast,
       FeedBadFooter, FeedMarker, FeedUnfit, FeedBody, Decoded, InBody
  <2> QED
    BY <1>0, <2>2 DEF FeedBadEscape, StartOver
<1>4. CASE AtFooter /\ size = expected - 1
  <2>1. expected # 0
    BY <1>4 DEF AtFooter
  <2>2. size # 1 /\ size - expected + 3 = 2
    BY <1>4, <2>1, SizeFacts
  <2>3. FooterByte = FooterEnd
    BY <1>1, <2>2 DEF FooterByte
  <2>4. FeedBadFooter(HeaderEnd)
    BY <1>1, <1>4, <2>2, <2>3 DEF Feed, Reading, FeedFirst, FeedSecond, FeedFooter, FeedLast,
       FeedMarker, FeedBadEscape, FeedUnfit, FeedBody, Decoded, InBody
  <2> QED
    BY <1>0, <1>4, <2>4 DEF FeedBadFooter, StartOver
<1> QED
  BY <1>2, <1>3, <1>4 DEF HeaderOpened

(***************************************************************************)
(* The parser follows a frame that arrives unharmed.                       *)
(***************************************************************************)
HasRead(sent, i) ==
    /\ size = i + 2 /\ \A j \in 1 .. i + 2 : buffer[j] = Frame(sent)[j]
    /\ expected = IF i < 3 THEN 0 ELSE Len(sent) + 6

\* What the parser is at when the first k bytes on the wire have come in.
Opened(k) == k = 1 /\ HeaderOpened

Between(sent, k) ==
    \E i \in 0 .. Len(Inner(sent)) :
        HasRead(sent, i) /\ k = Sent(Inner(sent), i) + 2 /\ ~escapePending

Escaped(sent, k) ==
    \E i \in 0 .. Len(Inner(sent)) - 1 :
        /\ HasRead(sent, i) /\ k = Sent(Inner(sent), i) + 3 /\ escapePending
        /\ Inner(sent)[i + 1] = Marker

AlmostRead(sent, k) ==
    /\ HasRead(sent, Len(Inner(sent)) + 1)
    /\ k = Sent(Inner(sent), Len(Inner(sent))) + 3 /\ ~escapePending

Hears(sent, k) ==
    \/ k = 0 /\ (~escapePending \/ Stale)
    \/ Reading /\ (Opened(k) \/ Between(sent, k) \/ Escaped(sent, k) \/ AlmostRead(sent, k))

LEMMA NowReading ==
    ASSUME quiet' = 0, buffer' # <<>>
    PROVE  Reading'
BY ParserAssumption DEF Reading, Stale

LEMMA ReadsOn ==
    ASSUME ParserInv, NEW sent \in Bodies, NEW i \in Nat, HasRead(sent, i),
           NEW b \in Byte, b = Frame(sent)[i + 3], buffer' = Append(buffer, b)
    PROVE  /\ size' = (i + 1) + 2 /\ buffer' # <<>>
           /\ \A j \in 1 .. (i + 1) + 2 : buffer'[j] = Frame(sent)[j]
<1>1. /\ buffer \in Seq(Byte) /\ Len(buffer) = i + 2
      /\ \A j \in 1 .. i + 2 : buffer[j] = Frame(sent)[j]
  BY SizeFacts DEF HasRead, size
<1>2. /\ Len(Append(buffer, b)) = i + 3
      /\ \A j \in 1 .. i + 2 : Append(buffer, b)[j] = buffer[j]
      /\ Append(buffer, b)[i + 3] = b
      /\ Append(buffer, b) \in Seq(Byte)
  BY <1>1, AppendProperties
<1>3. \A j \in 1 .. (i + 1) + 2 : j \in 1 .. i + 2 \/ j = i + 3
  OBVIOUS
<1>4. Append(buffer, b) # <<>>
  BY <1>2, EmptySeq
<1> QED
  BY <1>1, <1>2, <1>3, <1>4 DEF size

\* From a byte of the body to the next.
LEMMA BodyRead ==
    ASSUME ParserInv, NEW sent \in Bodies, NEW i \in 0 .. Len(Inner(sent)) - 1,
           HasRead(sent, i), Reading, NEW b, b = Inner(sent)[i + 1], Feed(b)
    PROVE  /\ b = Marker /\ ~escapePending
                => Reading' /\ HasRead(sent, i)' /\ escapePending'
           /\ (escapePending <=> b = Marker)
                => Reading' /\ HasRead(sent, i + 1)' /\ ~escapePending'
<1>1. /\ Inner(sent) \in Seq(Byte) /\ Len(Inner(sent)) = Len(sent) + 2
      /\ Inner(sent)[1] = Response /\ Inner(sent)[2] = Control
      /\ Inner(sent)[3] = Len(sent) - 3
      /\ Len(sent) \in 3 .. MaxFrameSize - 6 /\ MaxFrameSize \in Nat
  BY InnerForm
<1>2. i \in Nat /\ i + 1 \in 1 .. Len(Inner(sent)) /\ i < Len(sent) + 2 /\ b \in Byte
  BY <1>1
<1>3. size = i + 2 /\ (expected = IF i < 3 THEN 0 ELSE Len(sent) + 6)
  BY DEF HasRead
<1>4. size >= 2 /\ size # 1
  BY <1>2, <1>3
<1>5. ~AtFooter
  <2>1. expected # 0 => expected = Len(sent) + 6
    BY <1>3
  <2>2. expected # 0 => ~(size >= expected - 2)
    BY <1>1, <1>2, <1>3, <2>1
  <2> QED
    BY <2>2 DEF AtFooter
<1>6. ASSUME b = Marker, ~escapePending
      PROVE  Reading' /\ HasRead(sent, i)' /\ escapePending'
  <2>1. FeedMarker(b)
    BY <1>4, <1>5, <1>6, OnlyMarker
  <2>2. /\ escapePending' = TRUE /\ buffer' = buffer /\ expected' = expected
        /\ quiet' = 0
    BY <2>1 DEF FeedMarker, InBody, Fresh, Heard
  <2>3. Reading'
    BY <2>2, NowReading DEF Reading
  <2>4. HasRead(sent, i)'
    BY <2>2 DEF HasRead, size
  <2> QED
    BY <2>2, <2>3, <2>4
<1>7. ASSUME escapePending <=> b = Marker
      PROVE  Reading' /\ HasRead(sent, i + 1)' /\ ~escapePending'
  <2>1. ~UnfitByte(b)
    <3>1. size = 2 => b = Response
      BY <1>1, <1>2, <1>3
    <3>2. size = 3 => b = Control
      <4>1. size = 3 => i + 1 = 2
        BY <1>2, <1>3
      <4> QED
        BY <1>1, <4>1
    <3>3. size = 4 => b = Len(sent) - 3
      <4>1. size = 4 => i + 1 = 3
        BY <1>2, <1>3
      <4> QED
        BY <1>1, <4>1
    <3>4. size = 4 => ~(b + EnvelopeSize > MaxFrameSize)
      BY <1>1, <3>3 DEF EnvelopeSize
    <3> QED
      BY <3>1, <3>2, <3>4 DEF UnfitByte
  <2>2. FeedBody(b)
    BY <1>4, <1>5, <1>7, <2>1, OnlyBody
  <2>3. /\ buffer' = Append(buffer, b) /\ escapePending' = FALSE /\ quiet' = 0
        /\ expected' = IF size = 4 THEN b + EnvelopeSize ELSE expected
    BY <2>2 DEF FeedBody, Decoded, InBody, Fresh, Heard
  <2>4. b = Frame(sent)[i + 3]
    <3>1. \A j \in 1 .. Len(Inner(sent)) : Frame(sent)[j + 2] = Inner(sent)[j]
      BY FrameForm DEF Enclosed
    <3>2. (i + 1) + 2 = i + 3
      BY <1>2
    <3> QED
      BY <1>2, <3>1, <3>2
  <2>5. /\ size' = (i + 1) + 2 /\ buffer' # <<>>
        /\ \A j \in 1 .. (i + 1) + 2 : buffer'[j] = Frame(sent)[j]
    BY <1>2, <2>3, <2>4, ReadsOn
  <2>6. expected' = IF i + 1 < 3 THEN 0 ELSE Len(sent) + 6
    <3>1. CASE size = 4
      <4>1. i = 2 /\ i + 1 = 3
        BY <1>2, <1>3, <3>1
      <4>2. expected' = (Len(sent) - 3) + 9
        BY <1>1, <2>3, <3>1, <4>1 DEF EnvelopeSize
      <4> QED
        BY <1>1, <4>1, <4>2
    <3>2. CASE size # 4
      <4>1. i # 2 /\ expected' = expected
        BY <1>2, <1>3, <2>3, <3>2
      <4> QED
        BY <1>2, <1>3, <4>1
    <3> QED
      BY <3>1, <3>2
  <2>7. HasRead(sent, i + 1)'
    BY <2>5, <2>6 DEF HasRead
  <2> QED
    BY <2>3, <2>5, <2>7, NowReading
<1> QED
  BY <1>6, <1>7

\* The footer is due after the last byte of the body.
LEMMA FooterDue ==
    ASSUME NEW sent \in Bodies, NEW d \in 0 .. 1, HasRead(sent, Len(Inner(sent)) + d)
    PROVE  /\ AtFooter /\ size # 1 /\ size = expected - 2 + d
           /\ FooterByte = Footer[d + 1] /\ expected = Len(sent) + 6
<1>1. Len(Inner(sent)) = Len(sent) + 2 /\ Len(sent) \in Nat /\ Len(sent) >= 3
  BY InnerForm
<1>2. size = Len(sent) + 4 + d /\ expected = Len(sent) + 6
  BY <1>1 DEF HasRead
<1>3. expected # 0 /\ size >= expected - 2 /\ size # 1 /\ size = expected - 2 + d
  BY <1>1, <1>2
<1>4. size - expected + 3 = d + 1
  BY <1>1, <1>2
<1> QED
  BY <1>2, <1>3, <1>4 DEF AtFooter, FooterByte

LEMMA HearsNext ==
    ASSUME ParserInv, NEW sent \in Bodies, NEW k \in Nat, k + 1 < Len(Wire(sent)),
           Hears(sent, k), Feed(Wire(sent)[k + 1])
    PROVE  Hears(sent, k + 1)'
<1> DEFINE p == Inner(sent)
           n == Len(p)
           w == Wire(sent)
<1>1. /\ p \in Seq(Byte) /\ n = Len(sent) + 2 /\ n \in Nat /\ n >= 5
      /\ OnTheWire(p, n, w) /\ Enclosed(p, Frame(sent))
  BY InnerForm, WireForm, FrameForm
<1>2. CASE k = 0 /\ (~escapePending \/ Stale)
  <2>1. w[k + 1] = Marker
    BY <1>1, <1>2 DEF OnTheWire
  <2>2. HeaderOpened' /\ Reading'
    BY <1>2, <2>1, OpensHeader, NowReading
  <2>3. Opened(k + 1)'
    BY <1>2, <2>2 DEF Opened
  <2> QED
    BY <2>2, <2>3 DEF Hears
<1>3. CASE Reading /\ Opened(k)
  <2>1. w[k + 1] = HeaderEnd
    BY <1>1, <1>3 DEF OnTheWire, Opened
  <2>2. buffer' = Header /\ expected' = 0 /\ escapePending' = FALSE /\ quiet' = 0
    BY <1>3, <2>1, ClosesHeader DEF Opened
  <2>3. Header # <<>> /\ Len(Header) = 2 /\ Header[1] = Marker /\ Header[2] = HeaderEnd
    BY DEF Header
  <2>4. HasRead(sent, 0)'
    <3>1. \A j \in 1 .. 0 + 2 : j = 1 \/ j = 2
      OBVIOUS
    <3>2. \A j \in 1 .. 0 + 2 : Header[j] = Frame(sent)[j]
      BY <1>1, <2>3, <3>1 DEF Enclosed
    <3> QED
      BY <2>2, <2>3, <3>2 DEF HasRead, size
  <2>5. k + 1 = Sent(p, 0) + 2 /\ 0 \in 0 .. n
    BY <1>1, <1>3, SentStep DEF Opened
  <2>6. Between(sent, k + 1)'
    BY <2>2, <2>4, <2>5 DEF Between
  <2>7. Reading'
    BY <2>2, <2>3, NowReading
  <2> QED
    BY <2>6, <2>7 DEF Hears
<1>4. CASE Reading /\ Between(sent, k)
  <2>1. PICK i \in 0 .. n : HasRead(sent, i) /\ k = Sent(p, i) + 2 /\ ~escapePending
    BY <1>4 DEF Between
  <2>2. CASE i < n
    <3>1. i \in 0 .. n - 1 /\ i + 1 \in 1 .. n /\ (i + 1) - 1 = i /\ i \in Nat
      BY <1>1, <2>2
    <3>2. Sent(p, i) \in Nat /\ Sent(p, i + 1) = Sent(p, i) + Width(p[i + 1])
      BY <3>1, SentStep
    <3>3. k + 1 = Sent(p, i) + 3
      BY <2>1, <3>2
    <3>4. w[k + 1] = p[i + 1]
      <4>1. w[Sent(p, (i + 1) - 1) + 3] = p[i + 1]
        BY <1>1, <3>1 DEF OnTheWire
      <4> QED
        BY <3>1, <3>3, <4>1
    <3>5. CASE p[i + 1] = Marker
      <4>1. Reading' /\ HasRead(sent, i)' /\ escapePending'
        BY <1>4, <2>1, <3>1, <3>4, <3>5, BodyRead
      <4>2. Escaped(sent, k + 1)'
        BY <3>1, <3>3, <3>5, <4>1 DEF Escaped
      <4> QED
        BY <4>1, <4>2 DEF Hears
    <3>6. CASE p[i + 1] # Marker
      <4>1. Reading' /\ HasRead(sent, i + 1)' /\ ~escapePending'
        BY <1>4, <2>1, <3>1, <3>4, <3>6, BodyRead
      <4>2. k + 1 = Sent(p, i + 1) + 2 /\ i + 1 \in 0 .. n
        BY <3>1, <3>2, <3>3, <3>6 DEF Width
      <4>3. Between(sent, k + 1)'
        BY <4>1, <4>2 DEF Between
      <4> QED
        BY <4>1, <4>3 DEF Hears
    <3> QED
      BY <3>5, <3>6
  <2>3. CASE i = n
    <3>1. HasRead(sent, n + 0) /\ 0 \in 0 .. 1 /\ Footer[0 + 1] = Marker
      BY <1>1, <2>1, <2>3 DEF Footer
    <3>2. /\ AtFooter /\ size # 1 /\ size = expected - 2 /\ FooterByte = Marker
          /\ expected = Len(sent) + 6
      <4>1. /\ AtFooter /\ size # 1 /\ size = expected - 2 + 0
            /\ FooterByte = Footer[0 + 1] /\ expected = Len(sent) + 6
        BY <3>1, FooterDue
      <4>2. expected - 2 + 0 = expected - 2
        BY <1>1, <4>1
      <4> QED
        BY <3>1, <4>1, <4>2
    <3>3. Sent(p, n) \in Nat /\ k + 1 = Sent(p, n) + 3
      <4>1. Sent(p, n) \in Nat
        BY <1>1, SentStep
      <4> QED
        BY <2>1, <2>3, <4>1
    <3>4. w[k + 1] = Marker
      BY <1>1, <3>3 DEF OnTheWire
    <3>5. FeedFooter(Marker)
      <4>1. size # expected - 1
        BY <3>2, SizeFacts
      <4> QED
        BY <1>4, <3>2, <3>4, <4>1, OnlyFooter
    <3>6. /\ buffer' = Append(buffer, Marker) /\ expected' = expected
          /\ escapePending' = escapePending /\ quiet' = 0
      BY <3>5 DEF FeedFooter, Fresh, Heard
    <3>7. Marker = Frame(sent)[n + 3] /\ Marker \in Byte
      BY <1>1 DEF Enclosed, Marker, Byte
    <3>8. /\ size' = (n + 1) + 2 /\ buffer' # <<>>
          /\ \A j \in 1 .. (n + 1) + 2 : buffer'[j] = Frame(sent)[j]
      BY <1>1, <2>1, <2>3, <3>6, <3>7, ReadsOn
    <3>9. expected' = IF n + 1 < 3 THEN 0 ELSE Len(sent) + 6
      BY <1>1, <3>2, <3>6
    <3>10. HasRead(sent, n + 1)'
      BY <3>8, <3>9 DEF HasRead
    <3>11. AlmostRead(sent, k + 1)'
      BY <2>1, <3>3, <3>6, <3>10 DEF AlmostRead
    <3> QED
      BY <3>6, <3>8, <3>11, NowReading DEF Hears
  <2> QED
    BY <1>1, <2>2, <2>3
<1>5. CASE Reading /\ Escaped(sent, k)
  <2>1. PICK i \in 0 .. n - 1 : /\ HasRead(sent, i) /\ k = Sent(p, i) + 3 /\ escapePending
                                /\ p[i + 1] = Marker
    BY <1>5 DEF Escaped
  <2>2. i + 1 \in 1 .. n /\ (i + 1) - 1 = i /\ i \in Nat
    BY <1>1
  <2>3. Sent(p, i) \in Nat /\ Sent(p, i + 1) = Sent(p, i) + Width(p[i + 1])
    BY <2>2, SentStep
  <2>4. k + 1 = Sent(p, i) + 4
    BY <2>1, <2>3
  <2>5. w[k + 1] = p[i + 1]
    BY <1>1, <2>1, <2>2, <2>4 DEF OnTheWire
  <2>6. Reading' /\ HasRead(sent, i + 1)' /\ ~escapePending'
    BY <1>5, <2>1, <2>5, BodyRead
  <2>7. k + 1 = Sent(p, i + 1) + 2 /\ i + 1 \in 0 .. n
    BY <2>1, <2>2, <2>3, <2>4 DEF Width
  <2>8. Between(sent, k + 1)'
    BY <2>6, <2>7 DEF Between
  <2> QED
    BY <2>6, <2>8 DEF Hears
<1>6. CASE Reading /\ AlmostRead(sent, k)
  <2>1. k = Sent(p, n) + 3 /\ Len(w) = Sent(p, n) + 4 /\ Sent(p, n) \in Nat
    BY <1>1, <1>6, SentStep DEF AlmostRead, OnTheWire
  <2> QED
    BY <2>1
<1> QED
  BY <1>2, <1>3, <1>4, <1>5, <1>6 DEF Hears

LEMMA LastByte ==
    ASSUME ParserInv, NEW sent \in Bodies, NEW k \in Nat, k + 1 = Len(Wire(sent)),
           Hears(sent, k), Feed(Wire(sent)[k + 1])
    PROVE  returned' = Frame(sent)
<1> DEFINE p == Inner(sent)
           n == Len(p)
           w == Wire(sent)
           f == Frame(sent)
<1>1. /\ p \in Seq(Byte) /\ n = Len(sent) + 2 /\ n \in Nat /\ n >= 5
      /\ OnTheWire(p, n, w) /\ Enclosed(p, f) /\ ValidFrame(f)
  BY InnerForm, WireForm, FrameForm, FrameIsValid
<1>2. k = Sent(p, n) + 3 /\ Sent(p, n) \in Nat /\ Sent(p, n) >= 5
  <2>1. Sent(p, n) \in Nat /\ Sent(p, n) >= n
    BY <1>1, SentStep
  <2>2. Len(w) = Sent(p, n) + 4
    BY <1>1 DEF OnTheWire
  <2> QED
    BY <1>1, <2>1, <2>2
<1>3. k # 0 /\ ~Opened(k)
  BY <1>2 DEF Opened
<1>4. ~Between(sent, k)
  <2> SUFFICES ASSUME NEW i \in 0 .. n, k = Sent(p, i) + 2 PROVE FALSE
    BY DEF Between
  <2>1. Sent(p, i) <= Sent(p, n) /\ Sent(p, i) \in Nat
    BY <1>1, SentMonotone, SentStep
  <2> QED
    BY <1>2, <2>1
<1>5. ~Escaped(sent, k)
  <2> SUFFICES ASSUME NEW i \in 0 .. n - 1, k = Sent(p, i) + 3, p[i + 1] = Marker
               PROVE  FALSE
    BY DEF Escaped
  <2>1. i \in Nat /\ i + 1 \in 0 .. n
    BY <1>1
  <2>2. /\ Sent(p, i) \in Nat /\ Sent(p, i + 1) = Sent(p, i) + Width(p[i + 1])
    BY <2>1, SentStep
  <2>3. Sent(p, i + 1) <= Sent(p, n)
    BY <1>1, <2>1, SentMonotone
  <2>4. Width(p[i + 1]) = 2
    BY DEF Width
  <2> QED
    BY <1>2, <2>2, <2>3, <2>4
<1>6. Reading /\ HasRead(sent, n + 1) /\ ~escapePending
  BY <1>3, <1>4, <1>5 DEF Hears, AlmostRead
<1>7. w[k + 1] = FooterEnd
  <2>1. k + 1 = Sent(p, n) + 4
    BY <1>2
  <2> QED
    BY <1>1, <2>1 DEF OnTheWire
<1>8. /\ AtFooter /\ size # 1 /\ size = expected - 1 /\ FooterByte = FooterEnd
  <2>1. 1 \in 0 .. 1 /\ Footer[1 + 1] = FooterEnd
    BY DEF Footer
  <2>2. /\ AtFooter /\ size # 1 /\ size = expected - 2 + 1
        /\ FooterByte = Footer[1 + 1]
    BY <1>6, <2>1, FooterDue
  <2> QED
    BY <2>1, <2>2, SizeFacts
<1>9. FeedLast(FooterEnd)
  <2>1. size # expected - 2
    BY <1>8, SizeFacts
  <2> QED
    BY <1>6, <1>7, <1>8, <2>1, OnlyFooter
<1>10. Append(buffer, FooterEnd) = f
  <2>1. /\ buffer \in Seq(Byte) /\ Len(buffer) = n + 3
        /\ \A j \in 1 .. n + 3 : buffer[j] = f[j]
    <3>1. (n + 1) + 2 = n + 3
      BY <1>1
    <3> QED
      BY <1>6, <3>1, SizeFacts DEF HasRead, size
  <2>2. FooterEnd \in Byte
    BY DEF FooterEnd, Byte
  <2>3. /\ Append(buffer, FooterEnd) \in Seq(Byte)
        /\ Len(Append(buffer, FooterEnd)) = n + 4
        /\ \A j \in 1 .. n + 3 : Append(buffer, FooterEnd)[j] = buffer[j]
        /\ Append(buffer, FooterEnd)[n + 4] = FooterEnd
    BY <1>1, <2>1, <2>2, AppendProperties
  <2>4. f \in Seq(Byte) /\ Len(f) = n + 4 /\ f[n + 4] = FooterEnd
    BY <1>1 DEF Enclosed
  <2>5. \A j \in 1 .. n + 4 : j \in 1 .. n + 3 \/ j = n + 4
    BY <1>1
  <2> HIDE DEF f, n
  <2>6. \A j \in 1 .. n + 4 : Append(buffer, FooterEnd)[j] = f[j]
    BY <2>1, <2>3, <2>4, <2>5
  <2> QED
    BY <2>3, <2>4, <2>6, SeqEqual
<1> HIDE DEF f
<1>11. returned' = f
  BY <1>1, <1>9, <1>10 DEF FeedLast
<1> QED
  BY <1>11 DEF f

(***************************************************************************)
(* The line.                                                               *)
(***************************************************************************)
\* The last byte was a marker wherever an escape is pending.
EscapeMarked == escapePending /\ ~Stale => afterMarker

LineOK ==
    /\ left \in Seq(Byte) /\ (left = <<>> <=> body = <<>>)
    /\ body # <<>> => body \in Bodies
    /\ intact \in BOOLEAN /\ afterMarker \in BOOLEAN

\* All but the first k bytes of a frame are still to come.
Coming(sent, k) ==
    /\ Len(left) = Len(Wire(sent)) - k
    /\ \A j \in 1 .. Len(left) : left[j] = Wire(sent)[k + j]

Followed == \E k \in Nat : Coming(body, k) /\ Hears(body, k)

LineInv ==
    /\ ParserInv /\ LineOK /\ EscapeMarked
    /\ left # <<>> /\ intact => Followed

LEMMA WireNonEmpty ==
    ASSUME NEW sent \in Bodies
    PROVE  /\ sent # <<>> /\ Wire(sent) \in Seq(Byte) /\ Wire(sent) # <<>>
           /\ Len(Wire(sent)) \in Nat /\ Len(Wire(sent)) >= 4
<1>1. OnTheWire(Inner(sent), Len(Inner(sent)), Wire(sent)) /\ Len(Inner(sent)) \in Nat
  BY WireForm, InnerForm
<1>2. Sent(Inner(sent), Len(Inner(sent))) \in Nat
  BY <1>1, SentStep
<1>3. /\ Wire(sent) \in Seq(Byte)
      /\ Len(Wire(sent)) = Sent(Inner(sent), Len(Inner(sent))) + 4
  BY <1>1 DEF OnTheWire
<1>4. sent \in Seq(Byte) /\ Len(sent) \in Nat /\ Len(sent) >= 3
  BY InnerForm
<1> QED
  BY <1>2, <1>3, <1>4, EmptySeq

LEMMA HeadAndTail ==
    ASSUME NEW s \in Seq(Byte), s # <<>>
    PROVE  /\ Head(s) \in Byte /\ Head(s) = s[1] /\ Tail(s) \in Seq(Byte)
           /\ Len(s) \in Nat /\ Len(s) >= 1 /\ Len(Tail(s)) = Len(s) - 1
           /\ \A j \in 1 .. Len(s) - 1 : Tail(s)[j] = s[j + 1]
<1>1. Len(s) \in Nat /\ Len(s) # 0
  BY LenProperties, EmptySeq
<1> QED
  BY <1>1, HeadTailProperties

LEMMA FeedMarks ==
    ASSUME ParserInv, EscapeMarked, NEW b \in Byte, Arrives(b)
    PROVE  EscapeMarked' /\ afterMarker' \in BOOLEAN
<1>1. Feed(b) /\ afterMarker' = (b = Marker)
  BY DEF Arrives
<1>2. b # Marker => ~escapePending'
  <2> SUFFICES ASSUME b # Marker PROVE ~escapePending'
    OBVIOUS
  <2>1. AtFooter => ~escapePending
    BY DEF ParserInv, ParserTypeOK
  <2> QED
    BY <1>1, <2>1 DEF Feed, FeedFirst, FeedSecond, FeedFooter, FeedLast, FeedBadFooter,
       FeedMarker, FeedBadEscape, FeedUnfit, FeedBody, StartOver
<1> QED
  BY <1>1, <1>2 DEF EscapeMarked

LEMMA InitKeeps == ASSUME LineInit PROVE LineInv
<1>1. buffer = <<>> /\ expected = 0 /\ escapePending = FALSE /\ quiet = 0 /\ invalid = 0
  BY DEF LineInit, ParserInit
<1>2. size = 0 /\ buffer \in Seq(Byte)
  BY <1>1, SmallBuffers DEF size
<1>3. ParserInv
  BY <1>1, <1>2, FrameAssumption, ParserAssumption
  DEF ParserInv, ParserTypeOK, EnvelopeSize
<1> QED
  BY <1>1, <1>3, SmallBuffers DEF LineInv, LineInit, LineOK, EscapeMarked

LEMMA SendKeeps ==
    ASSUME LineInv, Send
    PROVE  /\ LineInv' /\ DiscardCounted
           /\ Len(left) = 1 /\ intact => returned' = Frame(body)
<1>1. /\ left # <<>> /\ Arrives(Head(left)) /\ left' = Tail(left) /\ intact' = intact
      /\ body' = IF left' = <<>> THEN <<>> ELSE body
  BY DEF Send, Rest
<1>2. /\ ParserInv /\ LineOK /\ EscapeMarked /\ (intact => Followed)
      /\ left \in Seq(Byte) /\ body # <<>> /\ body \in Bodies
  BY <1>1 DEF LineInv, LineOK
<1>3. /\ Head(left) \in Byte /\ Head(left) = left[1] /\ Tail(left) \in Seq(Byte)
      /\ Len(left) \in Nat /\ Len(left) >= 1 /\ Len(Tail(left)) = Len(left) - 1
      /\ \A j \in 1 .. Len(left) - 1 : Tail(left)[j] = left[j + 1]
  BY <1>1, <1>2, HeadAndTail
<1>4. Feed(Head(left))
  BY <1>1 DEF Arrives
<1>5. ParserInv' /\ EscapeMarked' /\ afterMarker' \in BOOLEAN /\ DiscardCounted
  BY <1>1, <1>2, <1>3, <1>4, FeedKeeps, FeedMarks, FeedCounts
<1>6. LineOK'
  BY <1>1, <1>2, <1>3, <1>5 DEF LineOK
<1>7. ASSUME intact
      PROVE  /\ left' # <<>> => Followed'
             /\ Len(left) = 1 => returned' = Frame(body)
  <2>1. PICK k \in Nat : Coming(body, k) /\ Hears(body, k)
    BY <1>2, <1>7 DEF Followed
  <2>2. /\ Len(left) = Len(Wire(body)) - k /\ Len(Wire(body)) \in Nat
        /\ \A j \in 1 .. Len(left) : left[j] = Wire(body)[k + j]
    BY <1>2, <2>1, WireNonEmpty DEF Coming
  <2>0. Len(left) = Len(Wire(body)) - k /\ Len(Wire(body)) \in Nat
    BY <2>2
  <2>3. Head(left) = Wire(body)[k + 1]
    BY <1>3, <2>2
  <2>4. Feed(Wire(body)[k + 1])
    BY <1>4, <2>3
  <2>5. CASE Len(left) = 1
    <3>1. left' = <<>>
      BY <1>1, <1>3, <2>5, EmptySeq
    <3>2. k + 1 = Len(Wire(body))
      <4>1. \A m \in Nat : 1 = m - k => k + 1 = m
        OBVIOUS
      <4> QED
        BY <2>0, <2>5, <4>1
    <3> QED
      BY <1>2, <2>1, <2>4, <3>1, <3>2, LastByte
  <2>6. CASE Len(left) # 1
    <3>1. k + 1 < Len(Wire(body))
      BY <1>3, <2>2, <2>6
    <3>3. left' # <<>> /\ body' = body
      <4>1. Len(left') \in Nat /\ Len(left') # 0
        BY <1>1, <1>3, <2>6
      <4>2. left' # <<>>
        BY <4>1, SmallBuffers
      <4> QED
        BY <1>1, <4>2
    <3>2. Hears(body, k + 1)'
      <4>1. \A sent \in Bodies : sent = body => Hears(sent, k + 1)'
        <5> SUFFICES ASSUME NEW sent \in Bodies, sent = body
                     PROVE  Hears(sent, k + 1)'
          OBVIOUS
        <5>1. Hears(sent, k) /\ Feed(Wire(sent)[k + 1]) /\ k + 1 < Len(Wire(sent))
          BY <2>1, <2>4, <3>1
        <5> QED
          BY <1>2, <5>1, HearsNext
      <4> QED
        BY <1>2, <3>3, <4>1
    <3>4. Coming(body, k + 1)'
      <4>1. Len(left') = Len(Wire(body)) - (k + 1)
        BY <1>1, <1>3, <2>2
      <4>2. \A j \in 1 .. Len(left') : left'[j] = Wire(body)[(k + 1) + j]
        <5> SUFFICES ASSUME NEW j \in 1 .. Len(left')
                     PROVE  left'[j] = Wire(body)[(k + 1) + j]
          OBVIOUS
        <5>1. /\ j \in 1 .. Len(left) - 1 /\ j + 1 \in 1 .. Len(left)
              /\ k + (j + 1) = (k + 1) + j
          BY <1>1, <1>3
        <5>2. left'[j] = left[j + 1]
          BY <1>1, <1>3, <5>1
        <5>3. left[j + 1] = Wire(body)[k + (j + 1)]
          BY <2>2, <5>1
        <5> QED
          BY <5>1, <5>2, <5>3
      <4> QED
        BY <3>3, <4>1, <4>2 DEF Coming
    <3>5. k + 1 \in Nat
      OBVIOUS
    <3>6. Followed'
      BY <3>2, <3>4, <3>5 DEF Followed
    <3> QED
      BY <2>6, <3>6
  <2> QED
    BY <2>5, <2>6
<1> QED
  BY <1>1, <1>5, <1>6, <1>7 DEF LineInv

LEMMA NoiseKeeps ==
    ASSUME LineInv, NEW b \in NoiseBytes, Noise(b)
    PROVE  LineInv' /\ DiscardCounted
<1>1. /\ ParserInv /\ LineOK /\ EscapeMarked /\ b \in Byte
      /\ left = <<>> /\ Arrives(b) /\ body' = body /\ left' = left /\ intact' = intact
  BY LineAssumption DEF LineInv, Noise
<1>2. Feed(b)
  BY <1>1 DEF Arrives
<1>3. ParserInv' /\ EscapeMarked' /\ afterMarker' \in BOOLEAN /\ DiscardCounted
  BY <1>1, <1>2, FeedKeeps, FeedMarks, FeedCounts
<1>4. LineOK'
  BY <1>1, <1>3 DEF LineOK
<1> QED
  BY <1>1, <1>3, <1>4 DEF LineInv

\* As long as the parser is left alone, so is what holds of it.
LEMMA StillOK ==
    ASSUME LineInv, UNCHANGED <<buffer, expected, escapePending, quiet, invalid>>
    PROVE  /\ ParserInv' /\ DiscardCounted
           /\ (Stale' <=> Stale) /\ (escapePending' <=> escapePending)
           /\ (Reading' <=> Reading) /\ (HeaderOpened' <=> HeaderOpened)
           /\ size' = size
BY StillKeeps, StillCounts
DEF LineInv, Stale, Reading, HeaderOpened, size, Candidate, AtFooter

LEMMA BeginKeeps ==
    ASSUME LineInv, NEW sent \in Bodies, Begin(sent)
    PROVE  LineInv' /\ DiscardCounted
<1>1. /\ body' = sent /\ left' = Wire(sent) /\ intact' = ~afterMarker
      /\ UNCHANGED <<buffer, expected, escapePending, quiet, invalid>>
      /\ afterMarker' = afterMarker
  BY DEF Begin
<1>2. /\ ParserInv' /\ DiscardCounted
      /\ (Stale' <=> Stale) /\ (escapePending' <=> escapePending)
  BY <1>1, StillOK
<1>3. LineOK /\ EscapeMarked
  BY DEF LineInv
<1>4. /\ sent # <<>> /\ Wire(sent) \in Seq(Byte) /\ Wire(sent) # <<>>
      /\ Len(Wire(sent)) \in Nat
  BY WireNonEmpty
<1>5. LineOK' /\ EscapeMarked'
  BY <1>1, <1>2, <1>3, <1>4 DEF LineOK, EscapeMarked
<1>6. intact' => Followed'
  <2> SUFFICES ASSUME intact' PROVE Followed'
    OBVIOUS
  <2>1. ~escapePending' \/ Stale'
    BY <1>1, <1>2, <1>3 DEF LineOK, EscapeMarked
  <2>2. Hears(body, 0)'
    BY <2>1 DEF Hears
  <2>3. Coming(body, 0)'
    BY <1>1, <1>4 DEF Coming
  <2> QED
    BY <2>2, <2>3 DEF Followed
<1> QED
  BY <1>2, <1>5, <1>6 DEF LineInv

LEMMA LostKeeps ==
    ASSUME LineInv, NEW remains \in Seq(Byte), Lost(remains)
    PROVE  LineInv' /\ DiscardCounted
<1>1. /\ left # <<>> /\ left' = remains /\ intact' = FALSE
      /\ body' = IF left' = <<>> THEN <<>> ELSE body
      /\ UNCHANGED <<buffer, expected, escapePending, quiet, invalid>>
      /\ afterMarker' = afterMarker
  BY DEF Lost, Rest
<1>2. /\ ParserInv' /\ DiscardCounted
      /\ (Stale' <=> Stale) /\ (escapePending' <=> escapePending)
  BY <1>1, StillOK
<1>3. LineOK /\ EscapeMarked
  BY DEF LineInv
<1>4. LineOK' /\ EscapeMarked'
  BY <1>1, <1>2, <1>3 DEF LineOK, EscapeMarked
<1> QED
  BY <1>1, <1>2, <1>4 DEF LineInv

LEMMA PauseKeeps ==
    ASSUME LineInv, Pause
    PROVE  LineInv' /\ DiscardCounted
<1>1. /\ Silence /\ body' = body /\ left' = left
      /\ intact' = (intact /\ ~(Begun /\ quiet' = InterByteTimeout))
      /\ afterMarker' = (afterMarker /\ quiet' < InterByteTimeout)
  BY DEF Pause
<1>2. /\ UNCHANGED <<buffer, expected, escapePending, invalid>> /\ buffer # <<>>
      /\ quiet' = quiet + 1 /\ quiet < InterByteTimeout
      /\ quiet \in Nat /\ InterByteTimeout \in Nat
  BY <1>1, SizeFacts DEF Silence, LineInv, ParserInv, ParserTypeOK
<1>3. ParserInv' /\ DiscardCounted
  BY <1>1, <1>2, SilenceKeeps, StillCounts DEF LineInv
<1>4. /\ LineOK /\ EscapeMarked /\ ~Stale
      /\ (Stale' <=> quiet' = InterByteTimeout)
      /\ (quiet' < InterByteTimeout <=> quiet' # InterByteTimeout)
  BY <1>2 DEF LineInv, Stale
<1>5. LineOK' /\ EscapeMarked'
  BY <1>1, <1>2, <1>4 DEF LineOK, EscapeMarked
<1>6. left' # <<>> /\ intact' => Followed'
  <2> SUFFICES ASSUME left # <<>>, intact, ~(Begun /\ Stale') PROVE Followed'
    BY <1>1, <1>4 DEF LineOK
  <2>1. PICK k \in Nat : Coming(body, k) /\ Hears(body, k)
    BY DEF LineInv, Followed
  <2>2. Coming(body, k)'
    BY <1>1, <2>1 DEF Coming
  <2>3. k = 0 \/ Begun
    <3>1. Len(left) = Len(Wire(body)) - k /\ Len(Wire(body)) \in Nat
      BY <1>4, <2>1, WireNonEmpty DEF Coming, LineOK
    <3>2. k # 0 => Len(left) < Len(Wire(body))
      BY <3>1
    <3> QED
      BY <3>2 DEF Begun
  <2>4. Hears(body, k)'
    <3>1. CASE k = 0 /\ (~escapePending \/ Stale)
      BY <1>2, <1>4, <3>1 DEF Hears
    <3>2. CASE Reading /\ Opened(k)
      <4>1. Begun
        BY <2>3, <3>2 DEF Opened
      <4>2. Reading' /\ (HeaderOpened' <=> HeaderOpened)
        BY <1>2, <4>1 DEF Reading, HeaderOpened, size, Candidate, AtFooter
      <4> QED
        BY <3>2, <4>2 DEF Hears, Opened
    <3>3. CASE Reading /\ Between(body, k)
      <4>1. k # 0
        <5>1. PICK i \in 0 .. Len(Inner(body)) : k = Sent(Inner(body), i) + 2
          BY <3>3 DEF Between
        <5>2. Sent(Inner(body), i) \in Nat
          BY SentStep
        <5> QED
          BY <5>1, <5>2
      <4>2. Reading'
        BY <1>2, <2>3, <4>1 DEF Reading
      <4>3. Between(body, k)'
        BY <1>1, <1>2, <3>3 DEF Between, HasRead, size
      <4> QED
        BY <4>2, <4>3 DEF Hears
    <3>4. CASE Reading /\ Escaped(body, k)
      <4>1. k # 0
        <5>1. PICK i \in 0 .. Len(Inner(body)) - 1 : k = Sent(Inner(body), i) + 3
          BY <3>4 DEF Escaped
        <5>2. Sent(Inner(body), i) \in Nat
          BY SentStep
        <5> QED
          BY <5>1, <5>2
      <4>2. Reading'
        BY <1>2, <2>3, <4>1 DEF Reading
      <4>3. Escaped(body, k)'
        BY <1>1, <1>2, <3>4 DEF Escaped, HasRead, size
      <4> QED
        BY <4>2, <4>3 DEF Hears
    <3>5. CASE Reading /\ AlmostRead(body, k)
      <4>1. k # 0
        <5>1. k = Sent(Inner(body), Len(Inner(body))) + 3 /\ Len(Inner(body)) \in Nat
          BY <1>4, <3>5, InnerForm DEF AlmostRead, LineOK
        <5>2. Sent(Inner(body), Len(Inner(body))) \in Nat
          BY <5>1, SentStep
        <5> QED
          BY <5>1, <5>2
      <4>2. Reading'
        BY <1>2, <2>3, <4>1 DEF Reading
      <4>3. AlmostRead(body, k)'
        BY <1>1, <1>2, <3>5 DEF AlmostRead, HasRead, size
      <4> QED
        BY <4>2, <4>3 DEF Hears
    <3> QED
      BY <2>1, <3>1, <3>2, <3>3, <3>4, <3>5 DEF Hears
  <2> QED
    BY <2>2, <2>4 DEF Followed
<1> QED
  BY <1>3, <1>5, <1>6 DEF LineInv

LEMMA ExpiresKeeps ==
    ASSUME LineInv, LoopExpires
    PROVE  LineInv' /\ DiscardCounted
<1>1. /\ Expire /\ Stale /\ body' = body /\ left' = left /\ intact' = intact
      /\ afterMarker' = afterMarker /\ buffer' = <<>> /\ escapePending' = FALSE
  BY DEF LoopExpires, Expire, StartOver
<1>2. ParserInv /\ LineOK
  BY DEF LineInv
<1>3. ParserInv' /\ DiscardCounted
  BY <1>1, <1>2, ExpireKeeps, ExpireCounts
<1>4. LineOK' /\ EscapeMarked'
  BY <1>1, <1>2 DEF LineOK, EscapeMarked
<1>5. left' # <<>> /\ intact' => Followed'
  <2> SUFFICES ASSUME left # <<>>, intact PROVE Followed'
    BY <1>1
  <2>1. PICK k \in Nat : Coming(body, k) /\ Hears(body, k)
    BY DEF LineInv, Followed
  <2>2. k = 0
    BY <1>1, <2>1 DEF Hears, Reading
  <2>3. Coming(body, k)' /\ Hears(body, k)'
    BY <1>1, <2>1, <2>2 DEF Coming, Hears
  <2> QED
    BY <2>3 DEF Followed
<1> QED
  BY <1>3, <1>4, <1>5 DEF LineInv

LEMMA StutterKeeps ==
    ASSUME LineInv, UNCHANGED lineVars
    PROVE  LineInv' /\ DiscardCounted
<1>1. /\ UNCHANGED <<buffer, expected, escapePending, quiet, invalid>>
      /\ UNCHANGED <<body, left, intact, afterMarker>>
  BY DEF lineVars, parserVars
<1>2. /\ ParserInv' /\ DiscardCounted
      /\ (Stale' <=> Stale) /\ (escapePending' <=> escapePending)
      /\ (Reading' <=> Reading) /\ (HeaderOpened' <=> HeaderOpened)
      /\ size' = size
  BY <1>1, StillOK
<1>3. LineOK' /\ EscapeMarked'
  BY <1>1, <1>2 DEF LineInv, LineOK, EscapeMarked
<1>4. left' # <<>> /\ intact' => Followed'
  <2> SUFFICES ASSUME left # <<>>, intact PROVE Followed'
    BY <1>1
  <2>1. PICK k \in Nat : Coming(body, k) /\ Hears(body, k)
    BY DEF LineInv, Followed
  <2>2. Coming(body, k)'
    BY <1>1, <2>1 DEF Coming
  <2>3. Hears(body, k)'
    BY <1>1, <1>2, <2>1 DEF Hears, Opened, Between, Escaped, AlmostRead, HasRead
  <2> QED
    BY <2>2, <2>3 DEF Followed
<1> QED
  BY <1>2, <1>3, <1>4 DEF LineInv

LEMMA LineStep ==
    ASSUME LineInv, [LineNext]_lineVars
    PROVE  LineInv' /\ DiscardCounted
<1>1. CASE \E b \in NoiseBytes : Noise(b)
  BY <1>1, NoiseKeeps
<1>2. CASE \E sent \in Bodies : Begin(sent)
  BY <1>2, BeginKeeps
<1>3. CASE Send
  BY <1>3, SendKeeps
<1>4. CASE CutShort
  <2>1. Lost(<<>>) /\ <<>> \in Seq(Byte)
    BY <1>4, SmallBuffers DEF CutShort
  <2> QED
    BY <2>1, LostKeeps
<1>5. CASE Lose
  <2>1. Lost(Tail(left)) /\ left # <<>> /\ left \in Seq(Byte)
    BY <1>5 DEF Lose, Lost, LineInv, LineOK
  <2>2. Tail(left) \in Seq(Byte)
    BY <2>1, HeadAndTail
  <2> QED
    BY <2>1, <2>2, LostKeeps
<1>6. CASE Pause
  BY <1>6, PauseKeeps
<1>7. CASE LoopExpires
  BY <1>7, ExpiresKeeps
<1>8. CASE UNCHANGED lineVars
  BY <1>8, StutterKeeps
<1> QED
  BY <1>1, <1>2, <1>3, <1>4, <1>5, <1>6, <1>7, <1>8 DEF LineNext

LEMMA LineSafe == LineSpec => []LineInv
<1>1. LineInit => LineInv
  BY InitKeeps
<1>2. LineInv /\ [LineNext]_lineVars => LineInv'
  BY LineStep
<1> QED
  BY <1>1, <1>2, PTL DEF LineSpec

(***************************************************************************)
(* FrameParser::feed, protocol.cpp: whatever bytes arrive, in whatever     *)
(* order and with whatever pauses, the parser never leaves buffer_, nor    *)
(* expected_size_ the lengths a frame can have.                            *)
(***************************************************************************)
THEOREM ParserTypeCorrect == LineSpec => []ParserTypeOK
<1>1. LineInv => ParserTypeOK
  BY DEF LineInv, ParserInv
<1> QED
  BY <1>1, LineSafe, PTL

(***************************************************************************)
(* FrameParser::feed and expire: a header that was seen and is lost counts *)
(* as one invalid frame, and nothing else counts.                          *)
(***************************************************************************)
THEOREM DiscardsAreCounted == LineSpec => CountsDiscarded
<1>1. LineInv /\ [LineNext]_lineVars =>
        [invalid' = IF Candidate /\ ~Kept /\ returned' = <<>>
                      THEN Counted ELSE invalid]_lineVars
  BY LineStep DEF DiscardCounted
<1> QED
  BY <1>1, LineSafe, PTL DEF LineSpec, CountsDiscarded

(***************************************************************************)
(* FrameParser::feed: the parser finds its way back.  Whatever came before *)
(* it, a frame that begins after anything but a marker and arrives         *)
(* unharmed is returned with its last byte, as it was meant.               *)
(***************************************************************************)
THEOREM FramesAreDelivered == LineSpec => FrameDelivered
<1>1. LineInv /\ [LineNext]_lineVars =>
        [Send /\ Len(left) = 1 /\ intact => returned' = Frame(body)]_lineVars
  BY SendKeeps
<1> QED
  BY <1>1, LineSafe, PTL DEF LineSpec, FrameDelivered

-----------------------------------------------------------------------------
(* The way to the unit.                                                    *)

EncoderInv ==
    /\ offered \in Seq(Byte) /\ capacity \in Nat
    /\ output = IF Takes(offered, capacity) THEN Wire(offered) ELSE <<>>

LEMMA EncoderKeeps == EncoderSpec => []EncoderInv
<1>1. EncoderInit => EncoderInv
  <2> SUFFICES ASSUME EncoderInit PROVE EncoderInv
    OBVIOUS
  <2>1. offered = <<>> /\ offered \in Seq(Byte) /\ Len(offered) = 0
    BY DEF EncoderInit
  <2> QED
    BY <2>1 DEF EncoderInit, EncoderInv, Takes, IsCommand
<1>2. EncoderInv /\ [EncoderNext]_encoderVars => EncoderInv'
  <2> SUFFICES ASSUME EncoderInv, [EncoderNext]_encoderVars PROVE EncoderInv'
    OBVIOUS
  <2>1. CASE EncoderNext
    <3>1. PICK sent \in Offers, room \in Capacities : Encode(sent, room)
      BY <2>1 DEF EncoderNext
    <3>2. sent \in Seq(Byte) /\ room \in Nat
      BY EncoderAssumption DEF Byte
    <3> QED
      BY <3>1, <3>2 DEF Encode, EncoderInv
  <2>2. CASE UNCHANGED encoderVars
    BY <2>2 DEF encoderVars, EncoderInv
  <2> QED
    BY <2>1, <2>2
<1> QED
  BY <1>1, <1>2, PTL DEF EncoderSpec

(***************************************************************************)
(* encode_command, commands.cpp: for every body, a command or not, and     *)
(* every capacity, what is written fits the buffers, and a command that    *)
(* would fit them is not refused.                                          *)
(***************************************************************************)
THEOREM RoomIsAlwaysExact == EncoderSpec => []RoomIsExact
<1>1. EncoderInv => RoomIsExact
  <2> SUFFICES ASSUME EncoderInv PROVE RoomIsExact
    OBVIOUS
  <2> DEFINE m == Len(offered)
             w == Len(Wire(offered))
  <2>1. w = Required(offered)
    BY RoomExact DEF EncoderInv
  <2>2. capacity \in Nat /\ MaxPacketSize = 64 /\ Len(<<>>) = 0
    BY DEF EncoderInv, MaxPacketSize
  <2>3. Required(offered) \in Nat /\ Required(offered) >= m + 6 /\ m \in Nat
    <3>1. offered \in Seq(Byte) /\ Checksum(offered) \in Seq(Byte) /\ m \in Nat
      BY ChecksumBytes, LenProperties DEF EncoderInv
    <3>2. \A s \in Seq(Byte) : Markers(s) \in Nat
      <4> TAKE s \in Seq(Byte)
      <4>1. Len(s) \in Nat /\ Markers(s) = MarkersUpTo(s, Len(s))
        BY MarkersForm, LenProperties
      <4> QED
        BY <4>1, SentStep
    <3>3. Markers(offered) \in Nat /\ Markers(Checksum(offered)) \in Nat
      BY <3>1, <3>2
    <3> QED
      BY <3>1, <3>3 DEF Required
  <2>4. CASE Takes(offered, capacity)
    <3>1. output = Wire(offered) /\ Len(output) = w
      BY <2>4 DEF EncoderInv
    <3>2. Len(output) # 0 /\ Len(output) <= capacity /\ Len(output) <= MaxPacketSize
      BY <2>1, <2>2, <2>3, <2>4, <3>1 DEF Takes
    <3>3. output # <<>>
      BY <2>2, <3>2
    <3> QED
      BY <3>2, <3>3 DEF RoomIsExact
  <2>5. CASE ~Takes(offered, capacity)
    <3>1. output = <<>> /\ Len(output) = 0
      BY <2>2, <2>5 DEF EncoderInv
    <3>2. ASSUME IsCommand(offered) PROVE w > capacity \/ w > MaxPacketSize
      <4>1. \/ m > 58 \/ Required(offered) > capacity
            \/ Required(offered) > MaxPacketSize
        BY <2>2, <2>3, <2>5, <3>2 DEF Takes
      <4> HIDE DEF w, m
      <4> QED
        BY <2>1, <2>2, <2>3, <4>1
    <3> QED
      BY <2>2, <3>1, <3>2 DEF RoomIsExact
  <2> QED
    BY <2>4, <2>5
<1> QED
  BY <1>1, EncoderKeeps, PTL
=============================================================================
