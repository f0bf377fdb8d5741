---------------------------- MODULE StatusLayout ----------------------------
(***************************************************************************)
(* The answer of a unit, byte by byte, and what decode_status reads in it. *)
(* Bytes are numbered as in the documentation, from 0 at the start of the  *)
(* header; the sequence of a frame begins with byte 0 at index 1.          *)
(***************************************************************************)
EXTENDS Intents, Framing

StatusFrameSize == 82      \* STATUS_FRAME_SIZE
ClassOffset  == 13         \* CLASS_OFFSET
StatusClass  == 102        \* STATUS_CLASS, 0x66
ControlClass == 101        \* the class of the answer to a setter, 0x65

Byte(frame, offset) == frame[offset + 1]

\* frame[offset] & mask, where the mask has a single bit.
Flag(frame, offset, mask) == (Byte(frame, offset) \div mask) % 2

\* decode_status has nothing against this frame.
IsStatus(frame) ==
    /\ Len(frame) = StatusFrameSize
    /\ ValidFrame(frame)
    /\ Byte(frame, ClassOffset) = StatusClass

\* Mutant: any indicator of the panel counts as the back light.
ReadAnyIndicator(frame) ==
    [run |-> (Byte(frame, 18) \div 4) % 4, mode |-> Byte(frame, 18) \div 16,
     setpoint |-> Byte(frame, 19), wind |-> Byte(frame, 16),
     compensation |-> Byte(frame, 26) \div 16,
     swing |-> Horizontal * Flag(frame, 35, 64) + Vertical * Flag(frame, 35, 128),
     backLed |-> IF Byte(frame, 37) # 0 THEN 1 ELSE 0]

\* The members that the engine reads; the others go to sensors.
Read(frame) ==
    [run |-> (Byte(frame, 18) \div 4) % 4, mode |-> Byte(frame, 18) \div 16,
     setpoint |-> Byte(frame, 19), wind |-> Byte(frame, 16),
     compensation |-> Byte(frame, 26) \div 16,
     swing |-> Horizontal * Flag(frame, 35, 64) + Vertical * Flag(frame, 35, 128),
     backLed |-> Flag(frame, 37, 128)]

\* decode_status: what the caller's snapshot is afterwards.
Decoded(frame, snapshot) == IF IsStatus(frame) THEN Read(frame) ELSE snapshot

(***************************************************************************)
(* What a unit sends, to a query or to a setter: the bits that the code    *)
(* does not use say anything, here all `idle`.                             *)
(***************************************************************************)
Answer(s, class, idle) ==
    LET bytes == [[o \in 2 .. StatusFrameSize - 5 |-> idle * 255] EXCEPT
            ![2] = Response, ![3] = Control, ![4] = StatusFrameSize - EnvelopeSize,
            ![ClassOffset] = class,
            ![16] = s.wind, ![18] = s.mode * 16 + s.run * 4 + idle * 3,
            ![19] = s.setpoint, ![26] = s.compensation * 16 + idle * 15,
            ![35] = Moves(s.swing, Vertical) * 128
                      + Moves(s.swing, Horizontal) * 64 + idle * 63,
            ![37] = s.backLed * 128 + idle * 127]
    IN  Frame([i \in 1 .. StatusFrameSize - 6 |-> bytes[i + 1]])
=============================================================================
