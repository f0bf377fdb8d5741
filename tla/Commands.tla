------------------------------ MODULE Commands ------------------------------
(***************************************************************************)
(* The bytes of the packets that the setters of a plan stand for, and what *)
(* they tell the unit.  All commands have the same 44 bytes between header *)
(* and checksum but for a few; bytes are numbered as in the documentation, *)
(* from 0 at the start of the header.                                      *)
(***************************************************************************)
EXTENDS Intents, Framing

Empty(last) == [o \in 2 .. last |-> 0]

\* What every command to the unit has in common.
Common == [Empty(45) EXCEPT ![3] = \h40, ![4] = \h29, ![7] = 1, ![8] = 1,
                            ![9] = \hFE, ![10] = 1, ![13] = \h65, ![23] = 4]

\* The query is a short frame of its own.
QueryBytes == [Empty(16) EXCEPT ![3] = \h40, ![4] = \h0C, ![7] = 1, ![8] = 1,
                                ![9] = \hFE, ![10] = 1, ![13] = \h66]

\* A packet with one byte of its own.
With(o, byte) == [Common EXCEPT ![o] = byte]

OffBytes == [Common EXCEPT ![17] = 1, ![18] = 4, ![24] = 1, ![29] = 1, ![32] = 1,
                           ![33] = \h55, ![35] = 1]

\* Mode packets bring a fan speed and a setpoint of their own.
ModeBytes(mode, fan, setpoint) ==
    [Common EXCEPT ![16] = fan, ![17] = 1, ![18] = mode, ![19] = setpoint,
                   ![31] = \h10, ![32] = 1, ![33] = 4, ![35] = \h10]

FanBytes(fan, position) ==
    [Common EXCEPT ![16] = fan, ![17] = 1, ![33] = 4, ![35] = position]

TurboBytes(turbo) ==
    [Common EXCEPT ![16] = 1, ![17] = 1, ![33] = turbo, ![35] = \h10]

-----------------------------------------------------------------------------
(* The packets kept as constants, with the checksum written next to them.  *)

Listed(bytes, sum) == <<bytes, sum>>

\* mode_fan, mode_heat, mode_cool, mode_dry, off.
ModeList == <<Listed(ModeBytes(\h10, 7, \h33), \h243),
              Listed(ModeBytes(\h30, 1, \h2F), \h259),
              Listed(ModeBytes(\h50, 1, \h35), \h27F),
              Listed(ModeBytes(\h70, 1, \h33), \h29D),
              Listed(OffBytes, \h231)>>

\* speed_auto, speed_mute, speed_low, speed_med, speed_max.
FanList(fan) ==
    CASE fan = 0  -> Listed(FanBytes(1, \h10), \h1E9)
      [] fan = 2  -> Listed(FanBytes(3, \h30), \h20B)
      [] fan = 10 -> Listed(FanBytes(5, \h10), \h1ED)
      [] fan = 14 -> Listed(FanBytes(7, \h10), \h1EF)
      [] fan = 18 -> Listed(FanBytes(9, \h10), \h1F1)

\* turbo_off, turbo_on, energysave_on.
PresetList == <<Listed(TurboBytes(\h54), \h239), Listed(TurboBytes(\h5C), \h241),
                Listed(With(33, \h34), \h207)>>

\* display_off, display_on.
DisplayList == <<Listed(With(36, \h40), \h213), Listed(With(36, \hC0), \h293)>>

Listing(p) ==
    CASE p.setter = "query"   -> Listed(QueryBytes, \h1B3)
      [] p.setter = "on"      -> Listed(With(18, \h0C), \h1DF)
      [] p.setter = "mode"    -> ModeList[p.value + 1]
      [] p.setter = "fan"     -> FanList(p.value)
      [] p.setter = "preset"  -> PresetList[p.value + 1]
      [] p.setter = "ecoOff"  -> Listed(With(33, \h14), \h1E7)
      [] p.setter = "display" -> DisplayList[p.value + 1]

-----------------------------------------------------------------------------
(* The packets that are encoded.                                           *)

VertSwing == [Common EXCEPT ![31] = 1, ![32] = \hC0]
HorSwing  == [Common EXCEPT ![32] = \h30, ![37] = \h14]

\* Mutant: the update bit of the axis is cleared together with its value.
SwingBytesCleared(axis, moves) ==
    LET source == IF axis = Vertical THEN VertSwing ELSE HorSwing
    IN  [source EXCEPT ![32] = IF moves = 1 THEN @ ELSE 0]

\* encode_swing_axis: the update bit of the axis stays set.
SwingBytes(axis, moves) ==
    LET source == IF axis = Vertical THEN VertSwing ELSE HorSwing
        valueMask == IF axis = Vertical THEN \h80 ELSE \h20
    IN  [source EXCEPT ![32] = IF moves = 1 THEN @ ELSE @ - valueMask]

\* Mutant: the packet is made from that of the mode.
DryOffsetBytesWithMode(nibble) ==
    [ModeBytes(\h70, 1, \h33) EXCEPT ![23] = nibble * 16 + \h0C]

\* encode_dry_offset.
DryOffsetBytes(nibble) == With(23, nibble * 16 + \h0C)

\* encode_temperature.
TemperatureBytes(degrees) == With(19, 2 * degrees + 1)

Dynamic(p) == p.setter \in {"temperature", "swing", "dryOffset"}

\* The bytes between header and checksum, by their number.
Body(p) ==
    CASE p.setter = "temperature" -> TemperatureBytes(p.value)
      [] p.setter = "swing"       -> SwingBytes(p.value % 4, p.value \div 4)
      [] p.setter = "dryOffset"   -> DryOffsetBytes(p.value)
      [] OTHER                    -> Listing(p)[1]

Sequence(body) == [i \in 1 .. Cardinality(DOMAIN body) |-> body[i + 1]]

\* A packet kept as a constant, as it is listed.
AsListed(body, sum) ==
    Header \o Sequence(body) \o <<sum \div 256, sum % 256>> \o Footer

\* Mutant: an encoded packet is sent without stuffing.
OnWirePlain(p) == IF Dynamic(p) THEN Frame(Sequence(Body(p)))
                                ELSE AsListed(Body(p), Listing(p)[2])

\* The bytes that are handed to the UART: constants go out as they are listed.
OnWire(p) == IF Dynamic(p) THEN Wire(Sequence(Body(p)))
                           ELSE AsListed(Body(p), Listing(p)[2])

\* vert_dir and hor_dir, which no plan sends any more.
FixedDirection == [axis \in {Horizontal, Vertical} |->
    IF axis = Vertical
      THEN AsListed([Common EXCEPT ![31] = 1, ![32] = \h40], \h214)
      ELSE AsListed([Common EXCEPT ![32] = \h10, ![37] = \h14], \h1F7)]

-----------------------------------------------------------------------------
(* What a unit is told: each field has value bits and an update bit.       *)

Bit(byte, mask) == (byte \div mask) % 2

\* Where a field is, the mask of its update bit, and the unit and the number
\* of its values.
Layout ==
    [run          |-> [byte |-> 18, update |-> 4,   unit |-> 8,   values |-> 2],
     mode         |-> [byte |-> 18, update |-> 16,  unit |-> 32,  values |-> 8],
     setpoint     |-> [byte |-> 19, update |-> 1,   unit |-> 2,   values |-> 128],
     speed        |-> [byte |-> 16, update |-> 1,   unit |-> 2,   values |-> 128],
     horizontal   |-> [byte |-> 32, update |-> 16,  unit |-> 32,  values |-> 2],
     vertical     |-> [byte |-> 32, update |-> 64,  unit |-> 128, values |-> 2],
     backLed      |-> [byte |-> 36, update |-> 64,  unit |-> 128, values |-> 2],
     compensation |-> [byte |-> 23, update |-> 8,   unit |-> 16,  values |-> 16]]

\* The fields whose update bit is set, with their values.
Told(body) ==
    [f \in {g \in DOMAIN Layout : Bit(body[Layout[g].byte], Layout[g].update) = 1} |->
        (body[Layout[f].byte] \div Layout[f].unit) % Layout[f].values]

\* Every packet of a plan, for TLC to work out what it tells only once.
Packets ==
    {[setter |-> n, value |-> 0] : n \in {"on", "ecoOff"}}
    \cup [setter : {"mode"}, value : Mode]
    \cup [setter : {"temperature"}, value : Minimum .. Maximum]
    \cup [setter : {"fan"}, value : Fan]
    \cup [setter : {"swing"}, value : {1, 2, 5, 6}]
    \cup [setter : {"preset"}, value : Preset]
    \cup [setter : {"display"}, value : 0 .. 1]
    \cup [setter : {"dryOffset"}, value : {Nibble(n) : n \in Offset}]

WhatItTells == [p \in Packets |-> Told(Body(p))]
=============================================================================
