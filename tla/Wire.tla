-------------------------------- MODULE Wire --------------------------------
(***************************************************************************)
(* What is on the wire: a frame (crates/frame) with its CRC-32C, and in    *)
(* the payload of the transport's frames a segment header (segment.rs).    *)
(* Everything is at its real size: bytes of eight bits, the 16 bytes of    *)
(* header and checksum, the 32-bit polynomial.                             *)
(*                                                                         *)
(* One datagram is sent; on its way the channel may flip bits and cut off  *)
(* its end, in that order (emit_one of crates/channel); then it is decoded *)
(* as on_datagram does.                                                    *)
(*                                                                         *)
(* A u32 is the number of the same 32 bits in two's complement, a set of   *)
(* bits is the set of their positions.  Both are one-to-one, and the code  *)
(* only compares these numbers for equality.                               *)
(***************************************************************************)
EXTENDS Integers, Sequences, FiniteSets

CONSTANTS
    Segments,    \* the transport segments that are sent
    Frames,      \* other frames that are sent: those of baselines.rs
    ShortFrame   \* a datagram of up to this length may get two bits flipped

VARIABLES
    frame,   \* the frame that was sent
    sent,    \* its bytes
    wire,    \* what is left of them
    flips,   \* how many bits were flipped
    got      \* what decode returned, None before

vars == <<frame, sent, wire, flips, got>>

None == [kind |-> "None"]

-----------------------------------------------------------------------------
(* Numbers and bits *)

Byte == 0 .. 255

\* A u16, and a u32.
HalfWord == 0 .. 65535

Word == {n \in Int : -2147483647 - 1 <= n /\ n <= 2147483647}

\* 1 << i.
Bit(i) == <<1, 2, 4, 8, 16, 32, 64, 128>>[i + 1]

Bits(byte) == {i \in 0 .. 7 : (byte \div Bit(i)) % 2 = 1}

U16Bytes(n) == <<n % 256, n \div 256>>

U16(b, at) == b[at] + 256 * b[at + 1]

U32Bytes(n) == <<n % 256, (n \div 256) % 256,
                 (n \div 65536) % 256, (n \div 16777216) % 256>>

U32(b, at) ==
    LET top == IF b[at + 3] >= 128 THEN b[at + 3] - 256 ELSE b[at + 3]
    IN  b[at] + 256 * b[at + 1] + 65536 * b[at + 2] + 16777216 * top

Xor(A, B) == (A \ B) \cup (B \ A)

-----------------------------------------------------------------------------
(* crc32c.rs *)

Register == SUBSET (0 .. 31)

\* 0x82F6_3B78
Poly == {3, 4, 5, 6, 8, 9, 11, 12, 13, 17, 18, 20, 21, 22, 23, 25, 31}

\* One step of the inner loop.
Shift(crc) ==
    LET half == {i - 1 : i \in crc \ {0}}
    IN  IF 0 \in crc THEN Xor(half, Poly) ELSE half

\* One step of the outer loop.
CrcByte ==
    [crc \in Register |-> [byte \in Byte |->
        LET reg[k \in 0 .. 8] ==
              IF k = 0 THEN Xor(crc, Bits(byte)) ELSE Shift(reg[k - 1])
        IN  reg[8]]]

Crc32c(data) ==
    LET crc[i \in 0 .. Len(data)] ==
          IF i = 0 THEN 0 .. 31 ELSE CrcByte[crc[i - 1]][data[i]]
    IN  (0 .. 31) \ crc[Len(data)]

\* to_le_bytes of such a register.
RegisterBytes(reg) ==
    [k \in 1 .. 4 |->
        LET bit(i) == IF 8 * (k - 1) + i \in reg THEN Bit(i) ELSE 0
        IN  bit(0) + bit(1) + bit(2) + bit(3)
              + bit(4) + bit(5) + bit(6) + bit(7)]

\* The check values of the unit tests of crc32c.rs.
ASSUME CrcAssumption ==
    /\ RegisterBytes(Crc32c(<<49, 50, 51, 52, 53, 54, 55, 56, 57>>))
         = <<131, 146, 6, 227>>
    /\ Crc32c(<< >>) = {}

-----------------------------------------------------------------------------
(* frame/lib.rs *)

VERSION == 1

HeaderLen == 12

CrcLen == 4

Frame(frame_type, sequence, flags, payload) ==
    [frame_type |-> frame_type, sequence |-> sequence, flags |-> flags,
     payload |-> payload]

\* Mutation: the checksum covers the payload only.
Covered_Payload(bytes) == SubSeq(bytes, HeaderLen + 1, Len(bytes))

\* The bytes that the checksum is taken over: all that precede it.
Covered(bytes) == bytes

Encode(f) ==
    LET out == <<VERSION, f.frame_type>> \o U32Bytes(f.sequence)
                 \o U16Bytes(f.flags) \o U32Bytes(Len(f.payload)) \o f.payload
    IN  out \o RegisterBytes(Crc32c(Covered(out)))

Ok(f) == [kind |-> "Ok", frame |-> f]

Err(error) == [kind |-> error]

\* Mutation: a datagram longer than declared is accepted.
LengthMatches_AtLeast(d) == U32(d, 9) <= Len(d) - HeaderLen - CrcLen

LengthMatches(d) == U32(d, 9) = Len(d) - HeaderLen - CrcLen

\* The checks in decode's order; only the last one reads every byte.
Decode(d) ==
    LET end == Len(d) - CrcLen
    IN  IF Len(d) < HeaderLen + CrcLen THEN Err("TooShort")
        ELSE IF d[1] # VERSION THEN Err("UnsupportedVersion")
        ELSE IF ~LengthMatches(d) THEN Err("LengthMismatch")
        ELSE IF RegisterBytes(Crc32c(Covered(SubSeq(d, 1, end))))
                  # SubSeq(d, end + 1, Len(d)) THEN Err("ChecksumMismatch")
        ELSE Ok(Frame(d[2], U32(d, 3), U16(d, 7),
                      SubSeq(d, HeaderLen + 1, end)))

-----------------------------------------------------------------------------
(* segment.rs; sack is a sequence of records with start and end *)

MaxSackRanges == 4

FixedLen == 10

RangeLen == 8

\* The ranges that are written: at most MaxSackRanges.
Taken(sack) ==
    SubSeq(sack, 1, IF Len(sack) <= MaxSackRanges THEN Len(sack)
                                                  ELSE MaxSackRanges)

\* Mutation: the count is that of all ranges.
CountByte_Uncapped(sack) == Len(sack)

CountByte(sack) == Len(Taken(sack))

\* The start and the end of every range in turn, four bytes each.
RangeBytes(sack) ==
    [i \in 1 .. RangeLen * Len(sack) |->
        LET range == sack[(i - 1) \div RangeLen + 1]
            k     == (i - 1) % RangeLen
        IN  IF k < 4 THEN U32Bytes(range.start)[k + 1]
                     ELSE U32Bytes(range.end)[k - 3]]

EncodeHeader(h) ==
    U32Bytes(h.ack) \o <<IF h.fin_ack THEN 1 ELSE 0, CountByte(h.sack)>>
      \o U32Bytes(h.window)
      \o RangeBytes(Taken(h.sack))

\* The header with that many ranges, and the data behind it.
ReadHeader(data, count) ==
    LET at(i) == FixedLen + RangeLen * (i - 1) + 1
    IN  [kind |-> "Some",
         header |-> [ack |-> U32(data, 1), fin_ack |-> data[5] # 0,
                     window |-> U32(data, 7),
                     sack |-> [i \in 1 .. count |->
                                 [start |-> U32(data, at(i)),
                                  end |-> U32(data, at(i) + 4)]]],
         data |-> SubSeq(data, at(count + 1), Len(data))]

DecodeHeader(data) ==
    IF Len(data) >= FixedLen /\ Len(data) >= FixedLen + RangeLen * data[6]
      THEN ReadHeader(data, data[6])
      ELSE None

-----------------------------------------------------------------------------
(* A datagram on its way *)

\* encode_frame of connection.rs.
SegmentFrame(s) == Frame(0, s.seq, s.flags, EncodeHeader(s.header) \o s.data)

\* The longest payload whose length is below 2^31.
MaxPayload == 2147483647

\* The fields have the widths of struct Frame and struct SegmentHeader.
ASSUME WireAssumption ==
    /\ Frames \subseteq [frame_type : Byte, sequence : Word, flags : HalfWord,
                         payload : Seq(Byte)]
    /\ \A f \in Frames : Len(f.payload) <= MaxPayload
    /\ Segments \subseteq
         [seq : Word, flags : HalfWord, data : Seq(Byte),
          header : [ack : Word, fin_ack : BOOLEAN, window : Word,
                    sack : Seq([start : Word, end : Word])]]
    /\ \A s \in Segments : Len(EncodeHeader(s.header) \o s.data) <= MaxPayload

Init ==
    /\ frame \in {SegmentFrame(s) : s \in Segments} \cup Frames
    /\ sent = Encode(frame)
    /\ wire = sent
    /\ flips = 0
    /\ got = None

\* emit_one flips one bit of a copy (the second flip goes beyond it: WIRE.md
\* promises that two are found as well).
Flip(at, bit) ==
    /\ got = None
    /\ Len(wire) = Len(sent)
    /\ flips < IF Len(sent) <= ShortFrame THEN 2 ELSE 1
    /\ flips' = flips + 1
    /\ wire' = [wire EXCEPT ![at] = IF bit \in Bits(@) THEN @ - Bit(bit)
                                                       ELSE @ + Bit(bit)]
    /\ UNCHANGED <<frame, sent, got>>

\* emit_one cuts a copy to a shorter one.
Truncate(to_len) ==
    /\ got = None
    /\ Len(wire) = Len(sent)
    /\ flips <= 1
    /\ wire' = SubSeq(wire, 1, to_len)
    /\ UNCHANGED <<frame, sent, flips, got>>

\* on_datagram, up to the parsing of the header.
Receive ==
    /\ got = None
    /\ got' = Decode(wire)
    /\ UNCHANGED <<frame, sent, wire, flips>>

Next ==
    \/ \E at \in 1 .. Len(wire), bit \in 0 .. 7 : Flip(at, bit)
    \/ \E to_len \in 0 .. Len(wire) - 1 : Truncate(to_len)
    \/ Receive

Spec == Init /\ [][Next]_vars

-----------------------------------------------------------------------------

\* WIRE.md, frame: "decode(encode(f)) == f for every frame", and every
\* datagram with one or two bits flipped, cut short, or both, is rejected,
\* also when the flip is in the length field and the cut fits it.
NeverAWrongFrame ==
    got # None => got = IF wire = sent THEN Ok(frame) ELSE Err(got.kind)

\* frame/lib.rs 15-19: each kind of damage "gets its own error variant".
\* Of a datagram with one fault, a cut is told from a flipped bit, and a
\* flip in the version or the length field from a flip elsewhere; decode
\* finds the first three without reading the rest.
ErrorNamesTheDamage ==
    LET cut     == Len(wire) < Len(sent)
        flipped == {i \in 1 .. Len(wire) : wire[i] # sent[i]}
    IN  got # None /\ flips + (IF cut THEN 1 ELSE 0) = 1 =>
          got.kind = IF cut THEN IF Len(wire) < HeaderLen + CrcLen
                                   THEN "TooShort" ELSE "LengthMismatch"
                     ELSE IF flipped = {1} THEN "UnsupportedVersion"
                     ELSE IF flipped \subseteq 9 .. 12 THEN "LengthMismatch"
                     ELSE "ChecksumMismatch"

\* The segment that a connection finds in a frame that decodes is the one
\* its peer put there: header and data are told apart wherever the data
\* begins.  (Of too many SACK ranges encode leaves the first four; it is
\* never given more, since current_sack_ranges stops at four itself.)  A header
\* that has lost its end is never read: decode returns None before it would
\* look past the end of its input.
SegmentSurvives ==
    got.kind = "Ok" =>
        \A s \in Segments : frame = SegmentFrame(s) =>
            /\ DecodeHeader(got.frame.payload) =
                  [kind |-> "Some",
                   header |-> [s.header EXCEPT !.sack = Taken(@)],
                   data |-> s.data]
            /\ \A n \in 0 .. Len(EncodeHeader(s.header)) - 1 :
                  DecodeHeader(SubSeq(got.frame.payload, 1, n)) = None
=============================================================================
