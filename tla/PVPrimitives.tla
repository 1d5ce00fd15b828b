---------------------------- MODULE PVPrimitives ----------------------------
(***************************************************************************)
(* The parts of package pvdata that work on bytes and bits: the integers   *)
(* of EncoderState and DecoderState, PVSize, PVString, PVStatus, PVBitSet. *)
(*                                                                         *)
(* What is written is a sequence of tokens [w, n]: one Write call of w     *)
(* bytes whose value is n.  A read asks for a number of bytes and fails    *)
(* unless the next token has that width, so a reader that loses its place  *)
(* is noticed.  The byte order, the same for all integers of a message, is *)
(* the business of module Connection.  The widths are parameters: in the   *)
(* code Max8 is 254, Max32 is 2^31 - 1, a byte has 8 bits and a long has 8 *)
(* bytes.                                                                  *)
(***************************************************************************)
EXTENDS Integers, Sequences, FiniteSets, FiniteSetsExt

CONSTANTS
  Max8,      \* max8: the first byte of a size that needs more than one
  Max32,     \* max32: the 32-bit part of a size that needs 64 bits
  ByteBits,  \* bits in a byte
  WordBytes  \* bytes in the longs that a PVBitSet is packed into

ASSUME SizeAssumption == Max8 \in Nat /\ Max32 \in Nat /\ Max8 < Max32
ASSUME BitsAssumption == ByteBits \in Nat \ {0} /\ WordBytes \in Nat \ {0}

Token(w, n) == [w |-> w, n |-> n]
Byte(n) == Token(1, n)

(* What a decoding step yields: whether it succeeded, the value and the    *)
(* tokens still to be read.                                                *)
Got(v, rest) == [ok |-> TRUE, v |-> v, rest |-> rest]
Lost == [ok |-> FALSE, v |-> 0, rest |-> <<>>]

(* ReadByte, ReadUint16, ReadUint32 and ReadUint64. *)
Read(w, in) ==
  IF in # <<>> /\ Head(in).w = w THEN Got(Head(in).n, Tail(in)) ELSE Lost

----------------------------------------------------------------------------
(* PVSize. *)

SizeEncode(v) ==
  CASE v < 0 -> <<Byte(Max8 + 1)>>
    [] 0 <= v /\ v < Max8 -> <<Byte(v)>>
    [] Max8 <= v /\ v < Max32 -> <<Byte(Max8), Token(4, v)>>
    [] Max32 <= v -> <<Byte(Max8), Token(4, Max32), Token(8, v)>>

SizeDecode(in) ==
  LET b == Read(1, in)
      u32 == Read(4, b.rest)
      u64 == Read(8, u32.rest)
  IN CASE ~b.ok -> Lost
       [] b.ok /\ b.v = Max8 + 1 -> Got(-1, b.rest)
       [] b.ok /\ b.v \notin {Max8, Max8 + 1} -> b
       [] b.ok /\ b.v = Max8 /\ u32.ok /\ u32.v = Max32 -> u64
       [] b.ok /\ b.v = Max8 /\ ~(u32.ok /\ u32.v = Max32) -> u32

----------------------------------------------------------------------------
(* PVString and PVStatus.  The bytes of a string are one token, the string. *)

TextEncode(str) ==
  SizeEncode(Len(str)) \o (IF str = "" THEN <<>> ELSE <<Token(Len(str), str)>>)

(* The string after its size.  No token has the width -1: with the null    *)
(* size nothing is read, which stands here for the panic of make.          *)
TextRead(size) ==
  IF ~size.ok THEN Lost
  ELSE IF size.v = 0 THEN Got("", size.rest) ELSE Read(size.v, size.rest)

TextDecode(in) == TextRead(SizeDecode(in))

Status(type, message, callTree) ==
  [k |-> "status", type |-> type, message |-> message, callTree |-> callTree]

(* A plain OK is a single byte, which no other type may have. *)
StatusEncode(v) ==
  IF v.type = 0 /\ v.message = "" /\ v.callTree = "" THEN <<Byte(255)>>
  ELSE <<Byte(v.type)>> \o TextEncode(v.message) \o TextEncode(v.callTree)

(* The call tree, after the type and the message. *)
StatusRead(type, message) ==
  LET callTree == TextDecode(message.rest)
  IN IF message.ok /\ callTree.ok
     THEN Got(Status(type, message.v, callTree.v), callTree.rest) ELSE Lost

StatusDecode(in) ==
  LET type == Read(1, in)
  IN IF type.ok /\ type.v = 255 THEN Got(Status(0, "", ""), type.rest)
     ELSE IF type.ok THEN StatusRead(type.v, TextDecode(type.rest)) ELSE Lost

----------------------------------------------------------------------------
(* PVBitSet.  Present is a sequence of Booleans, bit b at index b + 1.  The *)
(* value of a packed byte or long is the set of its bits.                  *)

WordBits == ByteBits * WordBytes

Get(present, b) == b < Len(present) /\ present[b + 1]

(* The n bits from bit number first on. *)
Bits(present, first, n) == {j \in 0..(n - 1) : Get(present, first + j)}

(* Whole longs first, then the bytes that are left. *)
BitSetEncode(present) ==
  LET size == (Len(present) + ByteBits - 1) \div ByteBits
      words == size \div WordBytes
  IN SizeEncode(size)
     \o [i \in 1..words |-> Token(WordBytes, Bits(present, (i - 1) * WordBits, WordBits))]
     \o [i \in 1..(size % WordBytes) |->
           Byte(Bits(present, words * WordBits + (i - 1) * ByteBits, ByteBits))]

(* The longs in the size bytes of a bit set: i + 7 < size. *)
Longs(size) == size \div WordBytes

(* Bit b of the bit set packed in words longs and the bytes after them. *)
BitAt(tokens, words, b) ==
  IF b < words * WordBits
  THEN b % WordBits \in tokens[(b \div WordBits) + 1].n
  ELSE b % ByteBits \in tokens[words + (b \div ByteBits) - words * WordBytes + 1].n

(* The bits are unpacked and cut off after the last one that is set. *)
BitSetDecode(in) ==
  LET size == SizeDecode(in)
      words == Longs(size.v)
      n == words + size.v - words * WordBytes
      tokens == SubSeq(size.rest, 1, n)
      set == {b \in 0..(size.v * ByteBits - 1) : BitAt(tokens, words, b)}
      maxBit == Max(set \cup {-1})
  IN IF /\ size.ok
        /\ Len(size.rest) >= n
        /\ \A i \in 1..n : tokens[i].w = IF i <= words THEN WordBytes ELSE 1
     THEN Got([i \in 1..(maxBit + 1) |-> i - 1 \in set],
              SubSeq(size.rest, n + 1, Len(size.rest)))
     ELSE Lost

----------------------------------------------------------------------------
(* Sizes around the limits of the three forms. *)
Sizes == (-1)..(Max8 + 2) \cup (Max32 - 2)..(Max32 + 2)

(* The bit set without the FALSE bits at its end. *)
Trimmed(present) ==
  SubSeq(present, 1, Max({i \in DOMAIN present : present[i]} \cup {0}))

BitSeqs(n) == UNION {[1..k -> BOOLEAN] : k \in 0..n}
============================================================================
