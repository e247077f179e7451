------------------------------ MODULE ByteCodec -------------------------------
(***************************************************************************)
(* The encoders and decoders of ByteArray.cpp that are built on write()    *)
(* and read(): fixed integers, zigzag, integers of variable length, and    *)
(* strings behind their length.                                            *)
(*                                                                         *)
(* A byte has Group + 1 bits and an integer Width (8 bits, and 8 to 64, in *)
(* the code).  What is written is a sequence of bytes, and what is read is *)
(* read from its beginning: none of the readers moves the read position.   *)
(***************************************************************************)
EXTENDS Integers, Sequences, SequencesExt

CONSTANTS
  Group,         \* bits of an integer in a byte of a varint
  Width          \* bits of an integer

ASSUME CodecAssumption == Group \in Nat \ {0} /\ Width \in Nat /\ Width % (Group + 1) = 0

Byte == 2 ^ (Group + 1)
High == 2 ^ Group
Unsigned == 0 .. 2 ^ Width - 1

\* Conversions between the two integer types of a width.
ToUnsigned(v) == v % 2 ^ Width
ToSigned(u) == IF u < 2 ^ (Width - 1) THEN u ELSE u - 2 ^ Width

-----------------------------------------------------------------------------
\* The two orders of Endian.h, which hides those of the system, and BYTE_ORDER,
\* which is still the system's.
LITTLE_ENDIAN == 1
BIG_ENDIAN    == 2
BYTE_ORDER    == 1234

byteswap(bytes) == Reverse(bytes)

\* An integer in the memory of a little-endian machine.
Memory(u) == [i \in 1 .. Width \div (Group + 1) |-> (u \div Byte ^ (i - 1)) % Byte]
Loaded(bytes) == FoldRight(LAMBDA b, acc : b + Byte * acc, bytes, 0)

writeFuint(u, endian) == IF endian # BYTE_ORDER THEN byteswap(Memory(u)) ELSE Memory(u)
writeFint(v, endian) == writeFuint(ToUnsigned(v), endian)

\* Mutant: the bytes are swapped for one of the two orders only.
MutSwapOnce(bytes, endian) ==
  LET first == SubSeq(bytes, 1, Width \div (Group + 1)) IN
  IF endian = BIG_ENDIAN THEN Loaded(byteswap(first)) ELSE Loaded(first)

readFuint(bytes, endian) ==
  LET first == SubSeq(bytes, 1, Width \div (Group + 1)) IN
  IF endian = BYTE_ORDER THEN Loaded(first) ELSE Loaded(byteswap(first))
readFint(bytes, endian) == ToSigned(readFuint(bytes, endian))

-----------------------------------------------------------------------------
\* -v of the least integer is the least integer.
EncodeZigzag(v) == ToUnsigned(IF v < 0 THEN ToUnsigned(-v) * 2 - 1 ELSE v * 2)
DecodeZigzag(u) == IF u % 2 = 0 THEN u \div 2 ELSE -(u \div 2) - 1

\* The i'th group of a value.
GroupOf(u, i) == (u \div High ^ (i - 1)) % High

writeUint(u) ==
  LET n == CHOOSE k \in 1 .. Width : u < High ^ k /\ (k = 1 \/ u >= High ^ (k - 1)) IN
  [i \in 1 .. n |-> GroupOf(u, i) + IF i < n THEN High ELSE 0]

\* One byte per group of the width; every one of them is the first byte.
readUint(bytes) ==
  LET b == bytes[1]
      groups == 1 .. (Width + Group - 1) \div Group IN
  IF b < High THEN b
  ELSE ToUnsigned(FoldLeft(LAMBDA acc, i : acc + (b - High) * High ^ (i - 1), 0,
                           [i \in groups |-> i]))

writeInt(v) == writeUint(EncodeZigzag(v))
readInt(bytes) == DecodeZigzag(readUint(bytes))

\* The text is read where its length was.
writeString(text, endian) == writeFuint(Len(text), endian) \o text
readString(bytes, endian) == SubSeq(bytes, 1, readFuint(bytes, endian))

-----------------------------------------------------------------------------
\* What a reader gets back of what was written: every integer of fixed size,
\* signed or not, in either order; an integer of variable length exactly if it
\* fits one byte or all of its groups are the same, although what was written says
\* what it is; a string as long as the one written, with the text of the empty one.
ReadsBack(u) ==
  LET v == ToSigned(u)
      groups == 1 .. (Width + Group - 1) \div Group
      repeated == FoldLeft(LAMBDA acc, i : (u % High) + High * acc, 0, [i \in groups |-> i])
      written == writeUint(u) IN
  /\ \A endian \in {LITTLE_ENDIAN, BIG_ENDIAN} :
       /\ readFuint(writeFuint(u, endian), endian) = u
       /\ readFint(writeFint(v, endian), endian) = v
       /\ LET text == [i \in 1 .. u % Byte |-> u % High] IN
            Len(readString(writeString(text, endian), endian)) = Len(text)
  /\ \A i \in DOMAIN written : written[i] >= High <=> i < Len(written)
  /\ FoldRight(LAMBDA b, acc : (b % High) + High * acc, written, 0) = u
  /\ readUint(written) = u <=> Len(written) = 1 \/ u = ToUnsigned(repeated)
  /\ DecodeZigzag(EncodeZigzag(v)) = v
  /\ Len(writeInt(v)) = 1 => readInt(writeInt(v)) = v

=============================================================================
