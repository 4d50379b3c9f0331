------------------------------ MODULE Bitfields ------------------------------
(***************************************************************************)
(* bitfields/: the helpers that programs build their bitlists and          *)
(* bitvectors with, and that the library checks them with.                 *)
(***************************************************************************)
EXTENDS Integers, Sequences

CONSTANT ByteBits   \* bits of a byte (8)

ASSUME ByteBitsAssumption == ByteBits \in Nat \ {0}

Byte == 0..(2^ByteBits - 1)

RoundUp(n, unit) == (n + unit - 1) \div unit

\* Index of the highest bit of a byte.
BitIndex(b) == IF b = 0 THEN 0 ELSE CHOOSE k \in 0..(ByteBits - 1) : 2^k <= b /\ b < 2^(k + 1)

BitOf(x, k)  == (x \div 2^k) % 2
ByteOf(i)    == i \div ByteBits + 1

GetBit(b, i) == BitOf(b[ByteOf(i)], i % ByteBits) = 1

SetBit(b, i, v) ==
  [b EXCEPT ![ByteOf(i)] = @ + 2^(i % ByteBits) * ((IF v THEN 1 ELSE 0) - BitOf(@, i % ByteBits))]

(***************************************************************************)
(* Bitlists and bitvectors: their lengths, and their checks.               *)
(***************************************************************************)
BitlistLen(b) == IF b = <<>> THEN 0 ELSE (Len(b) - 1) * ByteBits + BitIndex(b[Len(b)])

BitlistCheckByteLen(byteLen, limit) == byteLen > 0 /\ byteLen <= limit \div ByteBits + 1
BitlistCheckLastByte(last, limit)   == last # 0 /\ BitIndex(last) <= limit

\* a mutated form of BitlistCheck
BitlistCheckLenOnly(b, limit) == BitlistCheckByteLen(Len(b), limit)

BitlistCheck(b, limit) ==
  /\ BitlistCheckByteLen(Len(b), limit)
  /\ BitlistCheckLastByte(b[Len(b)], limit - (Len(b) - 1) * ByteBits)

BitvectorCheckByteLen(byteLen, n) == byteLen = RoundUp(n, ByteBits)
BitvectorCheckLastByte(last, n)   == n # 0 /\ (n % ByteBits = 0 \/ last < 2^(n % ByteBits))

BitvectorCheck(b, n) ==
  /\ BitvectorCheckByteLen(Len(b), n)
  /\ b = <<>> \/ BitvectorCheckLastByte(b[Len(b)], n)

\* a mutated form of IsZeroBitlist
IsZeroBytes(b) == \A k \in 1..Len(b) : b[k] = 0

\* All but the bit that marks the length.
IsZeroBitlist(b) ==
  \/ b = <<>>
  \/ /\ \A k \in 1..(Len(b) - 1) : b[k] = 0
     /\ b[Len(b)] \in {0, 2^BitIndex(b[Len(b)])}
=============================================================================
