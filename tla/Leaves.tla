-------------------------------- MODULE Leaves --------------------------------
(***************************************************************************)
(* The bytes that numbers and series of basic elements are made of, and    *)
(* the leaves that types/ makes of bytes for hash trees: padded chunks, of *)
(* bitlists without the bit that marks their length, and in the order of   *)
(* the format on a machine that has another in memory.                     *)
(***************************************************************************)
EXTENDS Bitfields, SequencesExt

CONSTANT ChunkLen   \* bytes of a leaf of a hash tree (32)

ASSUME ChunkLenAssumption == ChunkLen \in Nat \ {0}

Least(a, b)   == IF a < b THEN a ELSE b
Each(n, Op(_)) == [k \in 1..n |-> Op(k)]

(***************************************************************************)
(* Bytes of a little-endian number, and back.                              *)
(***************************************************************************)
ToBytes(x, n) == Each(n, LAMBDA k : (x \div 2^(ByteBits * (k - 1))) % 2^ByteBits)

\* The number is that of all but the first byte, times the values of a byte, and the first.
FromBytes(b) ==
  LET from[k \in 0..Len(b)] == IF k = Len(b) THEN 0 ELSE b[k + 1] + 2^ByteBits * from[k + 1]
  IN  from[0]

BasicBytes(elem, elems) == FlattenSeq(Each(Len(elems), LAMBDA k : ToBytes(elems[k], elem.len)))

\* a mutated form of ElemsOf
ElemsToEnd(elem, b) ==
  Each(Len(b) \div elem.len, LAMBDA k : FromBytes(SubSeq(b, (k - 1) * elem.len + 1, Len(b))))

ElemsOf(elem, b) ==
  Each(Len(b) \div elem.len,
       LAMBDA k : FromBytes(SubSeq(b, (k - 1) * elem.len + 1, k * elem.len)))

(***************************************************************************)
(* Chunks: hashing is symbolic, and a chunk is the record of its bytes.    *)
(***************************************************************************)
Chunk(b)       == [chunk |-> Each(ChunkLen, LAMBDA k : IF k <= Len(b) THEN b[k] ELSE 0)]
ChunkOf(b, k)  == SubSeq(b, (k - 1) * ChunkLen + 1, Least(k * ChunkLen, Len(b)))
Chunks(b)      == Each(RoundUp(Len(b), ChunkLen), LAMBDA k : Chunk(ChunkOf(b, k)))

(***************************************************************************)
(* Bitlists: the delimiter is cleared in a leaf that is padded.  In a leaf *)
(* that is not, it is taken to be cut off.                                 *)
(***************************************************************************)
DataLen(b)    == RoundUp(BitlistLen(b), ByteBits)

ClearBit(x)     == x - 2^BitIndex(x)
NeverCleared(b) == FALSE   \* a mutated form
ToBeCleared(b)  == BitlistLen(b) % ByteBits # 0 /\ DataLen(b) # 0

BitlistLeaf(b, k) ==
  LET x  == ChunkOf(SubSeq(b, 1, DataLen(b)), k)
      at == ((DataLen(b) - 1) % ChunkLen) + 1
  IN  IF k * ChunkLen > DataLen(b) /\ ToBeCleared(b) THEN Chunk([x EXCEPT ![at] = ClearBit(@)])
      ELSE Chunk(x)

BitlistLeaves(b) == Each(RoundUp(DataLen(b), ChunkLen), LAMBDA k : BitlistLeaf(b, k))

\* The bits of a bitlist, without the one that marks the length: what its leaves are
\* meant to be made of.
Bits(b) == SubSeq([b EXCEPT ![Len(b)] = ClearBit(@)], 1, DataLen(b))

(***************************************************************************)
(* Basic elements on a machine that has the highest byte of a number first *)
(* in memory: a chunk is put into the order of the format, one element     *)
(* after the other.                                                        *)
(***************************************************************************)
InMemory(elem, elems) ==
  FlattenSeq(Each(Len(elems), LAMBDA k : Reverse(ToBytes(elems[k], elem.len))))

\* a mutated form: the whole chunk reversed
ReversedChunk(data, elemSize) == Reverse(data)

BigToLittleEndianChunk(data, elemSize) ==
  FlattenSeq(Each(Len(data) \div elemSize,
                  LAMBDA k : Reverse(SubSeq(data, (k - 1) * elemSize + 1, k * elemSize))))

BigEndianLeaf(b, k, elemSize) ==
  [Chunk(ChunkOf(b, k)) EXCEPT !.chunk = BigToLittleEndianChunk(@, elemSize)]

BigEndianLeaves(b, elemSize) ==
  Each(RoundUp(Len(b), ChunkLen), LAMBDA k : BigEndianLeaf(b, k, elemSize))
===============================================================================
