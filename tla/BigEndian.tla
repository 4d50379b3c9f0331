------------------------------ MODULE BigEndian ------------------------------
(***************************************************************************)
(* Series of basic elements on a machine that has the highest byte of a    *)
(* number first in memory.  If an element has more than one byte, the      *)
(* series is not copied as a whole, as the other modules have it: it is    *)
(* encoded and decoded like a series of any other elements, and its chunks *)
(* are put into the order of the format before they are hashed.  DryCheck  *)
(* sees no memory, and is the same.  (SSZBasicVector.Decode is left out: it   *)
(* takes the number of bytes for the number of elements.)                  *)
(***************************************************************************)
EXTENDS SSZRoot

IsLittleEndian(t) == ~(t.kind \in {"basicVector", "basicList"} /\ t.elem.len > 1)

Cells(t, v) == IF t.kind = "basicList" THEN Elems(v) ELSE v

BigEndianBasicSeriesHTR(elem, elems, limit) ==
  MerkleRoot(BigEndianLeaves(InMemory(elem, elems), elem.len), RoundUp(limit * elem.len, ChunkLen))

BigEndianRoot(t, v) ==
  IF t.kind = "basicVector" THEN BigEndianBasicSeriesHTR(t.elem, v, t.len)
  ELSE ListRoot(BigEndianBasicSeriesHTR(t.elem, Elems(v), t.limit), v.len)

BigEndianEncode(t, v) == EncodeSeries(t.elem, Cells(t, v))

\* DecodeFixedSlice, of numbers.
UintSeries(elem, cells, n, r) ==
  Loop(n, Done(r, cells), LAMBDA acc, k : Handled(acc, k, HandleUint(elem, acc.v[k], acc.r)))

BigEndianSlice(t, v, n, r) ==
  IF TooLong(n \div t.elem.len, t.limit) THEN Fail(r, v)
  ELSE Filling(t, v, n \div t.elem.len,
               LAMBDA cells : UintSeries(t.elem, cells, n \div t.elem.len, r))

BigEndianList(t, v, r) ==
  IF IsFuzzMode(r)
    THEN Reading(r, PrefixLen, v, LAMBDA x, s :
           LET span == LargerSpan(t, s)
               n    == PickLength(x, span)
           IN  IF span = 0 THEN Done(s, v) ELSE BigEndianSlice(t, v, n - (n % t.elem.len), s))
    ELSE IF GetBytesSpan(r) % t.elem.len # 0 THEN Fail(r, v)
    ELSE BigEndianSlice(t, v, GetBytesSpan(r), r)
==============================================================================
