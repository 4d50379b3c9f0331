------------------------------ MODULE SSZTypes ------------------------------
(***************************************************************************)
(* types/: the SSZ type structures and the lengths each derives from those *)
(* it is built from (IsFixed, FixedLen, MinLen, MaxLen, FuzzMinLen and     *)
(* FuzzMaxLen, here the fields of one record).                             *)
(*                                                                         *)
(* The sizes the format fixes are parameters, so that a small model has    *)
(* all of its cases: an offset, a fuzzing length prefix and a chunk of a   *)
(* hash tree have any number of bytes, and a byte any number of bits.      *)
(***************************************************************************)
EXTENDS Leaves

CONSTANTS
  OffsetLen,   \* BYTES_PER_LENGTH_OFFSET (4)
  PrefixLen    \* bytes of the uint64 that fuzzing mode makes a length of (8)

ASSUME SizeAssumption ==
  /\ OffsetLen \in Nat \ {0}
  /\ PrefixLen \in Nat \ {0}

Sum(s) == FoldLeft(LAMBDA acc, x : acc + x, 0, s)

(***************************************************************************)
(* The types.  A pointer proxies the type it points to.                    *)
(***************************************************************************)
Uint(n)                  == [kind |-> "uint", len |-> n]
Bool                     == [kind |-> "bool", len |-> 1]
Bytes(limit)             == [kind |-> "bytes", limit |-> limit]
BytesN(n)                == [kind |-> "bytesN", len |-> n]
Bitlist(limit)           == [kind |-> "bitlist", limit |-> limit]
Bitvector(bits)          == [kind |-> "bitvector", bits |-> bits]
BasicVector(elem, n)     == [kind |-> "basicVector", elem |-> elem, len |-> n]
BasicList(elem, limit)   == [kind |-> "basicList", elem |-> elem, limit |-> limit]
Vector(elem, n)          == [kind |-> "vector", elem |-> elem, len |-> n]
List(elem, limit)        == [kind |-> "list", elem |-> elem, limit |-> limit]
Container(fields)        == [kind |-> "container", fields |-> fields]
Ptr(elem)                == [kind |-> "ptr", elem |-> elem]

(***************************************************************************)
(* The lengths, by type.                                                   *)
(***************************************************************************)
FixedLens(n) ==
  [isFixed |-> TRUE, fixed |-> n, min |-> n, max |-> n, fuzzMin |-> n, fuzzMax |-> n]

BytesLens(t) ==
  [isFixed |-> FALSE, fixed |-> 0, min |-> 0, max |-> t.limit,
   fuzzMin |-> PrefixLen, fuzzMax |-> PrefixLen + t.limit]

BitlistLens(t) ==
  [isFixed |-> FALSE, fixed |-> 0, min |-> 1, max |-> t.limit \div ByteBits + 1,
   fuzzMin |-> PrefixLen + 1, fuzzMax |-> PrefixLen + RoundUp(t.limit, ByteBits)]

BitvectorLens(t)   == FixedLens(RoundUp(t.bits, ByteBits))
BasicVectorLens(t) == FixedLens(t.len * t.elem.len)

BasicListLens(t) ==
  [isFixed |-> FALSE, fixed |-> 0, min |-> 0, max |-> t.limit * t.elem.len,
   fuzzMin |-> PrefixLen, fuzzMax |-> PrefixLen + t.limit * t.elem.len]

\* e: the lengths of the element
VectorLens(t, e) ==
  LET offset == IF e.isFixed THEN 0 ELSE OffsetLen
  IN  [isFixed |-> e.isFixed,
       fixed   |-> t.len * (IF e.isFixed THEN e.fixed ELSE OffsetLen),
       min     |-> t.len * (offset + e.min),
       max     |-> t.len * (offset + e.max),
       fuzzMin |-> t.len * e.fuzzMin,
       fuzzMax |-> t.len * e.fuzzMax]

ListLens(t, e) ==
  [isFixed |-> FALSE, fixed |-> 0, min |-> 0,
   max     |-> t.limit * (IF e.isFixed THEN e.fixed ELSE e.max),
   fuzzMin |-> PrefixLen,
   fuzzMax |-> PrefixLen + t.limit * e.fuzzMax]

\* fs: the lengths of the fields
ContainerLens(fs) ==
  LET Total(Of(_)) == Sum(Each(Len(fs), LAMBDA k : Of(fs[k])))
      offset(f)    == IF f.isFixed THEN 0 ELSE OffsetLen
  IN  [isFixed |-> \A k \in 1..Len(fs) : fs[k].isFixed,
       fixed   |-> Total(LAMBDA f : IF f.isFixed THEN f.fixed ELSE OffsetLen),
       min     |-> Total(LAMBDA f : offset(f) + f.min),
       max     |-> Total(LAMBDA f : offset(f) + f.max),
       fuzzMin |-> Total(LAMBDA f : f.fuzzMin),
       fuzzMax |-> Total(LAMBDA f : f.fuzzMax)]

RECURSIVE Lens(_)
Lens(t) ==
  CASE t.kind \in {"uint", "bool", "bytesN"} -> FixedLens(t.len)
    [] t.kind = "bytes"       -> BytesLens(t)
    [] t.kind = "bitlist"     -> BitlistLens(t)
    [] t.kind = "bitvector"   -> BitvectorLens(t)
    [] t.kind = "basicVector" -> BasicVectorLens(t)
    [] t.kind = "basicList"   -> BasicListLens(t)
    [] t.kind = "vector"      -> VectorLens(t, Lens(t.elem))
    [] t.kind = "list"        -> ListLens(t, Lens(t.elem))
    [] t.kind = "container"   -> ContainerLens(Each(Len(t.fields), LAMBDA k : Lens(t.fields[k])))
    [] t.kind = "ptr"         -> Lens(t.elem)

(***************************************************************************)
(* Objects in memory.  The slice of a list has a length and cells up to    *)
(* its capacity; what the cells beyond the length hold survives.  A        *)
(* pointer is <<>> (nil) or <<object>>.  Byte slices and arrays are plain  *)
(* sequences: their cells are always overwritten as a whole.               *)
(***************************************************************************)
Slice(cells)  == [len |-> Len(cells), cells |-> cells]
Elems(slice)  == SubSeq(slice.cells, 1, slice.len)

\* What Go makes of a variable of the type before anything is decoded into it.
RECURSIVE Zero(_)
Zero(t) ==
  CASE t.kind \in {"uint", "bool"} -> 0
    [] t.kind = "bytesN"           -> Each(t.len, LAMBDA k : 0)
    [] t.kind = "bitvector"        -> Each(RoundUp(t.bits, ByteBits), LAMBDA k : 0)
    [] t.kind \in {"bytes", "bitlist", "ptr"} -> <<>>
    [] t.kind \in {"basicList", "list"}       -> Slice(<<>>)
    [] t.kind \in {"basicVector", "vector"}   -> Each(t.len, LAMBDA k : Zero(t.elem))
    [] t.kind = "container"        -> Each(Len(t.fields), LAMBDA k : Zero(t.fields[k]))
=============================================================================
