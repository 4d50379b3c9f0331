----------------------------- MODULE SSZEncoding -----------------------------
(***************************************************************************)
(* types/: SizeOf and Encode.  The offsets of a container or of a series   *)
(* of variable-size elements are summed up from SizeOf before any of the   *)
(* elements is written by Encode.                                          *)
(***************************************************************************)
EXTENDS SSZTypes

MaxOffset == 2^(ByteBits * OffsetLen) - 1

(***************************************************************************)
(* Mutated forms.                                                          *)
(***************************************************************************)
OffsetsFromZero(fixedLen, parts, k) ==
  Sum(Each(k - 1, LAMBDA m : IF parts[m].isFixed THEN 0 ELSE parts[m].size))
NoOffsetSize(t, e, sizes) == IF e.isFixed THEN Len(sizes) * e.fixed ELSE Sum(sizes)

RECURSIVE SizeOf(_, _)

\* e: the lengths of the element
SeriesSize(t, e, sizes) ==
  IF e.isFixed THEN Len(sizes) * e.fixed ELSE Len(sizes) * OffsetLen + Sum(sizes)

ContainerSize(t, v) ==
  Lens(t).fixed
    + Sum(Each(Len(v), LAMBDA k : IF Lens(t.fields[k]).isFixed THEN 0
                                  ELSE SizeOf(t.fields[k], v[k])))

SizeOf(t, v) ==
  LET each(elems) == Each(Len(elems), LAMBDA k : SizeOf(t.elem, elems[k]))
  IN  CASE t.kind \in {"bytes", "bitlist"} -> Len(v)
        [] t.kind = "basicList" -> v.len * t.elem.len
        [] t.kind = "list"      -> SeriesSize(t, Lens(t.elem), each(Elems(v)))
        [] t.kind = "vector"    -> SeriesSize(t, Lens(t.elem), each(v))
        [] t.kind = "container" -> ContainerSize(t, v)
        [] t.kind = "ptr"       -> SizeOf(t.elem, v[1])
        [] OTHER                -> Lens(t).fixed

(***************************************************************************)
(* The two passes over the parts of an object (the fields of a container,  *)
(* the elements of a series): first the fixed-size parts and the offsets   *)
(* of the others, then the others.  WriteOffset panics when an offset does *)
(* not fit.  part: [isFixed, size, enc].                                   *)
(***************************************************************************)
Written(bytes) == [panic |-> FALSE, out |-> bytes]

WriteOffset(fixedLen, parts, k) ==
  fixedLen + Sum(Each(k - 1, LAMBDA m : IF parts[m].isFixed THEN 0 ELSE parts[m].size))

EncodeParts(fixedLen, parts) ==
  LET n       == Len(parts)
      head(k) == IF parts[k].isFixed THEN parts[k].enc.out
                 ELSE ToBytes(WriteOffset(fixedLen, parts, k), OffsetLen)
      tail(k) == IF parts[k].isFixed THEN <<>> ELSE parts[k].enc.out
  IN  [panic |-> \E k \in 1..n : \/ parts[k].enc.panic
                                 \/ /\ ~parts[k].isFixed
                                    /\ WriteOffset(fixedLen, parts, k) > MaxOffset,
       out   |-> FlattenSeq(Each(n, head)) \o FlattenSeq(Each(n, tail))]

RECURSIVE Encode(_, _)

Part(t, v) == [isFixed |-> Lens(t).isFixed, size |-> SizeOf(t, v), enc |-> Encode(t, v)]

EncodeSeries(elem, elems) ==
  EncodeParts(OffsetLen * Len(elems), Each(Len(elems), LAMBDA k : Part(elem, elems[k])))

EncodeContainer(t, v) ==
  EncodeParts(Lens(t).fixed, Each(Len(v), LAMBDA k : Part(t.fields[k], v[k])))

\* (A nil pointer inside the object is not encoded: the program would crash.)
Encode(t, v) ==
  CASE t.kind \in {"uint", "bool"} -> Written(ToBytes(v, t.len))
    [] t.kind \in {"bytes", "bytesN", "bitlist", "bitvector"} -> Written(v)
    [] t.kind = "basicVector" -> Written(BasicBytes(t.elem, v))
    [] t.kind = "basicList"   -> Written(BasicBytes(t.elem, Elems(v)))
    [] t.kind = "vector"      -> EncodeSeries(t.elem, v)
    [] t.kind = "list"        -> EncodeSeries(t.elem, Elems(v))
    [] t.kind = "container"   -> EncodeContainer(t, v)
    [] t.kind = "ptr"         -> Encode(t.elem, v[1])
==============================================================================
