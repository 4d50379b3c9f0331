------------------------------- MODULE MCCodec -------------------------------
(***************************************************************************)
(* Types, objects and inputs for TLC.                                      *)
(***************************************************************************)
EXTENDS Codec

CONSTANTS
  MaxInput,   \* the longest input of any bytes
  MaxFew,     \* the longest input of bytes from
  Few         \* a few

(***************************************************************************)
(* Types.                                                                  *)
(***************************************************************************)
Pair       == Container(<<Uint(1), Bool>>)
Record     == Container(<<Bytes(1), Uint(1), Bitlist(4)>>)
Linked     == Container(<<Bool, Ptr(Container(<<List(Bytes(1), 2)>>))>>)

BasicTypes  == {Uint(2), BytesN(2), Bitlist(4), Bitvector(4), BasicVector(Bool, 2),
                BasicVector(Uint(2), 2), BasicList(Uint(2), 2), BasicList(Bool, 2)}
NestedTypes == {Vector(Pair, 2), List(Pair, 2), List(Bitlist(3), 2), Vector(Bitlist(2), 2), Linked}
ByteTypes   == {Bytes(2), List(Bytes(2), 2), Vector(Bytes(1), 2), List(List(Bytes(1), 2), 2), Record}
AllTypes    == BasicTypes \cup NestedTypes \cup ByteTypes

\* Types of which objects are decoded in fuzzing mode.
FuzzTypes   == {Bytes(2), BytesN(2), Bitlist(2), Bitlist(6), Bitvector(3), BasicVector(Bool, 2),
                List(BasicVector(Bool, 1), 1), List(Bitlist(2), 2), Vector(Bytes(2), 2),
                Vector(Bitlist(2), 2), Container(<<Bool, Ptr(Container(<<List(Pair, 1)>>))>>),
                Container(<<Bytes(3), Uint(2), Bitlist(1)>>)}
CallTypes   == AllTypes \cup FuzzTypes

(***************************************************************************)
(* Objects a program may have built, slices with spare capacity among them.*)
(***************************************************************************)
Some == {0, 2^ByteBits - 1}

RECURSIVE Values(_), FieldValues(_, _)
Values(t) ==
  CASE t.kind = "uint"      -> {0, 2^(ByteBits * t.len) - 1}
    [] t.kind = "bool"      -> {0, 1}
    [] t.kind = "bytes"     -> BoundedSeq(Some, Least(t.limit + 1, 2))
    [] t.kind = "bytesN"    -> [1..t.len -> Some]
    [] t.kind = "bitlist"   -> {b \in BoundedSeq(Byte, 2) : BitlistCheck(b, t.limit)}
    [] t.kind = "bitvector" -> {b \in [1..RoundUp(t.bits, ByteBits) -> Some] : BitvectorCheck(b, t.bits)}
    [] t.kind \in {"vector", "basicVector"} -> [1..t.len -> Values(t.elem)]
    [] t.kind \in {"list", "basicList"} ->
         LET cells == BoundedSeq(Values(t.elem), Least(t.limit + 1, 2))
         IN  UNION {{[len |-> n, cells |-> c] : n \in 0..Len(c)} : c \in cells}
    [] t.kind = "container" -> FieldValues(t, Len(t.fields))
    [] t.kind = "ptr"       -> {<<v>> : v \in Values(t.elem)}

FieldValues(t, n) ==
  IF n = 0 THEN {<<>>}
  ELSE {Append(v, x) : v \in FieldValues(t, n - 1), x \in Values(t.fields[n])}

FreshObject(t) == {Zero(t)}

(***************************************************************************)
(* Inputs.                                                                 *)
(***************************************************************************)
FewInputs      == BoundedSeq(Few, MaxFew)
AnyInputs      == BoundedSeq(Byte, MaxInput)
FewInputsOf(t) == FewInputs
CallInputs(t)  == IF t \in FuzzTypes THEN AnyInputs \cup FewInputs ELSE AnyInputs
=============================================================================
