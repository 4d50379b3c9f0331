------------------------------- MODULE Factory -------------------------------
(***************************************************************************)
(* types/factory.go, and the constructors it calls: the SSZ type of a Go   *)
(* type, as package reflect describes it.  Names are left out, and so are  *)
(* the sizes of Go types; what a method of a Go type returns is part of    *)
(* the type.                                                               *)
(***************************************************************************)
EXTENDS SSZTypes, StructFields

(***************************************************************************)
(* Go types.  limit, bitLen: what Limit() and BitLen() return, {} if there *)
(* is no such method.                                                      *)
(***************************************************************************)
GoBool                       == [kind |-> "bool"]
GoUint(n)                    == [kind |-> "uint", len |-> n]
GoPtr(elem)                  == [kind |-> "ptr", elem |-> elem]
GoArray(elem, n, bitLen)     == [kind |-> "array", elem |-> elem, len |-> n, bitLen |-> bitLen]
GoSlice(elem, limit, bitLen) == [kind |-> "slice", elem |-> elem, limit |-> limit, bitLen |-> bitLen]
GoStruct(fields)             == [kind |-> "struct", fields |-> fields]
GoOther                      == [kind |-> "other"]

\* flags: those of the struct tag `ssz'.  anonymous: an embedded field.
GoField(typ, flags, anonymous) == [typ |-> typ, flags |-> flags, anonymous |-> anonymous]

(***************************************************************************)
(* Basic types, and series of them.                                        *)
(***************************************************************************)
SSZUint8  == Uint(1)
SSZUint16 == Uint(2)
SSZUint32 == Uint(4)
SSZUint64 == Uint(8)

SSZUint(n) == CHOOSE t \in {SSZUint8, SSZUint16, SSZUint32, SSZUint64} : t.len = n

IsUint8(g) == g = GoUint(1)
IsBasic(g) == g.kind \in {"bool", "uint"}

GetBasicSSZElemType(g) == IF g = GoBool THEN Bool ELSE SSZUint(g.len)

NewSSZBitvector(g) ==
  LET bits == CHOOSE n \in g.bitLen : TRUE
  IN  IF RoundUp(bits, ByteBits) = g.len THEN Bitvector(bits) ELSE Refused

\* ReadListLimit: a slice without a limit is no list.
Limited(g, Type(_)) == IF g.limit = {} THEN Refused ELSE Type(CHOOSE n \in g.limit : TRUE)

NewSSZBytes(g)     == Limited(g, Bytes)
NewSSZBitlist(g)   == Limited(g, Bitlist)
NewSSZBasicList(g) == Limited(g, LAMBDA limit : BasicList(GetBasicSSZElemType(g.elem), limit))

(***************************************************************************)
(* Types built from others.                                                *)
(***************************************************************************)
NewSSZPtr(elem)       == IF IsRefused(elem) THEN Refused ELSE Ptr(elem)
NewSSZVector(g, elem) == IF IsRefused(elem) THEN Refused ELSE Vector(elem, g.len)
NewSSZList(g, elem)   == Limited(g, LAMBDA limit : IF IsRefused(elem) THEN Refused ELSE List(elem, limit))

RECURSIVE SSZFactory(_)

ArrayType(g) ==
  CASE IsUint8(g.elem) /\ g.bitLen # {} -> NewSSZBitvector(g)
    [] IsUint8(g.elem) /\ g.bitLen = {} -> BytesN(g.len)
    [] ~IsUint8(g.elem) /\ IsBasic(g.elem) -> BasicVector(GetBasicSSZElemType(g.elem), g.len)
    [] OTHER -> NewSSZVector(g, SSZFactory(g.elem))

\* bitlistMeta has a Limit() besides a BitLen().
SliceType(g) ==
  CASE IsUint8(g.elem) /\ g.bitLen # {} /\ g.limit # {} -> NewSSZBitlist(g)
    [] IsUint8(g.elem) /\ (g.bitLen = {} \/ g.limit = {}) -> NewSSZBytes(g)
    [] ~IsUint8(g.elem) /\ IsBasic(g.elem) -> NewSSZBasicList(g)
    [] OTHER -> NewSSZList(g, SSZFactory(g.elem))

SSZFactory(g) ==
  CASE g.kind = "ptr"    -> NewSSZPtr(SSZFactory(g.elem))
    [] g.kind = "bool"   -> Bool
    [] g.kind = "uint"   -> SSZUint(g.len)
    [] g.kind = "struct" -> NewSSZContainer(g.fields, [k \in 1..Len(g.fields) |-> SSZFactory(g.fields[k].typ)])
    [] g.kind = "array"  -> ArrayType(g)
    [] g.kind = "slice"  -> SliceType(g)
    [] g.kind = "other"  -> Refused
=============================================================================
