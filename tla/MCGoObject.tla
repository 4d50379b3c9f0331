------------------------------ MODULE MCGoObject ------------------------------
(***************************************************************************)
(* Go types for TLC, and objects and inputs of them.                       *)
(***************************************************************************)
EXTENDS MCCodec, GoObject

Plain(typ)  == GoField(typ, {}, FALSE)
Omit(typ)   == GoField(typ, {"omit"}, FALSE)
Squash(typ) == GoField(typ, {"squash"}, FALSE)
Embed(typ)  == GoField(typ, {}, TRUE)

BitSlice(limit)    == GoSlice(GoUint(1), {limit}, {0})
ByteSlice(limit) == GoSlice(GoUint(1), {limit}, {})
ListOf(elem, n)  == GoSlice(elem, {n}, {})

GoPair   == GoStruct(<<Plain(GoUint(1)), Plain(GoBool)>>)
GoLinked   == GoStruct(<<Plain(GoBool), Plain(GoPtr(GoStruct(<<Plain(ListOf(BitSlice(1), 1))>>)))>>)
GoRecord   == GoStruct(<<Plain(ByteSlice(1)), Plain(GoArray(GoUint(1), 1, {})), Plain(GoUint(1))>>)
GoCached   == GoStruct(<<Plain(GoUint(1)), Omit(GoOther), Plain(GoBool)>>)
GoNested   == GoStruct(<<Omit(GoUint(1)), Embed(GoCached), Plain(GoCached), Squash(GoStruct(<<Embed(GoUint(1))>>))>>)
GoTagged   == GoStruct(<<Embed(GoStruct(<<Plain(ByteSlice(1)), Omit(GoCached)>>)), Embed(GoPtr(GoPair)),
                       Plain(GoUint(1))>>)

SomeGoTypes ==
  {ByteSlice(2), BitSlice(4), GoArray(GoUint(1), 2, {4}), ListOf(GoBool, 2), GoPair, ListOf(GoPair, 1),
   ListOf(BitSlice(2), 1), ListOf(ByteSlice(1), 2), GoLinked, GoRecord, GoNested, GoTagged,
   GoStruct(<<Squash(GoPtr(GoPair))>>), GoStruct(<<Plain(GoSlice(GoPair, {}, {}))>>)}

\* A zeroed object, whose omitted fields hold something.
RECURSIVE FreshMemory(_)
FreshMemory(g) ==
  IF g.kind # "struct" THEN Zero(SSZFactory(g))
  ELSE Each(Len(g.fields), LAMBDA k :
         IF "omit" \in g.fields[k].flags THEN 1 ELSE FreshMemory(g.fields[k].typ))

FreshGoObject(g) == {FreshMemory(g)}

SomeTypes        == {SSZFactory(g) : g \in SomeGoTypes}
EncodingTable    == [t \in {u \in SomeTypes : ~IsRefused(u)} |-> {Encode(t, v).out : v \in Values(t)}]
EncodingsAndFew(t) == EncodingTable[t] \cup FewInputs
===============================================================================
