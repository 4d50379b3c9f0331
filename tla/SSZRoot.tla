------------------------------- MODULE SSZRoot -------------------------------
(***************************************************************************)
(* types/: HashTreeRoot and SigningRoot.                                   *)
(*                                                                         *)
(* Hashing is symbolic: an inner node is the record of its children, and a *)
(* length mixed in a record of its own (module Leaves has the leaves). The *)
(* tree over the chunks is the balanced one, which module Merkleize shows  *)
(* the code to compute.                                                    *)
(***************************************************************************)
EXTENDS SSZEncoding, SSZDecoding

Combi(a, b)     == [left |-> a, right |-> b]
MixIn(root, n)  == [root |-> root, length |-> n]

RECURSIVE Subtree(_, _, _)
Subtree(leaves, level, n) ==
  IF level = 0 THEN IF n < Len(leaves) THEN leaves[n + 1] ELSE Chunk(<<>>)
  ELSE Combi(Subtree(leaves, level - 1, 2 * n), Subtree(leaves, level - 1, 2 * n + 1))

TreeDepth(limit) == CHOOSE d \in 0..limit : 2^d >= limit /\ (d = 0 \/ 2^(d - 1) < limit)

MerkleRoot(leaves, limit) == Subtree(leaves, TreeDepth(limit), 0)

ByteRoot(b) == MerkleRoot(Chunks(b), RoundUp(Len(b), ChunkLen))

BitlistRoot(t, b) ==
  MixIn(MerkleRoot(BitlistLeaves(b), RoundUp(RoundUp(t.limit, ByteBits), ChunkLen)), BitlistLen(b))

(***************************************************************************)
(* Every type's root.                                                      *)
(***************************************************************************)
Unmixed(root, n)  == root   \* a mutated form
ListRoot(root, n) == MixIn(root, n)

RECURSIVE HashTreeRoot(_, _)

ElemRoots(elem, elems) == Each(Len(elems), LAMBDA k : HashTreeRoot(elem, elems[k]))
FieldRoots(t, v, n)    == Each(n, LAMBDA k : HashTreeRoot(t.fields[k], v[k]))

HashTreeRoot(t, v) ==
  CASE t.kind \in {"uint", "bool"} -> Chunk(ToBytes(v, t.len))
    [] t.kind \in {"bytesN", "bitvector"} -> ByteRoot(v)
    [] t.kind = "bytes"   -> ListRoot(MerkleRoot(Chunks(v), RoundUp(t.limit, ChunkLen)), Len(v))
    [] t.kind = "bitlist" -> BitlistRoot(t, v)
    [] t.kind = "basicVector" -> ByteRoot(BasicBytes(t.elem, v))
    [] t.kind = "basicList" ->
         ListRoot(MerkleRoot(Chunks(BasicBytes(t.elem, Elems(v))),
                             RoundUp(t.limit * t.elem.len, ChunkLen)), v.len)
    [] t.kind = "vector"    -> MerkleRoot(ElemRoots(t.elem, v), t.len)
    [] t.kind = "list"      -> ListRoot(MerkleRoot(ElemRoots(t.elem, Elems(v)), t.limit), v.len)
    [] t.kind = "container" -> MerkleRoot(FieldRoots(t, v, Len(v)), Len(v))
    [] t.kind = "ptr"       -> HashTreeRoot(t.elem, v[1])

AllFields(t)    == Len(t.fields)   \* a mutated form
SignedFields(t) == IF Len(t.fields) = 0 THEN 0 ELSE Len(t.fields) - 1

SigningRoot(t, v) == MerkleRoot(FieldRoots(t, v, SignedFields(t)), SignedFields(t))

\* Merkleize panics when there are more leaves than the limit has room for.
RECURSIVE Panics(_, _)
Panics(t, v) ==
  LET any(elems) == \E k \in 1..Len(elems) : Panics(t.elem, elems[k])
  IN  CASE t.kind = "bytes"     -> RoundUp(Len(v), ChunkLen) > RoundUp(t.limit, ChunkLen)
        [] t.kind = "bitlist"   -> RoundUp(DataLen(v), ChunkLen)
                                     > RoundUp(RoundUp(t.limit, ByteBits), ChunkLen)
        [] t.kind = "basicList" -> RoundUp(v.len * t.elem.len, ChunkLen)
                                     > RoundUp(t.limit * t.elem.len, ChunkLen)
        [] t.kind = "list"      -> v.len > t.limit \/ any(Elems(v))
        [] t.kind = "vector"    -> any(v)
        [] t.kind = "container" -> \E k \in 1..Len(v) : Panics(t.fields[k], v[k])
        [] t.kind = "ptr"       -> Panics(t.elem, v[1])
        [] OTHER                -> FALSE
==============================================================================
