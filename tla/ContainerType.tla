---------------------------- MODULE ContainerType ----------------------------
(***************************************************************************)
(* types/ssz_container.go: what NewSSZContainer computes from the fields.  *)
(* A series of variable-size elements is laid out like a container of      *)
(* them, and stands for one here.                                          *)
(*                                                                         *)
(* A sum over the fields is kept as the function of its partial sums: the  *)
(* loops that encode and decode pass through them.                         *)
(***************************************************************************)
EXTENDS Integers, Sequences

CONSTANTS
  W,            \* BYTES_PER_LENGTH_OFFSET
  Containers    \* the types of containers

VARIABLE type   \* the container's type

Field == [isFixed : BOOLEAN, fixedLen : Nat, fuzzMinLen : Nat]

HeadLen(f)     == IF f.isFixed THEN f.fixedLen ELSE W
OffsetsOf(f)   == IF f.isFixed THEN 0 ELSE 1

\* sums[k]: of the first k of n fields.  rest[k]: of all but the first k.
AreSums(sums, n, part(_)) ==
  /\ sums \in [0..n -> Nat]
  /\ sums[0] = 0
  /\ \A k \in 1..n : sums[k] = sums[k - 1] + part(k)

AreRests(rest, n, part(_)) ==
  /\ rest \in [0..n -> Nat]
  /\ rest[n] = 0
  /\ \A k \in 1..n : rest[k - 1] = part(k) + rest[k]

NewSSZContainer(fields) ==
  LET n == Len(fields)
      fixedLen[k \in 0..n]    == IF k = 0 THEN 0 ELSE fixedLen[k - 1] + HeadLen(fields[k])
      offsetCount[k \in 0..n] == IF k = 0 THEN 0 ELSE offsetCount[k - 1] + OffsetsOf(fields[k])
      fuzzMinLen[k \in 0..n]  == IF k = n THEN 0 ELSE fields[k + 1].fuzzMinLen + fuzzMinLen[k + 1]
  IN  [fields |-> fields, fixedLen |-> fixedLen, offsetCount |-> offsetCount,
       fuzzMinLen |-> fuzzMinLen]

LensAddUp(t) ==
  /\ AreSums(t.fixedLen, Len(t.fields), LAMBDA k : HeadLen(t.fields[k]))
  /\ AreSums(t.offsetCount, Len(t.fields), LAMBDA k : OffsetsOf(t.fields[k]))
  /\ AreRests(t.fuzzMinLen, Len(t.fields), LAMBDA k : t.fields[k].fuzzMinLen)

ASSUME WAssumption == W \in Nat \ {0}
ASSUME ContainersAssumption ==
  \A t \in Containers : t.fields \in Seq(Field) /\ LensAddUp(t)

FixedLen(t)    == t.fixedLen[Len(t.fields)]
OffsetCount(t) == t.offsetCount[Len(t.fields)]
FuzzMinLen(t)  == t.fuzzMinLen[0]
IsFixed(t)     == OffsetCount(t) = 0
==============================================================================
