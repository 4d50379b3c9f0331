------------------------------ MODULE Container ------------------------------
(***************************************************************************)
(* types/ssz_container.go: decoding and dry-checking a container, field by *)
(* field, in both modes.                                                   *)
(*                                                                         *)
(* processFixedPart lets the fixed-size fields read from the container's   *)
(* own reader, and collects the offsets of the others; decodeDynamicPart   *)
(* gives each of the others a scope that ends at the next offset.  In      *)
(* fuzzing mode there are no offsets, and every field gets a scope of all  *)
(* that the fields after it do not need; DecodeVarSeriesFuzzMode is the    *)
(* same loop over the elements of a series.                                *)
(*                                                                         *)
(* A field's handler is any that reads some bytes of what it is given, or  *)
(* fails.  A container with offsets has a scope of its own and starts at   *)
(* its index 0; one without may be anywhere in its parent's.               *)
(***************************************************************************)
EXTENDS ContainerType

CONSTANTS
  MaxOffset,    \* the largest value an offset can have
  MaxScope      \* bound on the bytes of the scope

ASSUME MaxOffsetAssumption == MaxOffset \in Nat
ASSUME MaxScopeAssumption  == MaxScope \in Nat

VARIABLES
  max,         \* dr.Max(): bytes of the scope
  start,       \* dr.Index() at the call
  i,           \* dr.Index()
  fi,          \* the fields that have been handled in this loop
  fixedI,      \* where the fixed part should have been read to
  offsets,     \* the offsets read
  next,        \* the offset whose field comes next (decodeDynamicPart's i)
  leftOver,    \* fuzzing mode: bytes that the fields to come need
  begins,      \* index at which the handler of each field of this loop was called
  ends,        \* and at which it returned (history; not in the fixed part)
  pc,          \* "fixed", "dynamic" or "fuzz"
  status       \* "running", "failed", "short" (of bytes to fuzz with), "accepted"

vars == <<type, max, start, i, fi, fixedI, offsets, next, leftOver, begins, ends, pc, status>>

\* About to read a scope of m bytes from its index on.
Ready(m, index) ==
  /\ max = m
  /\ start = index
  /\ i = start
  /\ fi = 0
  /\ fixedI = start
  /\ offsets = <<>>
  /\ next = 1
  /\ leftOver = FuzzMinLen(type)
  /\ begins = <<>>
  /\ ends = <<>>
  /\ status = "running"

Init ==
  /\ type \in Containers
  /\ \E m \in 0..MaxScope : \E index \in 0..m : Ready(m, index)
  /\ pc \in {"fixed", "fuzz"}
  /\ pc = "fixed" /\ ~IsFixed(type) => start = 0

Running(in) == status = "running" /\ pc = in

Return(result, index) ==
  /\ status' = result
  /\ i' = index
  /\ UNCHANGED <<type, max, start, fi, fixedI, offsets, next, leftOver, begins, ends, pc>>

Fail == Return("failed", i)

HasField == fi < Len(type.fields)
f        == type.fields[fi + 1]

\* The field's handler, in a scope of its own, has read n bytes.
Handled(n) ==
  /\ begins' = Append(begins, i)
  /\ ends' = Append(ends, i + n)
  /\ i' = i + n
  /\ fi' = fi + 1

(***************************************************************************)
(* Mutated forms of the operators below.                                   *)
(***************************************************************************)
IgnoreOffset       == TRUE
ReserveNothing     == 0
ReservedTwice      == leftOver - 2 * f.fuzzMinLen
IgnoredIfEmpty     == f.isFixed \/ (next < Len(offsets) /\ offsets[next + 1] = offsets[next])
ShortOfMax         == (IF next < Len(offsets) THEN offsets[next + 1] ELSE max - 1) - offsets[next]

(***************************************************************************)
(* processFixedPart.                                                       *)
(***************************************************************************)
AsExpected(index) == index = fixedI + HeadLen(f)

FixedField(n) ==
  /\ Running("fixed")
  /\ HasField
  /\ f.isFixed
  /\ IF AsExpected(i + n)
       THEN /\ i' = i + n
            /\ fixedI' = fixedI + HeadLen(f)
            /\ fi' = fi + 1
            /\ UNCHANGED <<type, max, start, offsets, next, leftOver, begins, ends, pc, status>>
       ELSE Return("failed", i + n)

OffsetField(o) ==
  /\ Running("fixed")
  /\ HasField
  /\ ~f.isFixed
  /\ \/ /\ i + W > max
        /\ Fail
     \/ /\ i + W <= max
        /\ i' = i + W
        /\ fixedI' = fixedI + HeadLen(f)
        /\ offsets' = Append(offsets, o)
        /\ fi' = fi + 1
        /\ UNCHANGED <<type, max, start, next, leftOver, begins, ends, pc, status>>

AtPivot == i = FixedLen(type) + start

EndOfFixedPart ==
  /\ Running("fixed")
  /\ ~HasField
  /\ IF AtPivot
       THEN /\ pc' = "dynamic"
            /\ fi' = 0
            /\ UNCHANGED <<type, max, start, i, fixedI, offsets, next, leftOver, begins, ends, status>>
       ELSE Fail

(***************************************************************************)
(* decodeDynamicPart.  The scope of the last field is computed from max by *)
(* an unsigned subtraction; an offset beyond max, for which it would wrap  *)
(* around, is not where the index is.                                      *)
(***************************************************************************)
Ignored == f.isFixed

IgnoreField ==
  /\ Running("dynamic")
  /\ HasField
  /\ Ignored
  /\ fi' = fi + 1
  /\ UNCHANGED <<type, max, start, i, fixedI, offsets, next, leftOver, begins, ends, pc, status>>

AtOffset   == i = offsets[next]
FieldScope == (IF next < Len(offsets) THEN offsets[next + 1] ELSE max) - offsets[next]
FitsSpan(n) == n <= max - i

InScope == AtOffset /\ FieldScope >= 0 /\ FitsSpan(FieldScope)

DynamicField(n) ==
  /\ Running("dynamic")
  /\ HasField
  /\ ~Ignored
  /\ IF InScope
       THEN /\ n <= FieldScope
            /\ Handled(n)
            /\ next' = next + 1
            /\ UNCHANGED <<type, max, start, fixedI, offsets, leftOver, pc, status>>
       ELSE Fail

(***************************************************************************)
(* decodeVarSizeFuzzmode, DecodeVarSeriesFuzzMode.                         *)
(***************************************************************************)
Reserved == leftOver - f.fuzzMinLen
Enough   == max - i >= Reserved

FuzzField(n) ==
  /\ Running("fuzz")
  /\ HasField
  /\ IF Enough
       THEN /\ n <= max - i - Reserved
            /\ Handled(n)
            /\ leftOver' = Reserved
            /\ UNCHANGED <<type, max, start, fixedI, offsets, next, pc, status>>
       ELSE Return("short", i)

Finish ==
  /\ pc \in {"dynamic", "fuzz"}
  /\ status = "running"
  /\ ~HasField
  /\ Return("accepted", i)

(***************************************************************************)
(* A handler fails, or the stream does under an offset that is read.       *)
(***************************************************************************)
ReadFails ==
  /\ status = "running"
  /\ HasField
  /\ CASE pc = "fixed" /\ f.isFixed    -> \E n \in 0..(max - i) : Return("failed", i + n)
       [] pc = "fixed" /\ ~f.isFixed   -> i + W <= max /\ Return("failed", i + W)
       [] pc = "dynamic" -> ~Ignored /\ InScope /\ Fail
       [] pc = "fuzz"    -> Enough /\ Fail

Returned == status # "running" /\ UNCHANGED vars

Next ==
  \/ \E n \in 0..(max - i) : FixedField(n) \/ DynamicField(n) \/ FuzzField(n)
  \/ \E o \in 0..MaxOffset : OffsetField(o)
  \/ EndOfFixedPart
  \/ IgnoreField
  \/ Finish
  \/ ReadFails
  \/ Returned

Spec == Init /\ [][Next]_vars

(***************************************************************************)
(* Properties.                                                             *)
(***************************************************************************)
NoOffsets == pc = "fuzz"

TypeOK ==
  /\ type \in Containers
  /\ max \in Nat
  /\ start \in 0..max
  /\ i \in start..max
  /\ fi \in 0..Len(type.fields)
  /\ fixedI \in Nat
  /\ offsets \in Seq(Nat)
  /\ next \in Nat \ {0}
  /\ leftOver \in Nat
  /\ begins \in Seq(0..max)
  /\ ends \in Seq(0..max)
  /\ Len(begins) = Len(ends)
  /\ pc \in {"fixed", "dynamic", "fuzz"}
  /\ status \in {"running", "failed", "short", "accepted"}

\* A fixed-size field is only decoded at its own place behind the fields and offsets
\* before it, whatever their handlers have read.
FixedInPlace == status = "running" /\ pc = "fixed" => i = start + type.fixedLen[fi]

\* A variable-size field is decoded behind the fixed part, from its own offset, and
\* gets no byte at or behind the next field's offset, or behind the scope: also when
\* the container is refused later.
ScopeEnd(k) == IF k < Len(offsets) THEN offsets[k + 1] ELSE max

FieldsApart ==
  pc = "dynamic" =>
    \A k \in 1..Len(ends) :
      /\ start + FixedLen(type) <= begins[k]
      /\ begins[k] = offsets[k]
      /\ ends[k] <= ScopeEnd(k)
      /\ ScopeEnd(k) <= max

\* Every field is decoded from bytes of its own, also when the container is refused
\* later: one of fixed size from its place, one of variable size from its scope.
FieldsInPlace == FixedInPlace /\ FieldsApart

\* An accepted container has its fields back to back, each variable-size one at its
\* offset: nothing is skipped or read twice.  Only behind the last one bytes may be
\* left, for the caller to notice: the index tells.
Tiled ==
  status = "accepted" /\ pc = "dynamic" =>
    /\ Len(ends) = OffsetCount(type)
    /\ Len(offsets) = OffsetCount(type)
    /\ IF ends = <<>> THEN i = start + FixedLen(type)
       ELSE /\ begins[1] = start + FixedLen(type)
            /\ \A k \in 1..(Len(ends) - 1) : ends[k] = begins[k + 1]
            /\ i = ends[Len(ends)]

\* Fuzzing mode: if there are FuzzMinLen bytes for the container, there are for each
\* of its fields in turn, whatever the fields before it take of the rest, and no
\* input is refused for being short.
FuzzBudget ==
  NoOffsets /\ max - start >= FuzzMinLen(type) =>
    /\ status # "short"
    /\ \A k \in 1..Len(ends) :
         /\ max - type.fuzzMinLen[k] - begins[k] >= type.fields[k].fuzzMinLen
         /\ ends[k] <= max - type.fuzzMinLen[k]
==============================================================================
