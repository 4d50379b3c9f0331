------------------------------ MODULE VarSeries ------------------------------
(***************************************************************************)
(* types/elem_var_size_series.go: decoding a series of variable-size       *)
(* elements, in a scope of its own.  A table of offsets comes first; the   *)
(* elements follow, each in a scope that ends at the next offset.          *)
(*                                                                         *)
(* A list ("slice") learns its length from the first offset; a vector      *)
(* ("series") knows it.  Decode and DryCheck run the same loops and differ *)
(* only in what the element's handler does with its scope: the handler is  *)
(* any that reads some bytes of the scope, or fails.  Every series of the  *)
(* library starts at index 0 of its scope.                                 *)
(***************************************************************************)
EXTENDS Integers, Sequences

CONSTANTS
  W,           \* BYTES_PER_LENGTH_OFFSET
  MaxOffset,   \* the largest value an offset can have (uint32)
  MaxScope,    \* bound on the bytes of the scope
  MaxLength,   \* bound on the length of a vector and the limit of a list
  minElemLen   \* FixedLen() of the element type

ASSUME WAssumption          == W \in Nat \ {0}
ASSUME MaxOffsetAssumption  == MaxOffset \in Nat
ASSUME MaxScopeAssumption   == MaxScope \in Nat
ASSUME MaxLengthAssumption  == MaxLength \in Nat
ASSUME MinElemLenAssumption == minElemLen \in Nat

VARIABLES
  kind,      \* "slice" (list) or "series" (vector)
  bound,     \* the limit of the list, the length of the vector
  max,       \* dr.Max(): bytes of the scope
  i,         \* dr.Index()
  length,    \* elements there is room for, as make() was told
  offsets,   \* the offsets read so far
  begins,    \* index at which each element's handler was called (history)
  ends,      \* index at which each element's handler returned (history)
  pc,        \* "first", "table", "elems"
  status     \* "running", "failed", "accepted"

vars == <<kind, bound, max, i, length, offsets, begins, ends, pc, status>>

Init ==
  /\ kind \in {"slice", "series"}
  /\ bound \in 0..MaxLength
  /\ max \in 0..MaxScope
  /\ i = 0
  /\ length = 0
  /\ offsets = <<>>
  /\ begins = <<>>
  /\ ends = <<>>
  /\ pc = "first"
  /\ status = "running"

FailAt(index) ==
  /\ status' = "failed"
  /\ i' = index
  /\ UNCHANGED <<kind, bound, max, length, offsets, begins, ends, pc>>

Fail == FailAt(i)

(***************************************************************************)
(* Mutated forms of the operators below.                                   *)
(***************************************************************************)
IgnoreLimit(o)  == IF kind = "slice" THEN o % W = 0 ELSE o \div W = bound
IgnoreStart(e)  == TRUE
IgnoreLeftover  == TRUE
IgnoreSpan(n)   == TRUE

(***************************************************************************)
(* The first offset.  An empty series has none.                            *)
(***************************************************************************)
NothingToRead == IF kind = "slice" THEN max = 0 ELSE bound = 0

EmptySeries ==
  /\ pc = "first"
  /\ NothingToRead
  /\ pc' = "elems"
  /\ UNCHANGED <<kind, bound, max, i, length, offsets, begins, ends, status>>

ValidFirstOffset(o) ==
  IF kind = "slice"
    THEN /\ o <= max
         /\ o % W = 0
         /\ o \div W <= bound
         /\ minElemLen * (o \div W) <= max
    ELSE o \div W = bound

FirstOffset(o) ==
  /\ pc = "first"
  /\ ~NothingToRead
  /\ \/ /\ i + W > max
        /\ Fail
     \/ /\ i + W <= max
        /\ ~ValidFirstOffset(o)
        /\ FailAt(i + W)
     \/ /\ i + W <= max
        /\ ValidFirstOffset(o)
        /\ i' = i + W
        /\ length' = o \div W
        /\ offsets' = <<o>>
        /\ pc' = "table"
        /\ UNCHANGED <<kind, bound, max, begins, ends, status>>

(***************************************************************************)
(* The other offsets.  A list whose first offset was 0 has read one more   *)
(* offset than its length; the index tells.                                *)
(***************************************************************************)
MoreOffsets == Len(offsets) < length

NextOffset(o) ==
  /\ pc = "table"
  /\ MoreOffsets
  /\ \/ /\ i + W > max
        /\ Fail
     \/ /\ i + W <= max
        /\ i' = i + W
        /\ offsets' = Append(offsets, o)
        /\ UNCHANGED <<kind, bound, max, length, begins, ends, pc, status>>

IndexAfterTable == kind = "slice" => i = W * length

EndOfTable ==
  /\ pc = "table"
  /\ ~MoreOffsets
  /\ \/ /\ ~IndexAfterTable
        /\ Fail
     \/ /\ IndexAfterTable
        /\ pc' = "elems"
        /\ UNCHANGED <<kind, bound, max, i, length, offsets, begins, ends, status>>

(***************************************************************************)
(* decodeVarSeriesFromOffsets, dryCheckVarSeriesFromOffsets: element e is  *)
(* where the index is, or the offsets are refused.                         *)
(***************************************************************************)
AtOffset(e)   == i = offsets[e]
ElemScope(e)  == (IF e < Len(offsets) THEN offsets[e + 1] ELSE max) - i
FitsSpan(n)   == n <= max - i

Element ==
  LET e == Len(ends) + 1 IN
  /\ pc = "elems"
  /\ e <= Len(offsets)
  /\ \/ /\ \/ ~AtOffset(e)
           \/ ElemScope(e) < 0
           \/ ~FitsSpan(ElemScope(e))
        /\ Fail
     \/ /\ AtOffset(e)
        /\ FitsSpan(ElemScope(e))
        /\ \E read \in 0..ElemScope(e) :
             /\ i' = i + read
             /\ ends' = Append(ends, i + read)
        /\ begins' = Append(begins, i)
        /\ UNCHANGED <<kind, bound, max, length, offsets, pc, status>>

WholeScope == i = max

Finish ==
  /\ pc = "elems"
  /\ Len(ends) = Len(offsets)
  /\ \/ /\ ~WholeScope
        /\ Fail
     \/ /\ WholeScope
        /\ status' = "accepted"
        /\ UNCHANGED <<kind, bound, max, i, length, offsets, begins, ends, pc>>

(***************************************************************************)
(* The stream under the reader ends or fails (ReadOffset has moved the     *)
(* index by then), or an element is invalid.                               *)
(***************************************************************************)
ReadFails ==
  \/ /\ \/ pc = "first" /\ ~NothingToRead
        \/ pc = "table" /\ MoreOffsets
     /\ i + W <= max
     /\ FailAt(i + W)
  \/ /\ pc = "elems"
     /\ Len(ends) < Len(offsets)
     /\ AtOffset(Len(ends) + 1)
     /\ ElemScope(Len(ends) + 1) >= 0
     /\ FitsSpan(ElemScope(Len(ends) + 1))
     /\ Fail

Returned == status # "running" /\ UNCHANGED vars

Next ==
  \/ /\ status = "running"
     /\ \/ EmptySeries
        \/ \E o \in 0..MaxOffset : FirstOffset(o) \/ NextOffset(o)
        \/ EndOfTable
        \/ Element
        \/ Finish
        \/ ReadFails
  \/ Returned

Spec == Init /\ [][Next]_vars

(***************************************************************************)
(* Properties.                                                             *)
(***************************************************************************)
ScopeEnd(e) == IF e < Len(offsets) THEN offsets[e + 1] ELSE max

\* The shape of the state.
TypeOK ==
  /\ kind \in {"slice", "series"}
  /\ bound \in 0..MaxLength
  /\ max \in 0..MaxScope
  /\ i \in 0..max
  /\ length \in Nat
  /\ offsets \in Seq(0..MaxOffset)
  /\ begins \in Seq(Nat)
  /\ ends \in Seq(Nat)
  /\ pc \in {"first", "table", "elems"}
  /\ status \in {"running", "failed", "accepted"}

\* An accepted series is canonical: the first offset points right behind the
\* table, and every element was decoded from exactly the bytes between its own
\* offset and the next (the scope's end for the last): nothing is skipped, read
\* twice, or left over.
Tiled ==
  status = "accepted" =>
    /\ Len(begins) = Len(offsets)
    /\ Len(ends) = Len(offsets)
    /\ IF offsets = <<>> THEN max = 0 ELSE offsets[1] = W * Len(offsets)
    /\ \A e \in 1..Len(offsets) : begins[e] = offsets[e] /\ ends[e] = ScopeEnd(e)

\* Whatever the offsets say, and even if the series is refused later, an element
\* is never handed bytes of the table, of a neighbour or from outside the scope:
\* it is decoded behind the table, from its own offset, and stops before the next
\* one, which lies inside the scope.
ElementsApart ==
  \A e \in 1..Len(ends) :
    /\ begins[e] = offsets[e]
    /\ W * Len(offsets) <= begins[e]
    /\ ends[e] <= ScopeEnd(e)
    /\ ScopeEnd(e) <= max

\* The length a list takes from its first offset (and makes room for before it
\* has seen the other offsets) is within the list's limit, and the whole table
\* fits the scope; a vector has the length of its type.
LengthBounded ==
  pc # "first" =>
    IF kind = "slice" THEN length <= bound /\ W * length <= max
    ELSE length = bound
==============================================================================
