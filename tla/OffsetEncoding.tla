--------------------------- MODULE OffsetEncoding ---------------------------
(***************************************************************************)
(* SSZContainer.Encode, EncodeVarSeries and enc/encoder.go: a first pass   *)
(* over the fields writes those of fixed size, and the offsets of the      *)
(* others from what SizeOf says of them; a second pass writes the others.  *)
(*                                                                         *)
(* Every Write goes to the caller's io.Writer, which takes some of the     *)
(* bytes and may report an error, also one that comes after the last byte  *)
(* (an io.Writer that takes fewer bytes reports one).  A field's Encode    *)
(* writes in one or several steps as many bytes as its SizeOf says         *)
(* (SizeMatches of module Codec), or stops at an error.                    *)
(***************************************************************************)
EXTENDS ContainerType

CONSTANTS
  MaxWord,    \* the largest uint32
  MaxSize,    \* bound on the size of a variable-size field
  MaxStart    \* bound on what was written before the container

ASSUME MaxWordAssumption  == MaxWord \in Nat
ASSUME MaxSizeAssumption  == MaxSize \in Nat
ASSUME MaxStartAssumption == MaxStart \in Nat

VARIABLES
  size,         \* SizeOf, by field
  before,       \* ew.n at the call
  wrote,        \* ew.n
  taken,        \* the bytes the io.Writer has taken (external)
  done,         \* the fields that have been handled in this pass
  prevOffset,   \* the last offset
  prevSize,     \* the size of the field it belongs to
  written,      \* the offsets written (history)
  placed,       \* where each variable-size field was begun to be written (history)
  pass,         \* "first" or "second"
  result        \* "running", "error", "panic" or "done"

encVars == <<type, size, before, wrote, taken, done, prevOffset, prevSize, written, placed, pass, result>>

HasPart == done < Len(type.fields)
part    == type.fields[done + 1]

EncInit ==
  /\ type \in Containers
  /\ size \in [1..Len(type.fields) -> 0..MaxSize]
  /\ \A k \in 1..Len(type.fields) :
       type.fields[k].isFixed => size[k] = type.fields[k].fixedLen
  /\ before \in 0..MaxStart
  /\ wrote = before
  /\ taken = before
  /\ done = 0
  /\ prevOffset = FixedLen(type)
  /\ prevSize = 0
  /\ written = <<>>
  /\ placed = <<>>
  /\ pass = "first"
  /\ result = "running"

(***************************************************************************)
(* Mutated forms of the operators below.                                   *)
(***************************************************************************)
CountedIfWhole(len, bytes) == IF bytes = len THEN bytes ELSE 0
NoSpan(prev, span)         == prev

(***************************************************************************)
(* Write: the number of bytes taken is added also when there is an error.  *)
(***************************************************************************)
Counted(len, bytes) == bytes

Write(len, bytes, failed) ==
  /\ bytes \in 0..len
  /\ failed \in BOOLEAN
  /\ bytes < len => failed
  /\ taken' = taken + bytes
  /\ wrote' = wrote + Counted(len, bytes)
  /\ result' = IF failed THEN "error" ELSE "running"
  /\ done' = IF failed THEN done ELSE done + 1

(***************************************************************************)
(* The first pass.  WriteOffset panics rather than write an offset that    *)
(* has wrapped around.                                                     *)
(***************************************************************************)
EncodeFixed(bytes, failed) ==
  /\ result = "running"
  /\ pass = "first"
  /\ HasPart
  /\ part.isFixed
  /\ Write(part.fixedLen, bytes, failed)
  /\ UNCHANGED <<type, size, before, prevOffset, prevSize, written, placed, pass>>

NextOffset(prev, span) == prev + span
FitsWord(offset)       == offset <= MaxWord

Panics == ~FitsWord(prevOffset) \/ ~FitsWord(prevSize) \/ ~FitsWord(NextOffset(prevOffset, prevSize))

WriteOffset(bytes, failed) ==
  /\ result = "running"
  /\ pass = "first"
  /\ HasPart
  /\ ~part.isFixed
  /\ \/ /\ Panics
        /\ result' = "panic"
        /\ UNCHANGED <<wrote, taken, done, prevOffset, prevSize, written>>
     \/ /\ ~Panics
        /\ Write(W, bytes, failed)
        /\ prevOffset' = NextOffset(prevOffset, prevSize)
        /\ prevSize' = size[done + 1]
        /\ written' = Append(written, NextOffset(prevOffset, prevSize) % (MaxWord + 1))
  /\ UNCHANGED <<type, size, before, placed, pass>>

EndOfFirstPass ==
  /\ result = "running"
  /\ pass = "first"
  /\ ~HasPart
  /\ pass' = "second"
  /\ done' = 0
  /\ UNCHANGED <<type, size, before, wrote, taken, prevOffset, prevSize, written, placed, result>>

(***************************************************************************)
(* The second pass.                                                        *)
(***************************************************************************)
SkipFixed ==
  /\ result = "running"
  /\ pass = "second"
  /\ HasPart
  /\ part.isFixed
  /\ done' = done + 1
  /\ UNCHANGED <<type, size, before, wrote, taken, prevOffset, prevSize, written, placed, pass, result>>

EncodeDynamic(bytes, failed) ==
  /\ result = "running"
  /\ pass = "second"
  /\ HasPart
  /\ ~part.isFixed
  /\ placed' = Append(placed, wrote)
  /\ Write(size[done + 1], bytes, failed)
  /\ UNCHANGED <<type, size, before, prevOffset, prevSize, written, pass>>

EncodeDone ==
  /\ result = "running"
  /\ pass = "second"
  /\ ~HasPart
  /\ result' = "done"
  /\ UNCHANGED <<type, size, before, wrote, taken, done, prevOffset, prevSize, written, placed, pass>>

Longest == IF HasPart /\ size[done + 1] > W THEN size[done + 1] ELSE W

EncNext ==
  \/ \E bytes \in 0..Longest, failed \in BOOLEAN :
       EncodeFixed(bytes, failed) \/ WriteOffset(bytes, failed) \/ EncodeDynamic(bytes, failed)
  \/ EndOfFirstPass
  \/ SkipFixed
  \/ EncodeDone

EncSpec == EncInit /\ [][EncNext]_encVars

(***************************************************************************)
(* Properties.                                                             *)
(***************************************************************************)
EncTypeOK ==
  /\ type \in Containers
  /\ size \in [1..Len(type.fields) -> Nat]
  /\ before \in 0..MaxStart
  /\ wrote \in Nat
  /\ taken \in Nat
  /\ done \in 0..Len(type.fields)
  /\ prevOffset \in Nat
  /\ prevSize \in Nat
  /\ written \in Seq(0..MaxWord)
  /\ placed \in Seq(Nat)
  /\ pass \in {"first", "second"}
  /\ result \in {"running", "error", "panic", "done"}

\* Every variable-size field is written exactly where the offset says that was written
\* for it in the first pass, counted from the start of the container; every field has
\* its offset, and none has wrapped around.
OffsetsPointAtFields ==
  /\ Len(placed) <= Len(written)
  /\ \A k \in 1..Len(placed) : placed[k] = before + written[k]
  /\ result = "done" => Len(written) = OffsetCount(type) /\ Len(placed) = Len(written)

\* Written() tells which bytes the writer has taken, also after an error in the middle
\* of a field: it lies between that field's offset and its end.
WrittenTells ==
  /\ wrote = taken
  /\ result = "error" /\ pass = "second" =>
       wrote \in (before + written[Len(placed)])..(before + written[Len(placed)] + size[done + 1])
==============================================================================
