---------------------------- MODULE ContainerCodec ----------------------------
(***************************************************************************)
(* A container's encoder and its decoder: the decoder reads any bytes, or  *)
(* those that the encoder has written.                                     *)
(***************************************************************************)
EXTENDS OffsetEncoding, Container

VARIABLE phase   \* "encode", "decode" (of any bytes) or "read back"

decVars   == <<max, start, i, fi, fixedI, offsets, next, leftOver, begins, ends, pc, status>>
codecVars == <<encVars, decVars, phase>>

NothingEncoded ==
  /\ size = [k \in 1..Len(type.fields) |-> 0]
  /\ before = 0
  /\ wrote = 0
  /\ taken = 0
  /\ done = 0
  /\ prevOffset = 0
  /\ prevSize = 0
  /\ written = <<>>
  /\ placed = <<>>
  /\ pass = "first"
  /\ result = "running"

CodecInit ==
  \/ /\ phase = "decode"
     /\ Init
     /\ NothingEncoded
  \/ /\ phase = "encode"
     /\ EncInit
     /\ Ready(0, 0)
     /\ pc = "fixed"

Encode == phase = "encode" /\ EncNext /\ UNCHANGED <<decVars, phase>>

Decode == phase = "decode" /\ Next /\ UNCHANGED <<encVars, phase>>

\* The reader of the encoded bytes has a scope of exactly their number.
HandOver ==
  /\ phase = "encode"
  /\ result = "done"
  /\ phase' = "read back"
  /\ max' = wrote - before
  /\ UNCHANGED <<encVars, start, i, fi, fixedI, offsets, next, leftOver, begins, ends, pc, status>>

\* Each field's handler reads what the field's encoder has written, as far as its scope
\* holds that.
WrittenPart == IF size[fi + 1] <= FieldScope THEN size[fi + 1] ELSE FieldScope

ReadBack ==
  /\ phase = "read back"
  /\ \/ HasField /\ FixedField(size[fi + 1])
     \/ HasField /\ ~Ignored /\ Running("dynamic") /\ DynamicField(WrittenPart)
     \/ Len(offsets) < Len(written) /\ OffsetField(written[Len(offsets) + 1])
     \/ EndOfFixedPart
     \/ IgnoreField
     \/ Finish
  /\ UNCHANGED <<encVars, phase>>

Ended ==
  /\ \/ phase = "encode" /\ result \in {"error", "panic"}
     \/ phase = "read back" /\ status # "running"
  /\ UNCHANGED codecVars

CodecNext == Encode \/ HandOver \/ ReadBack \/ Decode \/ Ended

CodecSpec == CodecInit /\ [][CodecNext]_codecVars

(***************************************************************************)
(* Properties.                                                             *)
(***************************************************************************)
CodecTypeOK == TypeOK /\ EncTypeOK /\ phase \in {"encode", "decode", "read back"}

EndOfPart(k) == IF k < Len(placed) THEN placed[k + 1] ELSE wrote

\* What was encoded without an error or a panic is never refused, and every field is decoded
\* from the bytes that were written for it, all of them.
EncodedIsReadBack ==
  phase = "read back" =>
    /\ status # "failed"
    /\ \A k \in 1..Len(begins) :
         begins[k] = placed[k] - before /\ ends[k] = EndOfPart(k) - before
    /\ status = "accepted" => i = max /\ Len(begins) = Len(placed)
===============================================================================
