------------------------ MODULE ContainerCodec_proofs ------------------------
(***************************************************************************)
(* What a container's encoder has written is read back by its decoder, for *)
(* every container, all sizes of its fields and every writer.              *)
(*                                                                         *)
(* The invariants of the decoder and of the encoder hold in every phase.   *)
(* Two things come on top: how far the encoder's output goes, by which     *)
(* every offset is within it; and that the decoder finds every field where *)
(* the encoder has put it, its scope being of the size that was written.   *)
(***************************************************************************)
EXTENDS ContainerCodec, Container_proofs

(***************************************************************************)
(* The encoder's two passes, for every container, all sizes of its         *)
(* variable-size fields, every width of an offset and every writer.        *)
(*                                                                         *)
(* The offsets are summed up before anything they point at is written.     *)
(* The inductive invariant carries, from the first pass into the second,   *)
(* that the offset behind a field's is that field's size further on.       *)
(***************************************************************************)
LastField == Len(type.fields)

Fixed(j) == type.fields[j].isFixed
At(j)    == type.offsetCount[j]    \* the position of field j's offset, if it has one

\* Of the first n fields: each has its offset among those written, and either the next
\* offset is that of the field's end, or it is the last.
Spans(n) ==
  \A j \in 1..n : ~Fixed(j) =>
    /\ At(j) \in 1..Len(written)
    /\ At(j) < Len(written) => written[At(j) + 1] = written[At(j)] + size[j]
    /\ At(j) = Len(written) => prevSize = size[j]

StartsAtFixedLen == written # <<>> => written[1] = FixedLen(type)

InFirstPass ==
  pass = "first" =>
    /\ placed = <<>>
    /\ result \in {"running", "error", "panic"}
    /\ result = "running" =>
         /\ wrote = before + type.fixedLen[done]
         /\ Len(written) = At(done)
         /\ Spans(done)
         /\ StartsAtFixedLen
         /\ written = <<>> => prevOffset = FixedLen(type) /\ prevSize = 0
         /\ written # <<>> => prevOffset = written[Len(written)]

InSecondPass ==
  pass = "second" =>
    /\ result \in {"running", "error", "done"}
    /\ Len(written) = OffsetCount(type)
    /\ Spans(LastField)
    /\ result = "running" =>
         /\ Len(placed) = At(done)
         /\ Len(placed) < Len(written) => wrote = before + written[Len(placed) + 1]

EncInv ==
  /\ EncTypeOK
  /\ OffsetsPointAtFields
  /\ WrittenTells
  /\ InFirstPass
  /\ InSecondPass

LEMMA LensOfParts ==
  ASSUME type \in Containers
  PROVE  /\ type.fields \in Seq(Field)
         /\ LastField \in Nat
         /\ type.fixedLen \in [0..LastField -> Nat]
         /\ type.fixedLen[0] = 0
         /\ \A k \in 1..LastField : type.fixedLen[k] = type.fixedLen[k - 1] + HeadLen(type.fields[k])
         /\ type.offsetCount \in [0..LastField -> Nat]
         /\ type.offsetCount[0] = 0
         /\ \A k \in 1..LastField : type.offsetCount[k] = type.offsetCount[k - 1] + OffsetsOf(type.fields[k])
BY ContainersAssumption DEF LensAddUp, AreSums, AreRests, LastField

LEMMA NextPart ==
  ASSUME EncTypeOK, HasPart
  PROVE  /\ type \in Containers
         /\ LastField \in Nat
         /\ done \in Nat
         /\ done + 1 \in 1..LastField
         /\ part \in Field
         /\ Fixed(done + 1) = part.isFixed
         /\ size[done + 1] \in Nat
         /\ type.fixedLen[done] \in Nat
         /\ type.fixedLen[done + 1] = type.fixedLen[done] + HeadLen(part)
         /\ At(done) \in Nat
         /\ At(done + 1) = At(done) + OffsetsOf(part)
<1>1. type \in Containers /\ done \in 0..LastField /\ done < LastField /\ size \in [1..LastField -> Nat]
  BY DEF EncTypeOK, HasPart, LastField
<1>2. done + 1 \in 1..LastField /\ done + 1 \in 0..LastField /\ (done + 1) - 1 = done /\ LastField \in Nat /\ done \in Nat
  BY <1>1, LensOfParts
<1>3. part \in Field
  BY <1>1, <1>2, LensOfParts DEF part, LastField
<1> QED
  BY <1>1, <1>2, <1>3, LensOfParts DEF part, At, Fixed

\* An offset that fits is not changed by its conversion to a uint32.
LEMMA NoWrap ==
  ASSUME NEW o \in Nat, o <= MaxWord
  PROVE  o % (MaxWord + 1) = o
BY MaxWordAssumption

LEMMA InitEncInv == EncInit => EncInv
<1> SUFFICES ASSUME EncInit PROVE EncInv
  OBVIOUS
<1>1. /\ type \in Containers /\ before \in Nat /\ LastField \in Nat
      /\ type.fixedLen[0] = 0 /\ type.offsetCount[0] = 0 /\ FixedLen(type) \in Nat
  <2>1. type \in Containers /\ before \in Nat
    BY MaxStartAssumption DEF EncInit
  <2> QED
    BY <2>1, LensOfParts DEF FixedLen, LastField
<1>2. EncTypeOK
  BY <1>1, MaxSizeAssumption DEF EncInit, EncTypeOK, LastField
<1>3. InFirstPass
  BY <1>1 DEF EncInit, InFirstPass, Spans, StartsAtFixedLen, At
<1> QED
  BY <1>2, <1>3 DEF EncInit, EncInv, OffsetsPointAtFields, WrittenTells, InSecondPass

LEMMA EncodeFixedEncInv ==
  ASSUME EncInv, NEW bytes, NEW failed, EncodeFixed(bytes, failed)
  PROVE  EncInv'
<1>1. EncTypeOK /\ HasPart /\ part.isFixed /\ pass = "first" /\ result = "running" /\ placed = <<>>
  BY DEF EncInv, EncodeFixed, InFirstPass
<1>2. /\ bytes \in 0..part.fixedLen /\ failed \in BOOLEAN /\ (bytes < part.fixedLen => failed)
      /\ taken' = taken + bytes /\ wrote' = wrote + bytes
      /\ result' = (IF failed THEN "error" ELSE "running")
      /\ done' = (IF failed THEN done ELSE done + 1)
      /\ UNCHANGED <<type, size, before, prevOffset, prevSize, written, placed, pass>>
  BY DEF EncodeFixed, Write, Counted
<1>3. part.fixedLen \in Nat /\ HeadLen(part) = part.fixedLen /\ OffsetsOf(part) = 0
  BY <1>1, NextPart DEF Field, HeadLen, OffsetsOf
<1>4. EncTypeOK'
  <2>1. wrote' \in Nat /\ taken' \in Nat
    BY <1>1, <1>2, <1>3 DEF EncTypeOK
  <2>2. done' \in 0..LastField /\ result' \in {"running", "error"}
    <3>1. done \in Nat /\ done + 1 \in 1..LastField /\ LastField \in Nat
      BY <1>1, NextPart
    <3> QED
      BY <1>2, <3>1
  <2> QED
    BY <1>1, <1>2, <2>1, <2>2 DEF EncTypeOK, LastField
<1>5. OffsetsPointAtFields' /\ WrittenTells'
  BY <1>1, <1>2 DEF EncInv, OffsetsPointAtFields, WrittenTells
<1>6. InFirstPass'
  <2>1. CASE failed
    BY <1>1, <1>2, <2>1 DEF InFirstPass
  <2>2. CASE ~failed
    <3>1. /\ wrote = before + type.fixedLen[done] /\ Len(written) = At(done) /\ Spans(done) /\ StartsAtFixedLen
          /\ written = <<>> => prevOffset = FixedLen(type) /\ prevSize = 0
          /\ written # <<>> => prevOffset = written[Len(written)]
      BY <1>1 DEF EncInv, InFirstPass
    <3>2. bytes = part.fixedLen /\ done' = done + 1 /\ result' = "running"
      BY <1>2, <1>3, <2>2
    <3>3. wrote' = before + type.fixedLen[done + 1]
      <4>1. before \in Nat /\ type.fixedLen[done] \in Nat
        <5>1. before \in Nat
          BY <1>1, MaxStartAssumption DEF EncTypeOK
        <5> QED
          BY <1>1, <5>1, NextPart
      <4>2. type.fixedLen[done + 1] = type.fixedLen[done] + part.fixedLen
        BY <1>1, <1>3, NextPart
      <4> QED
        <5>1. wrote' = before + type.fixedLen[done] + part.fixedLen
          BY <1>2, <3>1, <3>2
        <5> QED
          BY <1>3, <4>1, <4>2, <5>1
    <3>4. Len(written) = At(done + 1)
      BY <1>1, <1>3, <3>1, NextPart
    <3>5. Spans(done + 1)
      <4> SUFFICES ASSUME NEW j \in 1..(done + 1), ~Fixed(j) PROVE j \in 1..done
        BY <3>1 DEF Spans
      <4>1. Fixed(done + 1) /\ done \in Nat
        BY <1>1, NextPart
      <4> QED
        BY <4>1
    <3> QED
      BY <1>1, <1>2, <3>1, <3>2, <3>3, <3>4, <3>5 DEF InFirstPass, Spans, StartsAtFixedLen, Fixed, At
  <2> QED
    BY <1>2, <2>1, <2>2
<1> QED
  BY <1>1, <1>2, <1>4, <1>5, <1>6 DEF EncInv, InSecondPass

LEMMA WriteOffsetEncInv ==
  ASSUME EncInv, NEW bytes, NEW failed, WriteOffset(bytes, failed)
  PROVE  EncInv'
<1>1. EncTypeOK /\ HasPart /\ ~part.isFixed /\ pass = "first" /\ result = "running" /\ placed = <<>>
  BY DEF EncInv, WriteOffset, InFirstPass
<1>2. UNCHANGED <<type, size, before, placed, pass>>
  BY DEF WriteOffset
<1>3. CASE Panics /\ result' = "panic" /\ UNCHANGED <<wrote, taken, done, prevOffset, prevSize, written>>
  BY <1>1, <1>2, <1>3 DEF EncInv, EncTypeOK, OffsetsPointAtFields, WrittenTells, InFirstPass, InSecondPass
<1>4. CASE ~(Panics /\ result' = "panic" /\ UNCHANGED <<wrote, taken, done, prevOffset, prevSize, written>>)
  <2> DEFINE o == prevOffset + prevSize
  <2>1. /\ bytes \in 0..W /\ failed \in BOOLEAN /\ (bytes < W => failed)
        /\ taken' = taken + bytes /\ wrote' = wrote + bytes
        /\ result' = (IF failed THEN "error" ELSE "running")
        /\ done' = (IF failed THEN done ELSE done + 1)
        /\ prevOffset' = o /\ prevSize' = size[done + 1] /\ o <= MaxWord
        /\ written' = Append(written, o % (MaxWord + 1))
    BY <1>4 DEF WriteOffset, Write, Counted, NextOffset, Panics, FitsWord
  <2>2. /\ o \in 0..MaxWord /\ o % (MaxWord + 1) = o /\ written \in Seq(0..MaxWord)
        /\ wrote \in Nat /\ taken \in Nat /\ before \in Nat /\ W \in Nat
    BY <1>1, <2>1, NoWrap, WAssumption, MaxWordAssumption, MaxStartAssumption, SMTT(20) DEF EncTypeOK
  <2>3. /\ written' = Append(written, o) /\ written' \in Seq(0..MaxWord)
        /\ Len(written') = Len(written) + 1 /\ Len(written) \in Nat
        /\ written'[Len(written) + 1] = o
        /\ \A k \in 1..Len(written) : written'[k] = written[k]
        /\ written' # <<>>
    BY <2>1, <2>2
  <2>4. EncTypeOK'
    <3>1. wrote' \in Nat /\ taken' \in Nat /\ prevOffset' \in Nat
      BY <2>1, <2>2, MaxWordAssumption
    <3>2. done' \in 0..LastField /\ result' \in {"running", "error"} /\ prevSize' \in Nat
      BY <1>1, <2>1, NextPart DEF EncTypeOK, LastField
    <3> QED
      BY <1>1, <1>2, <2>3, <3>1, <3>2 DEF EncTypeOK, LastField
  <2>5. OffsetsPointAtFields' /\ WrittenTells'
    BY <1>1, <1>2, <2>1, <2>3 DEF EncInv, OffsetsPointAtFields, WrittenTells
  <2>6. InFirstPass'
    <3>1. CASE failed
      BY <1>1, <1>2, <2>1, <3>1 DEF InFirstPass
    <3>2. CASE ~failed
      <4>1. /\ wrote = before + type.fixedLen[done] /\ Len(written) = At(done) /\ Spans(done) /\ StartsAtFixedLen
            /\ written = <<>> => prevOffset = FixedLen(type) /\ prevSize = 0
            /\ written # <<>> => prevOffset = written[Len(written)]
        BY <1>1 DEF EncInv, InFirstPass
      <4>2. bytes = W /\ done' = done + 1 /\ result' = "running"
        BY <2>1, <2>2, <3>2
      <4>3. HeadLen(part) = W /\ OffsetsOf(part) = 1
        BY <1>1 DEF HeadLen, OffsetsOf
      <4>4. wrote' = before + type.fixedLen[done + 1]
        <5>1. wrote' = before + type.fixedLen[done] + W /\ type.fixedLen[done + 1] = type.fixedLen[done] + W
          BY <1>1, <2>1, <4>1, <4>2, <4>3, NextPart
        <5>2. type.fixedLen[done] \in Nat
          BY <1>1, NextPart
        <5> QED
          BY <2>2, <5>1, <5>2
      <4>5. Len(written') = At(done + 1)
        BY <1>1, <2>3, <4>1, <4>3, NextPart
      <4>6. written'[1] = FixedLen(type)
        <5>1. CASE written = <<>>
          <6>1. FixedLen(type) \in Nat
            <7>1. type.fixedLen[LastField] \in Nat
              BY <1>1, NextPart, LensOfParts
            <7> QED
              BY <7>1 DEF FixedLen, LastField
          <6>2. o = FixedLen(type)
            BY <4>1, <5>1, <6>1
          <6>3. Len(written) = 0
            BY <5>1
          <6> QED
            BY <2>3, <6>2, <6>3
        <5>2. CASE written # <<>>
          <6>1. 1 \in 1..Len(written)
            BY <2>2, <5>2
          <6> QED
            BY <2>3, <4>1, <5>2, <6>1 DEF StartsAtFixedLen
        <5> QED
          BY <5>1, <5>2
      <4>7. ASSUME NEW j \in 1..(done + 1), ~Fixed(j)
            PROVE  /\ At(j) \in 1..Len(written')
                   /\ At(j) < Len(written') => written'[At(j) + 1] = written'[At(j)] + size[j]
                   /\ At(j) = Len(written') => prevSize' = size[j]
        <5>1. CASE j = done + 1
          BY <2>1, <2>3, <4>5, <5>1
        <5>2. CASE j # done + 1
          <6>1. j \in 1..done
            BY <1>1, <5>2, NextPart
          <6>2. /\ At(j) \in 1..Len(written)
                /\ At(j) < Len(written) => written[At(j) + 1] = written[At(j)] + size[j]
                /\ At(j) = Len(written) => prevSize = size[j]
            BY <4>1, <4>7, <6>1 DEF Spans
          <6>3. CASE At(j) = Len(written)
            <7>1. written # <<>> /\ prevOffset = written[At(j)] /\ prevSize = size[j]
              BY <2>3, <4>1, <6>2, <6>3
            <7> QED
              BY <2>3, <6>2, <6>3, <7>1
          <6>4. CASE At(j) # Len(written)
            <7>1. At(j) < Len(written) /\ At(j) + 1 \in 1..Len(written)
              BY <2>3, <6>2, <6>4
            <7> QED
              BY <2>3, <6>2, <7>1
          <6> QED
            BY <6>3, <6>4
        <5> QED
          BY <5>1, <5>2
      <4>8. prevOffset' = written'[Len(written')]
        BY <2>1, <2>3
      <4> HIDE DEF o
      <4> QED
        BY <1>1, <1>2, <2>3, <4>2, <4>4, <4>5, <4>6, <4>7, <4>8
        DEF InFirstPass, Spans, StartsAtFixedLen, Fixed, At, FixedLen
    <3> QED
      BY <2>1, <3>1, <3>2
  <2> QED
    BY <1>1, <1>2, <2>4, <2>5, <2>6 DEF EncInv, InSecondPass
<1> QED
  BY <1>3, <1>4

LEMMA EndOfFirstPassEncInv ==
  ASSUME EncInv, EndOfFirstPass
  PROVE  EncInv'
<1>1. /\ EncTypeOK /\ pass = "first" /\ result = "running" /\ placed = <<>> /\ pass' = "second" /\ done' = 0
      /\ UNCHANGED <<type, size, before, wrote, taken, prevOffset, prevSize, written, placed, result>>
  BY DEF EncInv, EndOfFirstPass, InFirstPass
<1>2. type \in Containers /\ LastField \in Nat /\ done = LastField
  BY <1>1, LensOfParts DEF EncTypeOK, EndOfFirstPass, HasPart, LastField
<1>3. /\ wrote = before + FixedLen(type) /\ Len(written) = OffsetCount(type) /\ Spans(LastField) /\ StartsAtFixedLen
  BY <1>1, <1>2 DEF EncInv, InFirstPass, FixedLen, OffsetCount, At, LastField
<1>4. EncTypeOK'
  BY <1>1, <1>2 DEF EncTypeOK, LastField
<1>5. OffsetsPointAtFields' /\ WrittenTells'
  BY <1>1 DEF EncInv, OffsetsPointAtFields, WrittenTells
<1>6. InSecondPass'
  <2>1. At(0) = 0
    BY <1>2, LensOfParts DEF At
  <2>2. Len(placed) = 0
    BY <1>1
  <2>3. Len(placed) < Len(written) => wrote = before + written[Len(placed) + 1]
    BY <1>1, <1>3, <2>2 DEF StartsAtFixedLen, EncTypeOK
  <2> QED
    BY <1>1, <1>3, <2>1, <2>2, <2>3 DEF InSecondPass, OffsetCount, Spans, Fixed, At, LastField
<1> QED
  BY <1>1, <1>4, <1>5, <1>6 DEF EncInv, InFirstPass

LEMMA SkipFixedEncInv ==
  ASSUME EncInv, SkipFixed
  PROVE  EncInv'
<1>1. /\ EncTypeOK /\ HasPart /\ part.isFixed /\ pass = "second" /\ result = "running" /\ done' = done + 1
      /\ UNCHANGED <<type, size, before, wrote, taken, prevOffset, prevSize, written, placed, pass, result>>
  BY DEF EncInv, SkipFixed
<1>2. At(done + 1) = At(done)
  BY <1>1, NextPart DEF OffsetsOf
<1>3. EncTypeOK'
  <2>1. done' \in 0..LastField
    BY <1>1, NextPart
  <2> QED
    BY <1>1, <2>1 DEF EncTypeOK, LastField
<1>4. OffsetsPointAtFields' /\ WrittenTells'
  BY <1>1 DEF EncInv, OffsetsPointAtFields, WrittenTells
<1>5. InSecondPass'
  BY <1>1, <1>2 DEF EncInv, InSecondPass, OffsetCount, Spans, Fixed, At, LastField
<1> QED
  BY <1>1, <1>3, <1>4, <1>5 DEF EncInv, InFirstPass

LEMMA EncodeDynamicEncInv ==
  ASSUME EncInv, NEW bytes, NEW failed, EncodeDynamic(bytes, failed)
  PROVE  EncInv'
<1> DEFINE p == Len(placed) + 1
<1>1. EncTypeOK /\ HasPart /\ ~part.isFixed /\ pass = "second" /\ result = "running"
  BY DEF EncInv, EncodeDynamic
<1>2. /\ bytes \in 0..size[done + 1] /\ failed \in BOOLEAN /\ (bytes < size[done + 1] => failed)
      /\ taken' = taken + bytes /\ wrote' = wrote + bytes
      /\ result' = (IF failed THEN "error" ELSE "running")
      /\ done' = (IF failed THEN done ELSE done + 1)
      /\ placed' = Append(placed, wrote)
      /\ UNCHANGED <<type, size, before, prevOffset, prevSize, written, pass>>
  BY DEF EncodeDynamic, Write, Counted
<1>3. /\ Len(written) = OffsetCount(type) /\ Spans(LastField) /\ Len(placed) = At(done)
      /\ Len(placed) < Len(written) => wrote = before + written[Len(placed) + 1]
      /\ wrote = taken
      /\ \A k \in 1..Len(placed) : placed[k] = before + written[k]
  BY <1>1 DEF EncInv, InSecondPass, OffsetsPointAtFields, WrittenTells
<1>4. /\ wrote \in Nat /\ before \in Nat /\ placed \in Seq(Nat) /\ written \in Seq(0..MaxWord)
      /\ Len(placed) \in Nat /\ Len(written) \in Nat /\ size[done + 1] \in Nat
  BY <1>1, NextPart, MaxStartAssumption DEF EncTypeOK
<1>5. /\ placed' \in Seq(Nat) /\ Len(placed') = p /\ placed'[p] = wrote
      /\ \A k \in 1..Len(placed) : placed'[k] = placed[k]
  BY <1>2, <1>4
<1>6. At(done + 1) = p /\ done + 1 \in 1..LastField /\ ~Fixed(done + 1)
  BY <1>1, <1>3, NextPart DEF OffsetsOf
<1>7. /\ p \in 1..Len(written)
      /\ p < Len(written) => written[p + 1] = written[p] + size[done + 1]
  BY <1>3, <1>6 DEF Spans
<1>8. wrote = before + written[p] /\ written[p] \in Nat
  BY <1>3, <1>4, <1>7, MaxWordAssumption
<1>9. EncTypeOK'
  <2>1. wrote' \in Nat /\ taken' \in Nat
    BY <1>2, <1>3, <1>4
  <2>2. done' \in 0..LastField /\ result' \in {"running", "error"}
    BY <1>1, <1>2, NextPart, SMTT(20) DEF EncTypeOK, LastField
  <2> QED
    BY <1>1, <1>2, <1>5, <2>1, <2>2 DEF EncTypeOK, LastField
<1>10. \A k \in 1..p : placed'[k] = before + written[k]
  <2> TAKE k \in 1..p
  <2>1. CASE k = p
    BY <1>5, <1>8, <2>1
  <2>2. CASE k # p
    <3>1. k \in 1..Len(placed)
      BY <1>4, <2>2
    <3> QED
      BY <1>3, <1>5, <3>1
  <2> QED
    BY <2>1, <2>2
<1>11. OffsetsPointAtFields'
  BY <1>2, <1>4, <1>5, <1>7, <1>10 DEF OffsetsPointAtFields
<1>12. WrittenTells'
  <2>1. wrote' = taken'
    BY <1>2, <1>3
  <2>2. wrote' \in (before + written[p])..(before + written[p] + size[done + 1])
    <3>1. wrote' = before + written[p] + bytes
      BY <1>2, <1>4, <1>8
    <3>2. bytes \in Nat /\ bytes <= size[done + 1]
      BY <1>2, <1>4
    <3> DEFINE lo == before + written[p]
               len == size[done + 1]
    <3>3. lo \in Nat /\ len \in Nat /\ wrote' = lo + bytes
      BY <1>4, <1>8, <3>1
    <3> HIDE DEF lo, len
    <3>4. wrote' \in lo..(lo + len)
      BY <3>2, <3>3 DEF len
    <3> QED
      BY <3>4 DEF lo, len
  <2> QED
    BY <1>2, <1>5, <2>1, <2>2 DEF WrittenTells
<1>13. InSecondPass'
  <2>1. CASE failed
    BY <1>2, <1>3, <2>1 DEF InSecondPass, OffsetCount, Spans, Fixed, At, LastField
  <2>2. CASE ~failed
    <3>1. bytes = size[done + 1] /\ done' = done + 1 /\ result' = "running"
      BY <1>2, <1>4, <2>2
    <3>2. p < Len(written) => wrote' = before + written[p + 1]
      BY <1>2, <1>4, <1>7, <1>8, <3>1, SMTT(20)
    <3>3. Len(placed') = At(done + 1)
      BY <1>5, <1>6
    <3> QED
      BY <1>2, <1>3, <1>5, <3>1, <3>2, <3>3 DEF InSecondPass, OffsetCount, Spans, Fixed, At, LastField
  <2> QED
    BY <1>2, <2>1, <2>2
<1> QED
  BY <1>1, <1>2, <1>9, <1>11, <1>12, <1>13 DEF EncInv, InFirstPass

LEMMA EncodeDoneEncInv ==
  ASSUME EncInv, EncodeDone
  PROVE  EncInv'
<1>1. /\ EncTypeOK /\ pass = "second" /\ result = "running" /\ result' = "done"
      /\ UNCHANGED <<type, size, before, wrote, taken, done, prevOffset, prevSize, written, placed, pass>>
  BY DEF EncInv, EncodeDone
<1>2. type \in Containers /\ LastField \in Nat /\ done = LastField
  BY <1>1, LensOfParts DEF EncTypeOK, EncodeDone, HasPart, LastField
<1>3. Len(written) = OffsetCount(type) /\ Len(placed) = OffsetCount(type)
  BY <1>1, <1>2 DEF EncInv, InSecondPass, OffsetCount, At, LastField
<1>4. EncTypeOK'
  BY <1>1 DEF EncTypeOK
<1>5. OffsetsPointAtFields' /\ WrittenTells'
  BY <1>1, <1>3 DEF EncInv, OffsetsPointAtFields, WrittenTells, OffsetCount
<1>6. InSecondPass'
  BY <1>1 DEF EncInv, InSecondPass, OffsetCount, Spans, Fixed, At, LastField
<1> QED
  BY <1>1, <1>4, <1>5, <1>6 DEF EncInv, InFirstPass

LEMMA StepEncInv == EncInv /\ [EncNext]_encVars => EncInv'
<1> SUFFICES ASSUME EncInv, [EncNext]_encVars PROVE EncInv'
  OBVIOUS
<1>1. CASE \E bytes \in 0..Longest, failed \in BOOLEAN :
             EncodeFixed(bytes, failed) \/ WriteOffset(bytes, failed) \/ EncodeDynamic(bytes, failed)
  BY <1>1, EncodeFixedEncInv, WriteOffsetEncInv, EncodeDynamicEncInv
<1>2. CASE EndOfFirstPass
  BY <1>2, EndOfFirstPassEncInv
<1>3. CASE SkipFixed
  BY <1>3, SkipFixedEncInv
<1>4. CASE EncodeDone
  BY <1>4, EncodeDoneEncInv
<1>5. CASE UNCHANGED encVars
  BY <1>5 DEF encVars, EncInv, EncTypeOK, OffsetsPointAtFields, WrittenTells, InFirstPass, InSecondPass,
              Spans, StartsAtFixedLen, FixedLen, OffsetCount, Fixed, At, LastField
<1> QED
  BY <1>1, <1>2, <1>3, <1>4, <1>5 DEF EncNext

\* The offsets of the first pass are where the second pass writes the fields, for every
\* container and all sizes of its fields.
THEOREM OffsetsTrue == EncSpec => []OffsetsPointAtFields
<1>1. EncInv => OffsetsPointAtFields
  BY DEF EncInv
<1> QED
  BY InitEncInv, StepEncInv, <1>1, PTL DEF EncSpec

\* Written() counts what the writer has taken, whatever writer stops where.
THEOREM WrittenTrue == EncSpec => []WrittenTells
<1>1. EncInv => WrittenTells
  BY DEF EncInv
<1> QED
  BY InitEncInv, StepEncInv, <1>1, PTL DEF EncSpec

(***************************************************************************)
(* The encoder and the decoder, one after the other.                       *)
(***************************************************************************)
\* The partial sums of the lengths in the fixed part grow up to the n-th.
LensGrow(n) == \A k \in 0..n : type.fixedLen[k] <= type.fixedLen[n]

SizesFixed == \A k \in 1..LastField : Fixed(k) => size[k] = type.fields[k].fixedLen

\* The bytes a container has by its offsets.
Total == IF written = <<>> THEN FixedLen(type) ELSE written[Len(written)] + prevSize

Extent ==
  /\ SizesFixed
  /\ pass = "first" /\ result = "running" => LensGrow(done)
  /\ pass = "second" /\ result \in {"running", "done"} =>
       /\ LensGrow(LastField)
       /\ StartsAtFixedLen
       /\ \A k \in 1..Len(placed) : placed[k] <= wrote
       /\ Len(placed) = Len(written) => wrote = before + Total

Untouched ==
  /\ start = 0 /\ i = 0 /\ fi = 0 /\ fixedI = 0 /\ next = 1
  /\ offsets = <<>> /\ begins = <<>> /\ ends = <<>>
  /\ pc = "fixed" /\ status = "running"

\* Where the k-th variable-size field begins, and the one before it ends.
Place(k) == IF k <= Len(written) THEN written[k] ELSE max

Following ==
  /\ start = 0
  /\ max = wrote - before
  /\ status \in {"running", "accepted"}
  /\ pc \in {"fixed", "dynamic"}
  /\ \A k \in 1..Len(offsets) : offsets[k] = written[k]
  /\ pc = "dynamic" => i = Place(next)
  /\ Len(ends) <= Len(written)
  /\ \A k \in 1..Len(ends) : begins[k] = Place(k) /\ ends[k] = Place(k + 1)

CodecInv ==
  /\ IInv
  /\ phase \in {"encode", "decode", "read back"}
  /\ phase = "decode" => NothingEncoded
  /\ phase = "encode" => EncInv /\ Extent /\ Untouched
  /\ phase = "read back" => EncInv /\ Extent /\ result = "done" /\ Following

(***************************************************************************)
(* How far the output goes.                                                *)
(***************************************************************************)
LEMMA NextSum ==
  ASSUME EncTypeOK, HasPart, LensGrow(done)
  PROVE  LensGrow(done + 1)
<1>1. /\ type \in Containers /\ done \in Nat /\ done + 1 \in 1..LastField /\ part \in Field /\ LastField \in Nat
      /\ type.fixedLen[done + 1] = type.fixedLen[done] + HeadLen(part)
  BY NextPart
<1>2. type.fixedLen \in [0..LastField -> Nat]
  BY <1>1, LensOfParts
<1>3. HeadLen(part) \in Nat
  BY <1>1, WAssumption DEF HeadLen, Field
<1> SUFFICES ASSUME NEW k \in 0..(done + 1) PROVE type.fixedLen[k] <= type.fixedLen[done + 1]
  BY DEF LensGrow
<1>4. CASE k = done + 1
  <2>1. type.fixedLen[done + 1] \in Nat
    BY <1>1, <1>2
  <2> QED
    BY <1>4, <2>1
<1>5. CASE k # done + 1
  <2>1. k \in 0..done /\ k \in 0..LastField /\ done \in 0..LastField
    BY <1>1, <1>5
  <2>2. type.fixedLen[k] <= type.fixedLen[done]
    BY <2>1 DEF LensGrow
  <2>3. type.fixedLen[k] \in Nat /\ type.fixedLen[done] \in Nat
    BY <1>2, <2>1
  <2> QED
    BY <1>1, <1>3, <2>2, <2>3
<1> QED
  BY <1>4, <1>5

LEMMA InitExtent == EncInit => Extent
<1> SUFFICES ASSUME EncInit PROVE Extent
  OBVIOUS
<1>1. type \in Containers /\ done = 0 /\ pass = "first"
  BY DEF EncInit
<1>2. LensGrow(done)
  BY <1>1, LensOfParts DEF LensGrow
<1> QED
  BY <1>1, <1>2 DEF EncInit, Extent, SizesFixed, Fixed, LastField

LEMMA FirstPassExtent ==
  ASSUME EncInv, Extent, NEW bytes, NEW failed,
         EncodeFixed(bytes, failed) \/ WriteOffset(bytes, failed)
  PROVE  Extent'
<1>1. /\ EncTypeOK /\ HasPart /\ pass = "first" /\ pass' = "first" /\ result = "running"
      /\ UNCHANGED <<type, size>>
  BY DEF EncInv, EncodeFixed, WriteOffset
<1>2. LensGrow(done + 1)
  BY <1>1, NextSum DEF Extent
<1>3. result' = "running" => done' = done + 1
  BY DEF EncodeFixed, WriteOffset, Write
<1>4. result' = "running" => LensGrow(done)'
  BY <1>1, <1>2, <1>3 DEF LensGrow
<1> QED
  BY <1>1, <1>4 DEF Extent, SizesFixed, Fixed, LastField

LEMMA EndOfFirstPassExtent ==
  ASSUME EncInv, Extent, EndOfFirstPass
  PROVE  Extent'
<1>1. /\ EncTypeOK /\ pass = "first" /\ pass' = "second" /\ result = "running" /\ placed = <<>>
      /\ UNCHANGED <<type, size, before, wrote, prevOffset, prevSize, written, placed, result>>
  BY DEF EncInv, EndOfFirstPass, InFirstPass
<1>2. done = LastField
  BY <1>1, LensOfParts DEF EncTypeOK, EndOfFirstPass, HasPart, LastField
<1>3. wrote = before + FixedLen(type) /\ StartsAtFixedLen
  BY <1>1, <1>2 DEF EncInv, InFirstPass, FixedLen, LastField
<1>4. LensGrow(LastField)
  BY <1>1, <1>2 DEF Extent
<1>5. Len(placed) = Len(written) => wrote = before + Total
  BY <1>1, <1>3 DEF Total, EncTypeOK
<1> QED
  BY <1>1, <1>3, <1>4, <1>5 DEF Extent, SizesFixed, Fixed, LastField, LensGrow, StartsAtFixedLen, Total, FixedLen

LEMMA EncodeDynamicExtent ==
  ASSUME EncInv, Extent, NEW bytes, NEW failed, EncodeDynamic(bytes, failed)
  PROVE  Extent'
<1> DEFINE p == Len(placed) + 1
<1>1. /\ EncTypeOK /\ HasPart /\ ~part.isFixed /\ pass = "second" /\ result = "running"
      /\ UNCHANGED <<type, size, before, prevOffset, prevSize, written, pass>>
      /\ placed' = Append(placed, wrote)
      /\ bytes \in 0..size[done + 1] /\ failed \in BOOLEAN /\ (bytes < size[done + 1] => failed)
      /\ wrote' = wrote + bytes
      /\ result' = (IF failed THEN "error" ELSE "running")
  BY DEF EncInv, EncodeDynamic, Write, Counted
<1>2. CASE failed
  BY <1>1, <1>2 DEF Extent, SizesFixed, Fixed, LastField
<1>3. CASE ~failed
  <2>1. /\ wrote \in Nat /\ before \in Nat /\ placed \in Seq(Nat) /\ written \in Seq(0..MaxWord)
        /\ size[done + 1] \in Nat /\ Len(placed) \in Nat /\ prevSize \in Nat
    BY <1>1, NextPart, MaxStartAssumption DEF EncTypeOK
  <2>2. bytes = size[done + 1] /\ wrote' \in Nat /\ wrote <= wrote'
    BY <1>1, <1>3, <2>1
  <2>3. /\ Len(placed') = p /\ placed'[p] = wrote
        /\ \A k \in 1..Len(placed) : placed'[k] = placed[k] /\ placed[k] \in Nat
    BY <1>1, <2>1
  <2>4. /\ LensGrow(LastField) /\ StartsAtFixedLen
        /\ \A k \in 1..Len(placed) : placed[k] <= wrote
    BY <1>1 DEF Extent
  <2>5. \A k \in 1..p : placed'[k] <= wrote'
    <3> TAKE k \in 1..p
    <3>1. CASE k = p
      BY <2>2, <2>3, <3>1
    <3>2. CASE k # p
      <4>1. k \in 1..Len(placed)
        BY <2>1, <3>2
      <4> QED
        BY <2>1, <2>2, <2>3, <2>4, <4>1
    <3> QED
      BY <3>1, <3>2
  <2>6. /\ At(done + 1) = p /\ done + 1 \in 1..LastField /\ ~Fixed(done + 1)
        /\ Spans(LastField)
        /\ Len(placed) < Len(written) => wrote = before + written[p]
    BY <1>1, NextPart DEF EncInv, InSecondPass, OffsetsOf
  <2>7. p \in 1..Len(written) /\ (p = Len(written) => prevSize = size[done + 1])
    BY <2>6 DEF Spans
  <2>8. p = Len(written) => wrote' = before + Total
    <3> HAVE p = Len(written)
    <3>1. written # <<>> /\ wrote = before + written[p] /\ written[p] \in Nat
      BY <2>1, <2>6, <2>7, MaxWordAssumption
    <3>2. Total = written[p] + prevSize
      BY <3>1 DEF Total
    <3>3. wrote' = before + written[p] + prevSize
      BY <1>1, <2>2, <2>7, <3>1
    <3> QED
      BY <2>1, <3>1, <3>2, <3>3
  <2> QED
    BY <1>1, <2>3, <2>4, <2>5, <2>8
    DEF Extent, SizesFixed, Fixed, LastField, LensGrow, StartsAtFixedLen, Total, FixedLen
<1> QED
  BY <1>1, <1>2, <1>3

LEMMA StepExtent == EncInv /\ Extent /\ [EncNext]_encVars => Extent'
<1> SUFFICES ASSUME EncInv, Extent, [EncNext]_encVars PROVE Extent'
  OBVIOUS
<1>1. CASE \E bytes \in 0..Longest, failed \in BOOLEAN :
             EncodeFixed(bytes, failed) \/ WriteOffset(bytes, failed) \/ EncodeDynamic(bytes, failed)
  BY <1>1, FirstPassExtent, EncodeDynamicExtent
<1>2. CASE EndOfFirstPass
  BY <1>2, EndOfFirstPassExtent
<1>3. CASE SkipFixed \/ EncodeDone \/ UNCHANGED encVars
  <2>1. /\ UNCHANGED <<type, size, before, wrote, prevSize, written, placed, pass>>
        /\ pass = "first" => UNCHANGED <<result, done>>
        /\ result' \in {"running", "done"} => result \in {"running", "done"}
    BY <1>3 DEF SkipFixed, EncodeDone, encVars
  <2> QED
    BY <2>1 DEF Extent, SizesFixed, Fixed, LastField, LensGrow, StartsAtFixedLen, Total, FixedLen
<1> QED
  BY <1>1, <1>2, <1>3 DEF EncNext

(***************************************************************************)
(* What the decoder is given.                                              *)
(***************************************************************************)
LEMMA Produced ==
  ASSUME EncInv, Extent, result = "done"
  PROVE  /\ type \in Containers
         /\ written \in Seq(Nat)
         /\ Len(written) = OffsetCount(type)
         /\ Len(placed) = Len(written)
         /\ \A k \in 1..Len(written) : placed[k] = before + written[k] /\ written[k] <= wrote - before
         /\ written # <<>> => written[1] = FixedLen(type)
         /\ before \in Nat /\ wrote - before \in Nat
         /\ wrote - before = Total
         /\ FixedLen(type) <= wrote - before
<1>1. /\ EncTypeOK /\ pass = "second" /\ OffsetsPointAtFields /\ StartsAtFixedLen
      /\ \A k \in 1..Len(placed) : placed[k] <= wrote
      /\ Len(placed) = Len(written) => wrote = before + Total
  BY DEF EncInv, EncTypeOK, InFirstPass, Extent
<1>2. /\ Len(written) = OffsetCount(type) /\ Len(placed) = Len(written)
      /\ \A k \in 1..Len(placed) : placed[k] = before + written[k]
  BY <1>1 DEF OffsetsPointAtFields
<1>3. type \in Containers /\ before \in Nat /\ wrote \in Nat /\ prevSize \in Nat /\ written \in Seq(0..MaxWord)
  BY <1>1, MaxStartAssumption DEF EncTypeOK
<1>4. written \in Seq(Nat)
  BY <1>3, MaxWordAssumption
<1>5. \A k \in 1..Len(written) : written[k] <= wrote - before
  <2> TAKE k \in 1..Len(written)
  <2>1. written[k] \in Nat /\ before + written[k] <= wrote
    BY <1>1, <1>2, <1>4
  <2> QED
    BY <1>3, <2>1
<1>6. FixedLen(type) \in Nat
  <2>1. LastField \in 0..LastField
    BY <1>3, LensOfParts
  <2> QED
    BY <1>3, <2>1, LensOfParts DEF FixedLen, LastField
<1>7. Total \in Nat
  <2>1. CASE written = <<>>
    BY <1>6, <2>1 DEF Total
  <2>2. CASE written # <<>>
    BY <1>3, <1>4, <2>2 DEF Total
  <2> QED
    BY <2>1, <2>2
<1>8. wrote - before = Total /\ wrote - before \in Nat
  BY <1>1, <1>2, <1>3, <1>7
<1>9. written # <<>> => written[1] = FixedLen(type)
  BY <1>1 DEF StartsAtFixedLen
<1>10. FixedLen(type) <= wrote - before
  <2>1. CASE written = <<>>
    BY <1>6, <1>8, <2>1 DEF Total
  <2>2. CASE written # <<>>
    <3>1. 1 \in 1..Len(written)
      BY <1>4, <2>2
    <3> QED
      BY <1>5, <1>9, <2>2, <3>1
  <2> QED
    BY <2>1, <2>2
<1> QED
  BY <1>2, <1>3, <1>4, <1>5, <1>8, <1>9, <1>10

\* The part of the k-th offset is as long as its field's size says.
LEMMA PlaceOfNext ==
  ASSUME EncInv, Extent, result = "done", max = wrote - before,
         NEW j \in 1..LastField, ~Fixed(j)
  PROVE  /\ At(j) \in 1..Len(written)
         /\ size[j] \in Nat
         /\ Place(At(j)) = written[At(j)]
         /\ Place(At(j) + 1) = written[At(j)] + size[j]
         /\ Place(At(j) + 1) <= max
<1>1. /\ type \in Containers /\ written \in Seq(Nat) /\ max = Total /\ max \in Nat
      /\ \A k \in 1..Len(written) : written[k] <= max
  BY Produced
<1>2. Spans(LastField) /\ size \in [1..LastField -> Nat]
  BY DEF EncInv, EncTypeOK, InFirstPass, InSecondPass, LastField
<1>3. /\ At(j) \in 1..Len(written) /\ size[j] \in Nat
      /\ At(j) < Len(written) => written[At(j) + 1] = written[At(j)] + size[j]
      /\ At(j) = Len(written) => prevSize = size[j]
  BY <1>2 DEF Spans
<1>4. CASE At(j) = Len(written)
  <2>1. written # <<>> /\ ~(At(j) + 1 <= Len(written))
    BY <1>1, <1>3, <1>4
  <2>2. Total = written[At(j)] + size[j]
    BY <1>3, <1>4, <2>1 DEF Total
  <2> QED
    BY <1>1, <1>3, <2>1, <2>2 DEF Place
<1>5. CASE At(j) # Len(written)
  <2>1. At(j) < Len(written) /\ At(j) + 1 \in 1..Len(written)
    BY <1>1, <1>3, <1>5
  <2> QED
    BY <1>1, <1>3, <2>1 DEF Place
<1> QED
  BY <1>4, <1>5

(***************************************************************************)
(* The steps that read back.  None of them fails.                          *)
(***************************************************************************)
Reading == IInv /\ EncInv /\ Extent /\ result = "done" /\ Following

LEMMA SumsFit ==
  ASSUME Reading
  PROVE  /\ max \in Nat
         /\ \A k \in 0..LastField : type.fixedLen[k] \in Nat /\ type.fixedLen[k] <= max
<1>1. /\ type \in Containers /\ max = wrote - before /\ max \in Nat /\ type.fixedLen[LastField] <= max
  BY Produced DEF Reading, Following, FixedLen, LastField
<1>2. LensGrow(LastField)
  BY DEF Reading, EncInv, EncTypeOK, InFirstPass, Extent
<1>3. type.fixedLen \in [0..LastField -> Nat] /\ LastField \in 0..LastField
  BY <1>1, LensOfParts
<1> QED
  BY <1>1, <1>2, <1>3 DEF LensGrow

LEMMA ReadFixedField ==
  ASSUME Reading, HasField, FixedField(size[fi + 1]), UNCHANGED encVars
  PROVE  IInv' /\ Following'
<1> DEFINE n == size[fi + 1]
<1>1. TypeOK /\ pc = "fixed" /\ status = "running" /\ f.isFixed
  BY DEF Reading, IInv, FixedField, Running
<1>2. /\ fi + 1 \in 1..N /\ fi + 1 \in 0..N /\ N = LastField /\ f \in Field /\ type.fixedLen[fi] \in Nat
      /\ type.fixedLen[fi + 1] = type.fixedLen[fi] + HeadLen(f)
  BY <1>1, NextField DEF N, LastField
<1>3. /\ start = 0 /\ max = wrote - before /\ i = fixedI /\ fixedI = type.fixedLen[fi]
      /\ begins = <<>> /\ ends = <<>> /\ max \in Nat
  BY <1>1, <1>2 DEF Reading, Following, IInv, InFixedPart, TypeOK
<1>4. n = f.fixedLen /\ n \in Nat /\ HeadLen(f) = n
  BY <1>1, <1>2 DEF Reading, Extent, SizesFixed, Fixed, f, HeadLen, Field
<1>5. i + n <= max
  BY <1>2, <1>3, <1>4, SumsFit
<1>6. n \in 0..(max - i)
  BY <1>2, <1>3, <1>4, <1>5
<1>7. IInv'
  BY <1>6, FixedFieldIInv DEF Reading
<1>8. AsExpected(i + n)
  BY <1>3, <1>4 DEF AsExpected
<1>9. UNCHANGED <<max, start, offsets, begins, ends, pc, status>>
  BY <1>8 DEF FixedField
<1> QED
  BY <1>1, <1>3, <1>7, <1>9 DEF Reading, Following, encVars, Place

LEMMA ReadOffset ==
  ASSUME Reading, Len(offsets) < Len(written), OffsetField(written[Len(offsets) + 1]), UNCHANGED encVars
  PROVE  IInv' /\ Following'
<1> DEFINE o == written[Len(offsets) + 1]
<1>1. TypeOK /\ HasField /\ pc = "fixed" /\ status = "running" /\ ~f.isFixed
  BY DEF Reading, IInv, OffsetField, Running
<1>2. /\ fi + 1 \in 1..N /\ fi + 1 \in 0..N /\ N = LastField /\ type.fixedLen[fi] \in Nat
      /\ type.fixedLen[fi + 1] = type.fixedLen[fi] + W /\ W \in Nat
  BY <1>1, NextField, WAssumption DEF N, LastField, HeadLen
<1>3. /\ start = 0 /\ max = wrote - before /\ i = type.fixedLen[fi]
      /\ begins = <<>> /\ ends = <<>> /\ max \in Nat /\ offsets \in Seq(Nat)
      /\ \A k \in 1..Len(offsets) : offsets[k] = written[k]
  BY <1>1, <1>2 DEF Reading, Following, IInv, InFixedPart, TypeOK
<1>4. written \in Seq(Nat) /\ o \in Nat
  BY <1>3, Produced DEF Reading
<1>5. i + W <= max
  BY <1>2, <1>3, SumsFit
<1>6. IInv'
  BY <1>4, OffsetFieldIInv DEF Reading
<1>7. offsets' = Append(offsets, o) /\ UNCHANGED <<max, start, begins, ends, pc, status>>
  BY <1>2, <1>3, <1>5 DEF OffsetField
<1>8. \A k \in 1..Len(offsets') : offsets'[k] = written[k]
  <2> TAKE k \in 1..Len(offsets')
  <2>1. CASE k = Len(offsets) + 1
    BY <1>3, <1>7, <2>1
  <2>2. CASE k # Len(offsets) + 1
    <3>1. k \in 1..Len(offsets)
      BY <1>3, <1>7, <2>2
    <3> QED
      BY <1>3, <1>7, <3>1
  <2> QED
    BY <2>1, <2>2
<1> QED
  BY <1>1, <1>3, <1>6, <1>7, <1>8 DEF Reading, Following, encVars, Place

LEMMA ReadEndOfFixedPart ==
  ASSUME Reading, EndOfFixedPart, UNCHANGED encVars
  PROVE  IInv' /\ Following'
<1>1. TypeOK /\ ~HasField /\ pc = "fixed" /\ status = "running"
  BY DEF Reading, IInv, EndOfFixedPart, Running
<1>2. fi = N /\ N = LastField /\ N \in 0..N
  BY <1>1, LensOfType DEF TypeOK, HasField, N, LastField
<1>3. /\ start = 0 /\ max = wrote - before /\ i = FixedLen(type) /\ FixedLen(type) \in Nat /\ max \in Nat
      /\ begins = <<>> /\ ends = <<>> /\ next = 1
      /\ \A k \in 1..Len(offsets) : offsets[k] = written[k]
  <2>1. type.fixedLen[N] \in Nat
    BY <1>1, <1>2, LensOfType DEF TypeOK
  <2>2. start = 0 /\ i = start + type.fixedLen[fi] /\ begins = <<>> /\ ends = <<>> /\ next = 1 /\ max \in Nat
        /\ max = wrote - before /\ \A k \in 1..Len(offsets) : offsets[k] = written[k]
    BY <1>1 DEF Reading, Following, IInv, InFixedPart, TypeOK
  <2> QED
    BY <1>2, <2>1, <2>2 DEF FixedLen, N
<1>4. pc' = "dynamic" /\ UNCHANGED <<max, start, i, offsets, next, begins, ends, status>>
  BY <1>3 DEF EndOfFixedPart, AtPivot
<1>5. i = Place(1)
  <2>1. CASE written = <<>>
    BY <1>3, <2>1, Produced DEF Reading, Place, Total
  <2>2. CASE written # <<>>
    <3>1. 1 <= Len(written) /\ written[1] = FixedLen(type)
      BY <2>2, Produced DEF Reading
    <3> QED
      BY <1>3, <3>1 DEF Place
  <2> QED
    BY <2>1, <2>2
<1>6. IInv'
  BY EndOfFixedPartIInv DEF Reading
<1> QED
  BY <1>1, <1>3, <1>4, <1>5, <1>6 DEF Following, encVars, Place

LEMMA ReadDynamicField ==
  ASSUME Reading, HasField, ~Ignored, Running("dynamic"), DynamicField(WrittenPart), UNCHANGED encVars
  PROVE  IInv' /\ Following'
<1>1. TypeOK /\ pc = "dynamic" /\ status = "running" /\ ~f.isFixed
  BY DEF Reading, IInv, Running, Ignored
<1>2. /\ Len(offsets) = OffsetCount(type) /\ Len(ends) = next - 1 /\ next - 1 = type.offsetCount[fi]
      /\ Len(begins) = Len(ends) /\ begins \in Seq(0..max) /\ ends \in Seq(0..max)
      /\ next \in Nat \ {0} /\ max \in Nat /\ i \in Nat
      /\ start = 0 /\ max = wrote - before /\ i = Place(next)
      /\ \A k \in 1..Len(offsets) : offsets[k] = written[k]
      /\ \A k \in 1..Len(ends) : begins[k] = Place(k) /\ ends[k] = Place(k + 1)
  <2>1. Following /\ InDynamicPart
    BY DEF Reading, IInv
  <2>2. /\ Len(begins) = Len(ends) /\ begins \in Seq(0..max) /\ ends \in Seq(0..max)
        /\ next \in Nat \ {0} /\ max \in Nat /\ i \in Nat
    BY <1>1 DEF TypeOK
  <2> QED
    BY <1>1, <2>1, <2>2 DEF Following, InDynamicPart
<1>3. fi + 1 \in 1..LastField /\ ~Fixed(fi + 1) /\ At(fi + 1) = next
  BY <1>1, <1>2, NextField DEF N, LastField, Fixed, f, At, OffsetsOf
<1>4. /\ next \in 1..Len(written) /\ size[fi + 1] \in Nat
      /\ Place(next) = written[next] /\ Place(next + 1) = written[next] + size[fi + 1]
      /\ Place(next + 1) <= max
  BY <1>2, <1>3, PlaceOfNext DEF Reading
<1>5. Len(offsets) = Len(written) /\ written \in Seq(Nat)
  BY <1>2, Produced DEF Reading
<1>6. offsets[next] = i /\ FieldScope = Place(next + 1) - i
  <2>1. offsets[next] = i
    BY <1>2, <1>4, <1>5
  <2>2. CASE next < Len(offsets)
    <3>1. next + 1 \in 1..Len(offsets) /\ next + 1 <= Len(written)
      BY <1>2, <1>5, <2>2
    <3> QED
      BY <1>2, <2>1, <2>2, <3>1 DEF FieldScope, Place
  <2>3. CASE ~(next < Len(offsets))
    <3>1. ~(next + 1 <= Len(written))
      BY <1>2, <1>5, <2>3
    <3> QED
      BY <2>1, <2>3, <3>1 DEF FieldScope, Place
  <2> QED
    BY <2>1, <2>2, <2>3
<1>7. /\ FieldScope = size[fi + 1] /\ i + size[fi + 1] = Place(next + 1)
      /\ size[fi + 1] <= max - i
  <2>1. written[next] = i
    BY <1>2, <1>4
  <2> QED
    BY <1>2, <1>4, <1>6, <2>1
<1>8. InScope /\ WrittenPart = size[fi + 1] /\ size[fi + 1] \in 0..(max - i)
  BY <1>2, <1>4, <1>6, <1>7 DEF InScope, AtOffset, FitsSpan, WrittenPart
<1>9. IInv'
  BY <1>8, DynamicFieldIInv DEF Reading
<1>10. /\ i' = Place(next + 1) /\ next' = next + 1
       /\ begins' = Append(begins, i) /\ ends' = Append(ends, i')
       /\ UNCHANGED <<max, start, offsets, pc, status>>
  BY <1>7, <1>8 DEF DynamicField, Handled
<1>11. /\ Len(begins') = next /\ Len(ends') = next
      /\ begins'[next] = i /\ ends'[next] = i'
      /\ \A k \in 1..(next - 1) : begins'[k] = begins[k] /\ ends'[k] = ends[k]
  <2>1. begins \in Seq(Nat)
    <3>1. 0..max \subseteq Nat
      BY <1>2
    <3> QED
      BY <1>2, <3>1
  <2>2. ends \in Seq(Nat)
    <3>1. 0..max \subseteq Nat
      BY <1>2
    <3> QED
      BY <1>2, <3>1
  <2>3. i' \in Nat
    <3>1. i' = i + size[fi + 1]
      BY <1>7, <1>10
    <3>2. i \in Nat /\ size[fi + 1] \in Nat
      BY <1>2, <1>4
    <3> QED
      BY <3>1, <3>2
  <2>4. Len(begins) = next - 1 /\ Len(ends) = next - 1 /\ next \in Nat \ {0} /\ i \in Nat
    BY <1>2
  <2>5. begins' = Append(begins, i) /\ ends' = Append(ends, i')
    BY <1>10
  <2>6. /\ Len(begins') = next /\ begins'[next] = i
        /\ \A k \in 1..(next - 1) : begins'[k] = begins[k]
    BY <2>1, <2>4, <2>5
  <2>7. /\ Len(ends') = next /\ ends'[next] = i'
        /\ \A k \in 1..(next - 1) : ends'[k] = ends[k]
    BY <2>2, <2>3, <2>4, <2>5
  <2> QED
    BY <2>6, <2>7
<1>12. \A k \in 1..Len(ends') : begins'[k] = Place(k) /\ ends'[k] = Place(k + 1)
  <2> TAKE k \in 1..Len(ends')
  <2>1. k \in 1..next
    BY <1>11
  <2>2. CASE k = next
    BY <1>2, <1>10, <1>11, <2>2
  <2>3. CASE k # next
    <3>1. k \in 1..Len(ends)
      BY <1>2, <2>1, <2>3
    <3> QED
      BY <1>2, <1>11, <3>1
  <2> QED
    BY <2>2, <2>3
<1>13. UNCHANGED written
  BY DEF encVars
<1> QED
  <2>1. i' = Place(next)'
    BY <1>10, <1>13 DEF Place
  <2>2. \A k \in 1..Len(ends') : begins'[k] = Place(k)' /\ ends'[k] = Place(k + 1)'
    BY <1>10, <1>12, <1>13 DEF Place
  <2> QED
    BY <1>1, <1>2, <1>4, <1>9, <1>10, <1>11, <2>1, <2>2, SMTT(20) DEF Following, encVars

LEMMA ReadOn ==
  ASSUME Reading, IgnoreField \/ Finish, UNCHANGED encVars
  PROVE  IInv' /\ Following'
<1>1. IInv'
  BY IgnoreFieldIInv, FinishIInv DEF Reading
<1>2. /\ UNCHANGED <<max, start, i, offsets, next, begins, ends, pc>>
      /\ status' \in {"running", "accepted"}
  BY DEF IgnoreField, Running, Finish, Return
<1> QED
  BY <1>1, <1>2 DEF Reading, Following, encVars, Place

(***************************************************************************)
(* The phases.                                                             *)
(***************************************************************************)
LEMMA InitCodecInv == CodecInit => CodecInv
<1> SUFFICES ASSUME CodecInit PROVE CodecInv
  OBVIOUS
<1>1. CASE phase = "decode" /\ Init /\ NothingEncoded
  BY <1>1, InitIInv DEF CodecInv
<1>2. CASE phase = "encode" /\ EncInit /\ Ready(0, 0) /\ pc = "fixed"
  <2>1. /\ type \in Containers /\ max = 0 /\ start = 0 /\ i = 0 /\ fi = 0 /\ fixedI = 0
        /\ offsets = <<>> /\ next = 1 /\ leftOver = FuzzMinLen(type) /\ begins = <<>> /\ ends = <<>>
        /\ status = "running" /\ pc = "fixed"
    BY <1>2 DEF EncInit, Ready
  <2>2. N \in Nat /\ type.fixedLen[0] = 0 /\ type.offsetCount[0] = 0 /\ type.fuzzMinLen[0] \in Nat
    <3>1. 0 \in 0..N
      BY <2>1, LensOfType
    <3> QED
      BY <2>1, <3>1, LensOfType
  <2>3. TypeOK
    BY <2>1, <2>2 DEF TypeOK, FuzzMinLen, N
  <2>4. IInv
    BY <2>1, <2>2, <2>3 DEF IInv, InFixedPart, InDynamicPart, InFuzzMode
  <2> QED
    BY <1>2, <2>1, <2>4, InitEncInv, InitExtent DEF CodecInv, Untouched
<1> QED
  BY <1>1, <1>2 DEF CodecInit

LEMMA EncodeCodecInv == CodecInv /\ Encode => CodecInv'
<1> SUFFICES ASSUME CodecInv, Encode PROVE CodecInv'
  OBVIOUS
<1>1. phase = "encode" /\ EncNext /\ UNCHANGED <<decVars, phase>> /\ IInv /\ EncInv /\ Extent /\ Untouched
  BY DEF Encode, CodecInv
<1>2. UNCHANGED type
  BY <1>1 DEF EncNext, EncodeFixed, WriteOffset, EncodeDynamic, EndOfFirstPass, SkipFixed, EncodeDone
<1>3. IInv'
  BY <1>1, <1>2, StepIInv DEF decVars, vars
<1>4. EncInv' /\ Extent'
  BY <1>1, StepEncInv, StepExtent
<1>5. Untouched'
  BY <1>1 DEF Untouched, decVars
<1> QED
  BY <1>1, <1>3, <1>4, <1>5 DEF CodecInv

LEMMA DecodeCodecInv == CodecInv /\ Decode => CodecInv'
<1> SUFFICES ASSUME CodecInv, Decode PROVE CodecInv'
  OBVIOUS
<1>1. phase = "decode" /\ Next /\ UNCHANGED <<encVars, phase>> /\ IInv /\ NothingEncoded
  BY DEF Decode, CodecInv
<1>2. IInv'
  BY <1>1, StepIInv
<1>3. NothingEncoded'
  BY <1>1 DEF NothingEncoded, encVars
<1> QED
  BY <1>1, <1>2, <1>3 DEF CodecInv

LEMMA HandOverCodecInv == CodecInv /\ HandOver => CodecInv'
<1> SUFFICES ASSUME CodecInv, HandOver PROVE CodecInv'
  OBVIOUS
<1>1. /\ result = "done" /\ phase' = "read back" /\ max' = wrote - before
      /\ UNCHANGED <<type, size, before, wrote, taken, done, prevOffset, prevSize, written, placed, pass, result>>
      /\ UNCHANGED <<start, i, fi, fixedI, offsets, next, leftOver, begins, ends, pc, status>>
      /\ IInv /\ EncInv /\ Extent /\ Untouched
  BY DEF HandOver, CodecInv, encVars
<1>2. max' \in Nat /\ Len(written) \in Nat
  <2>1. EncInv /\ Extent /\ result = "done"
    BY <1>1, Zenon
  <2>2. wrote - before \in Nat /\ written \in Seq(Nat)
    BY <2>1, Produced, Zenon
  <2>3. max' = wrote - before
    BY <1>1
  <2> QED
    BY <2>2, <2>3
<1>3. TypeOK /\ start = 0 /\ i = 0 /\ begins = <<>> /\ ends = <<>> /\ offsets = <<>> /\ pc = "fixed" /\ status = "running"
  BY <1>1 DEF IInv, Untouched
<1>4. TypeOK'
  <2>1. 0 \in 0..max' /\ begins \in Seq(0..max') /\ ends \in Seq(0..max')
    BY <1>2, <1>3
  <2> QED
    BY <1>1, <1>2, <1>3, <2>1 DEF TypeOK
<1>5. InFixedPart'
  BY <1>1, <1>3 DEF IInv, InFixedPart
<1>6. IInv'
  BY <1>1, <1>3, <1>4, <1>5 DEF IInv, InDynamicPart, InFuzzMode
<1>7. EncInv' /\ Extent'
  BY <1>1, StepEncInv, StepExtent DEF encVars
<1>8. Following'
  <2>1. /\ offsets' = <<>> /\ ends' = <<>> /\ start' = 0 /\ pc' = "fixed" /\ status' = "running"
        /\ written' = written /\ max' = (wrote - before)'
    BY <1>1, <1>3
  <2>2. Len(offsets') = 0 /\ Len(ends') = 0
    BY <2>1
  <2> QED
    BY <1>2, <2>1, <2>2 DEF Following
<1> QED
  BY <1>1, <1>6, <1>7, <1>8 DEF CodecInv

LEMMA ReadBackCodecInv == CodecInv /\ ReadBack => CodecInv'
<1> SUFFICES ASSUME CodecInv, ReadBack PROVE CodecInv'
  OBVIOUS
<1>1. phase = "read back" /\ UNCHANGED <<encVars, phase>> /\ Reading
  BY DEF ReadBack, CodecInv, Reading
<1>2. IInv' /\ Following'
  BY <1>1, ReadFixedField, ReadOffset, ReadEndOfFixedPart, ReadDynamicField, ReadOn DEF ReadBack
<1>3. EncInv' /\ Extent' /\ result' = "done"
  BY <1>1, StepEncInv, StepExtent DEF Reading, encVars
<1> QED
  BY <1>1, <1>2, <1>3 DEF CodecInv

LEMMA StepCodecInv == CodecInv /\ [CodecNext]_codecVars => CodecInv'
<1> SUFFICES ASSUME CodecInv, [CodecNext]_codecVars PROVE CodecInv'
  OBVIOUS
<1>1. CASE UNCHANGED codecVars
  <2>1. UNCHANGED <<encVars, decVars, phase>>
    BY <1>1 DEF codecVars
  <2>2. IInv'
    BY <2>1, StepIInv DEF CodecInv, encVars, decVars, vars
  <2>3. EncInv /\ Extent => EncInv' /\ Extent'
    BY <2>1, StepEncInv, StepExtent
  <2>4. /\ NothingEncoded => NothingEncoded'
        /\ Untouched => Untouched'
        /\ Following => Following'
        /\ result' = result /\ phase' = phase
    BY <2>1 DEF NothingEncoded, Untouched, Following, Place, encVars, decVars
  <2> QED
    BY <2>2, <2>3, <2>4 DEF CodecInv
<1> QED
  BY <1>1, EncodeCodecInv, DecodeCodecInv, HandOverCodecInv, ReadBackCodecInv DEF CodecNext, Ended

\* The strengthening holds in every state of the two together.
THEOREM CodecInvariance == CodecSpec => []CodecInv
<1> QED
  BY InitCodecInv, StepCodecInv, PTL DEF CodecSpec

(***************************************************************************)
(* What it gives.                                                          *)
(***************************************************************************)
\* Encoder and decoder keep to their types in every phase: no index leaves the scope.
THEOREM CodecTypeCorrect == CodecSpec => []CodecTypeOK
<1>1. NothingEncoded /\ TypeOK => EncTypeOK
  BY MaxStartAssumption DEF NothingEncoded, TypeOK, EncTypeOK
<1>2. CodecInv => CodecTypeOK
  BY <1>1 DEF CodecInv, IInv, EncInv, CodecTypeOK
<1> QED
  BY <1>2, CodecInvariance, PTL

\* Whatever container was encoded without an error is never refused by the decoder, whatever
\* its fields and their sizes, and every field is decoded from all the bytes, and only
\* those, that were written for it.
THEOREM ReadBackExact == CodecSpec => []EncodedIsReadBack
<1>1. ASSUME CodecInv, phase = "read back"
      PROVE  /\ status # "failed"
             /\ \A k \in 1..Len(begins) : begins[k] = placed[k] - before /\ ends[k] = EndOfPart(k) - before
             /\ status = "accepted" => i = max /\ Len(begins) = Len(placed)
  <2>1. Reading
    BY <1>1 DEF CodecInv, Reading
  <2>2. /\ type \in Containers /\ written \in Seq(Nat) /\ Len(written) = OffsetCount(type)
        /\ Len(placed) = Len(written) /\ before \in Nat /\ wrote - before \in Nat
        /\ \A k \in 1..Len(written) : placed[k] = before + written[k]
    BY <2>1, Produced DEF Reading
  <2>3. /\ status \in {"running", "accepted"} /\ Len(begins) = Len(ends) /\ ends \in Seq(0..max)
        /\ max = wrote - before /\ Len(ends) <= Len(written)
        /\ \A k \in 1..Len(ends) : begins[k] = Place(k) /\ ends[k] = Place(k + 1)
    BY <2>1 DEF Reading, Following, IInv, TypeOK
  <2>4. ASSUME NEW k \in 1..Len(begins)
        PROVE  begins[k] = placed[k] - before /\ ends[k] = EndOfPart(k) - before
    <3>1. k \in 1..Len(ends) /\ k \in 1..Len(written) /\ written[k] \in Nat
      BY <2>2, <2>3, SMTT(20)
    <3>2. begins[k] = placed[k] - before
      BY <2>2, <2>3, <3>1 DEF Place
    <3>3. CASE k < Len(written)
      <4>1. k + 1 \in 1..Len(written) /\ written[k + 1] \in Nat
        BY <2>2, <3>1, <3>3
      <4>2. ends[k] = written[k + 1] /\ EndOfPart(k) = placed[k + 1]
        BY <2>2, <2>3, <3>1, <3>3, <4>1 DEF Place, EndOfPart
      <4> QED
        BY <2>2, <3>2, <4>1, <4>2
    <3>4. CASE ~(k < Len(written))
      <4>1. ~(k + 1 <= Len(written))
        BY <2>2, <3>1, <3>4
      <4>2. ends[k] = max /\ EndOfPart(k) = wrote
        BY <2>2, <2>3, <3>1, <3>4, <4>1 DEF Place, EndOfPart
      <4> QED
        BY <2>3, <3>2, <4>2
    <3> QED
      BY <3>3, <3>4
  <2>5. ASSUME status = "accepted"
        PROVE  i = max /\ Len(begins) = Len(placed)
    <3>1. /\ pc = "dynamic" /\ fi = N /\ Len(ends) = next - 1 /\ next - 1 = type.offsetCount[fi]
          /\ i = Place(next) /\ next \in Nat
      BY <2>1, <2>5 DEF Reading, Following, IInv, InDynamicPart, TypeOK
    <3>2. next - 1 = Len(written)
      BY <2>2, <3>1 DEF OffsetCount, N
    <3>3. ~(next <= Len(written))
      BY <2>2, <3>1, <3>2
    <3> QED
      BY <2>2, <2>3, <3>1, <3>2, <3>3 DEF Place
  <2> QED
    BY <2>3, <2>4, <2>5
<1>2. CodecInv => EncodedIsReadBack
  BY <1>1 DEF EncodedIsReadBack
<1> QED
  BY <1>2, CodecInvariance, PTL
===============================================================================
