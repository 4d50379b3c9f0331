--------------------------- MODULE Container_proofs ---------------------------
(***************************************************************************)
(* Proofs about the decoder of a container, for every container, every     *)
(* scope, all offsets and handlers of the fields that read any number of   *)
(* bytes or fail.                                                          *)
(*                                                                         *)
(* The inductive invariant says of each of the three loops how far it is:  *)
(* the index follows the partial sums of the lengths in the fixed part,    *)
(* the fields decoded from offsets form a chain without gaps, and fuzzing  *)
(* mode keeps what the fields to come need.                                *)
(***************************************************************************)
EXTENDS Container, SharedLemmas

N == Len(type.fields)

InFixedPart ==
  pc = "fixed" =>
    /\ begins = <<>>
    /\ ends = <<>>
    /\ next = 1
    /\ status \in {"running", "failed"}
    /\ status = "running" =>
         /\ fixedI = start + type.fixedLen[fi]
         /\ i = fixedI
         /\ Len(offsets) = type.offsetCount[fi]

Pivot == start + FixedLen(type)

Chain ==
  /\ ends = <<>> => i = Pivot
  /\ ends # <<>> => begins[1] = Pivot /\ i = ends[Len(ends)]
  /\ \A k \in 1..(Len(ends) - 1) : ends[k] = begins[k + 1]

InDynamicPart ==
  pc = "dynamic" =>
    /\ Len(offsets) = OffsetCount(type)
    /\ Len(ends) = next - 1
    /\ next - 1 = type.offsetCount[fi]
    /\ Pivot <= i
    /\ Chain
    /\ FieldsApart

InFuzzMode ==
  pc = "fuzz" =>
    /\ leftOver = type.fuzzMinLen[fi]
    /\ Len(ends) = fi
    /\ max - start >= FuzzMinLen(type) => max - i >= leftOver
    /\ FuzzBudget

IInv ==
  /\ TypeOK
  /\ InFixedPart
  /\ InDynamicPart
  /\ InFuzzMode
  /\ status = "accepted" => fi = N /\ pc # "fixed"

\* The lengths of a container are what its fields sum up to.
LEMMA LensOfType ==
  ASSUME type \in Containers
  PROVE  /\ type.fields \in Seq(Field)
         /\ N \in Nat
         /\ type.fixedLen \in [0..N -> Nat]
         /\ type.fixedLen[0] = 0
         /\ \A k \in 1..N : type.fixedLen[k] = type.fixedLen[k - 1] + HeadLen(type.fields[k])
         /\ type.offsetCount \in [0..N -> Nat]
         /\ type.offsetCount[0] = 0
         /\ \A k \in 1..N : type.offsetCount[k] = type.offsetCount[k - 1] + OffsetsOf(type.fields[k])
         /\ type.fuzzMinLen \in [0..N -> Nat]
         /\ \A k \in 1..N : type.fuzzMinLen[k - 1] = type.fields[k].fuzzMinLen + type.fuzzMinLen[k]
BY ContainersAssumption DEF LensAddUp, AreSums, AreRests, N

\* The field that comes next has lengths, and moves every sum on by its part.
LEMMA NextField ==
  ASSUME TypeOK, HasField
  PROVE  /\ fi + 1 \in 1..N
         /\ f \in Field
         /\ type.fixedLen[fi] \in Nat
         /\ type.fixedLen[fi + 1] = type.fixedLen[fi] + HeadLen(f)
         /\ type.offsetCount[fi] \in Nat
         /\ type.offsetCount[fi + 1] = type.offsetCount[fi] + OffsetsOf(f)
         /\ type.fuzzMinLen[fi + 1] \in Nat
         /\ type.fuzzMinLen[fi] = f.fuzzMinLen + type.fuzzMinLen[fi + 1]
<1>1. type \in Containers /\ fi \in 0..N /\ fi < N
  BY DEF TypeOK, HasField, N
<1>2. fi \in 0..N /\ fi + 1 \in 1..N /\ fi + 1 \in 0..N /\ (fi + 1) - 1 = fi
  BY <1>1, LensOfType
<1>3. f \in Field
  BY <1>1, <1>2, LensOfType DEF f, N
<1> QED
  BY <1>1, <1>2, <1>3, LensOfType DEF f

LEMMA Handlers ==
  ASSUME TypeOK, NEW n \in 0..(max - i), Handled(n)
  PROVE  /\ i' = i + n
         /\ i' \in start..max
         /\ fi' = fi + 1
         /\ begins' = Append(begins, i)
         /\ ends' = Append(ends, i + n)
         /\ begins' \in Seq(0..max)
         /\ ends' \in Seq(0..max)
         /\ Len(begins') = Len(begins) + 1
         /\ Len(ends') = Len(ends) + 1
         /\ Len(begins) = Len(ends)
BY DEF TypeOK, Handled

(***************************************************************************)
(* The invariant.                                                          *)
(***************************************************************************)
LEMMA InitIInv == Init => IInv
<1> SUFFICES ASSUME Init PROVE IInv
  OBVIOUS
<1>1. PICK m \in 0..MaxScope : \E index \in 0..m : Ready(m, index)
  BY DEF Init
<1>2. PICK index \in 0..m : Ready(m, index)
  BY <1>1
<1>3. /\ type \in Containers /\ max = m /\ start = index /\ i = index /\ fi = 0 /\ fixedI = index
      /\ offsets = <<>> /\ next = 1 /\ leftOver = FuzzMinLen(type) /\ begins = <<>> /\ ends = <<>>
      /\ status = "running" /\ pc \in {"fixed", "fuzz"}
  BY <1>2 DEF Init, Ready
<1>4. /\ m \in Nat /\ index \in 0..m /\ N \in Nat /\ type.fixedLen[0] = 0 /\ type.offsetCount[0] = 0
      /\ type.fuzzMinLen[0] \in Nat
  BY <1>3, MaxScopeAssumption, LensOfType
<1>5. TypeOK
  BY <1>3, <1>4 DEF TypeOK, FuzzMinLen, N
<1>6. InFixedPart
  BY <1>3, <1>4 DEF InFixedPart
<1>7. InFuzzMode
  BY <1>3, <1>4 DEF InFuzzMode, FuzzBudget, NoOffsets, FuzzMinLen
<1> QED
  BY <1>3, <1>5, <1>6, <1>7 DEF IInv, InDynamicPart

\* What refuses the container changes nothing but the index, and that only in the fixed
\* part.
LEMMA RefusedIInv ==
  ASSUME IInv, NEW index \in start..max, Return("failed", index), pc # "fixed" => index = i
  PROVE  IInv'
<1>1. TypeOK'
  BY DEF IInv, TypeOK, Return
<1>2. InFixedPart'
  BY DEF IInv, InFixedPart, Return
<1>3. InDynamicPart'
  BY DEF IInv, InDynamicPart, Return, Chain, Pivot, FieldsApart, ScopeEnd
<1>4. InFuzzMode'
  BY DEF IInv, InFuzzMode, Return, FuzzBudget, NoOffsets
<1> QED
  BY <1>1, <1>2, <1>3, <1>4 DEF IInv, Return

LEMMA FixedFieldIInv ==
  ASSUME IInv, NEW n \in 0..(max - i), FixedField(n)
  PROVE  IInv'
<1>1. TypeOK /\ HasField /\ pc = "fixed" /\ status = "running" /\ f.isFixed
  BY DEF IInv, FixedField, Running
<1>2. i \in start..max /\ max \in Nat /\ start \in 0..max /\ i + n \in start..max
  BY <1>1 DEF TypeOK
<1>3. CASE ~AsExpected(i + n)
  BY <1>1, <1>2, <1>3, RefusedIInv DEF FixedField
<1>4. CASE AsExpected(i + n)
  <2>1. /\ i' = i + n /\ fixedI' = fixedI + HeadLen(f) /\ fi' = fi + 1 /\ i + n = fixedI + HeadLen(f)
        /\ UNCHANGED <<type, max, start, offsets, next, leftOver, begins, ends, pc, status>>
    BY <1>4 DEF FixedField, AsExpected
  <2>2. /\ HeadLen(f) \in Nat
        /\ OffsetsOf(f) = 0
        /\ fi + 1 \in 1..N
        /\ type.fixedLen[fi] \in Nat
        /\ type.fixedLen[fi + 1] = type.fixedLen[fi] + HeadLen(f)
        /\ type.offsetCount[fi] \in Nat
        /\ type.offsetCount[fi + 1] = type.offsetCount[fi] + OffsetsOf(f)
    BY <1>1, NextField, WAssumption DEF HeadLen, OffsetsOf, Field
  <2>3. TypeOK'
    BY <1>1, <1>2, <2>1, <2>2, LensOfType, SMTT(20) DEF TypeOK, N
  <2>4. InFixedPart'
    <3>1. /\ begins = <<>> /\ ends = <<>> /\ next = 1 /\ i = fixedI
          /\ fixedI = start + type.fixedLen[fi] /\ Len(offsets) = type.offsetCount[fi]
      BY <1>1 DEF IInv, InFixedPart
    <3>2. i' = fixedI' /\ fixedI' = start + type.fixedLen[fi + 1]
      <4>1. /\ fixedI' = start + type.fixedLen[fi] + HeadLen(f)
            /\ type.fixedLen[fi + 1] = type.fixedLen[fi] + HeadLen(f)
        BY <2>1, <2>2, <3>1
      <4>2. start \in Int /\ type.fixedLen[fi] \in Int /\ HeadLen(f) \in Int
        BY <1>2, <2>2
      <4>3. fixedI' = start + type.fixedLen[fi + 1]
        BY <4>1, <4>2
      <4> QED
        BY <2>1, <4>3
    <3>3. Len(offsets) = type.offsetCount[fi + 1]
      BY <2>2, <3>1
    <3> QED
      BY <1>1, <2>1, <3>1, <3>2, <3>3 DEF InFixedPart
  <2> QED
    BY <1>1, <2>1, <2>3, <2>4 DEF IInv, InDynamicPart, InFuzzMode
<1> QED
  BY <1>3, <1>4

LEMMA OffsetFieldIInv ==
  ASSUME IInv, NEW o \in Nat, OffsetField(o)
  PROVE  IInv'
<1>1. TypeOK /\ HasField /\ pc = "fixed" /\ status = "running" /\ ~f.isFixed
  BY DEF IInv, OffsetField, Running
<1>2. i \in start..max /\ max \in Nat /\ start \in 0..max /\ W \in Nat
  BY <1>1, WAssumption DEF TypeOK
<1>3. CASE Fail
  BY <1>2, <1>3, RefusedIInv DEF Fail
<1>4. CASE ~Fail
  <2>1. /\ i + W <= max /\ i' = i + W /\ fixedI' = fixedI + HeadLen(f) /\ fi' = fi + 1
        /\ offsets' = Append(offsets, o)
        /\ UNCHANGED <<type, max, start, next, leftOver, begins, ends, pc, status>>
    BY <1>4 DEF OffsetField
  <2>2. /\ HeadLen(f) = W
        /\ OffsetsOf(f) = 1
        /\ fi + 1 \in 1..N
        /\ type.fixedLen[fi] \in Nat
        /\ type.fixedLen[fi + 1] = type.fixedLen[fi] + HeadLen(f)
        /\ type.offsetCount[fi] \in Nat
        /\ type.offsetCount[fi + 1] = type.offsetCount[fi] + OffsetsOf(f)
    BY <1>1, NextField DEF HeadLen, OffsetsOf
  <2>3. offsets' \in Seq(Nat) /\ Len(offsets') = Len(offsets) + 1
    BY <1>1, <2>1 DEF TypeOK
  <2>4. TypeOK'
    <3>1. i + W \in start..max /\ fixedI + W \in Nat /\ fi + 1 \in 0..N
      BY <1>1, <1>2, <2>1, <2>2, LensOfType DEF TypeOK
    <3> QED
      BY <1>1, <1>2, <2>1, <2>2, <2>3, <3>1 DEF TypeOK, N
  <2>5. InFixedPart'
    <3>1. /\ begins = <<>> /\ ends = <<>> /\ next = 1 /\ i = fixedI
          /\ fixedI = start + type.fixedLen[fi] /\ Len(offsets) = type.offsetCount[fi]
      BY <1>1 DEF IInv, InFixedPart
    <3>2. /\ fixedI' = start + type.fixedLen[fi + 1] /\ i' = fixedI'
          /\ Len(offsets') = type.offsetCount[fi + 1]
      <4>1. fixedI' = start + type.fixedLen[fi + 1]
        <5>1. /\ fixedI' = start + type.fixedLen[fi] + W
              /\ type.fixedLen[fi + 1] = type.fixedLen[fi] + W
          BY <2>1, <2>2, <3>1
        <5>2. start \in Int /\ type.fixedLen[fi] \in Int /\ W \in Int
          BY <1>2, <2>2
        <5> QED
          BY <5>1, <5>2
      <4>2. i' = fixedI'
        BY <2>1, <2>2, <3>1
      <4>3. Len(offsets') = type.offsetCount[fi + 1]
        BY <2>2, <2>3, <3>1
      <4> QED
        BY <4>1, <4>2, <4>3
    <3> QED
      BY <1>1, <2>1, <3>1, <3>2 DEF InFixedPart
  <2> QED
    BY <1>1, <2>1, <2>4, <2>5 DEF IInv, InDynamicPart, InFuzzMode
<1> QED
  BY <1>3, <1>4

LEMMA EndOfFixedPartIInv ==
  ASSUME IInv, EndOfFixedPart
  PROVE  IInv'
<1>1. TypeOK /\ ~HasField /\ pc = "fixed" /\ status = "running"
  BY DEF IInv, EndOfFixedPart, Running
<1>2. i \in start..max /\ max \in Nat /\ start \in 0..max /\ N \in Nat /\ fi = N /\ fi \in 0..N
  BY <1>1, LensOfType DEF TypeOK, HasField, N
<1>3. CASE ~AtPivot
  BY <1>2, <1>3, RefusedIInv DEF EndOfFixedPart, Fail
<1>4. CASE AtPivot
  <2>1. /\ pc' = "dynamic" /\ fi' = 0 /\ i = Pivot
        /\ UNCHANGED <<type, max, start, i, fixedI, offsets, next, leftOver, begins, ends, status>>
    <3>1. i = FixedLen(type) + start /\ FixedLen(type) \in Nat
      BY <1>1, <1>2, <1>4, LensOfType DEF AtPivot, FixedLen, N, TypeOK
    <3> QED
      BY <1>2, <1>4, <3>1 DEF EndOfFixedPart, Pivot
  <2>2. begins = <<>> /\ ends = <<>> /\ next = 1 /\ Len(offsets) = OffsetCount(type)
    BY <1>1, <1>2 DEF IInv, InFixedPart, OffsetCount, N
  <2>3. TypeOK'
    BY <1>1, <1>2, <2>1 DEF TypeOK, N
  <2>4. InDynamicPart'
    BY <1>1, <1>2, <2>1, <2>2, LensOfType DEF InDynamicPart, Chain, Pivot, FieldsApart, TypeOK
  <2> QED
    BY <1>1, <2>1, <2>3, <2>4 DEF IInv, InFixedPart, InFuzzMode
<1> QED
  BY <1>3, <1>4

LEMMA IgnoreFieldIInv ==
  ASSUME IInv, IgnoreField
  PROVE  IInv'
<1>1. /\ TypeOK /\ HasField /\ pc = "dynamic" /\ status = "running" /\ OffsetsOf(f) = 0 /\ fi' = fi + 1
      /\ UNCHANGED <<type, max, start, i, fixedI, offsets, next, leftOver, begins, ends, pc, status>>
  BY DEF IInv, IgnoreField, Running, Ignored, OffsetsOf
<1>2. TypeOK'
  BY <1>1, NextField, LensOfType DEF TypeOK, N
<1>3. InDynamicPart'
  BY <1>1, NextField DEF IInv, InDynamicPart, Chain, Pivot, FieldsApart, ScopeEnd
<1> QED
  BY <1>1, <1>2, <1>3 DEF IInv, InFixedPart, InFuzzMode

LEMMA DynamicFieldIInv ==
  ASSUME IInv, NEW n \in 0..(max - i), DynamicField(n)
  PROVE  IInv'
<1>1. TypeOK /\ HasField /\ pc = "dynamic" /\ status = "running" /\ OffsetsOf(f) = 1
  BY DEF IInv, DynamicField, Running, Ignored, OffsetsOf
<1>2. i \in start..max /\ max \in Nat /\ start \in 0..max /\ N \in Nat
  BY <1>1, LensOfType DEF TypeOK
<1>3. CASE ~InScope
  BY <1>2, <1>3, RefusedIInv DEF DynamicField, Fail
<1>4. CASE InScope
  <2>1. /\ n <= FieldScope /\ Handled(n) /\ next' = next + 1
        /\ UNCHANGED <<type, max, start, fixedI, offsets, leftOver, pc, status>>
    BY <1>4 DEF DynamicField
  <2>2. /\ Len(ends) = next - 1 /\ next - 1 = type.offsetCount[fi] /\ Pivot <= i /\ Chain /\ FieldsApart
        /\ Len(offsets) = OffsetCount(type) /\ next \in Nat \ {0} /\ Len(begins) = Len(ends)
        /\ begins \in Seq(0..max) /\ ends \in Seq(0..max) /\ offsets \in Seq(Nat)
    BY <1>1 DEF IInv, InDynamicPart, TypeOK
  <2>3. /\ i' = i + n /\ fi' = fi + 1 /\ begins' = Append(begins, i) /\ ends' = Append(ends, i + n)
        /\ begins' \in Seq(0..max) /\ ends' \in Seq(0..max)
        /\ Len(begins') = next /\ Len(ends') = next
    BY <1>1, <2>1, <2>2, Handlers
  <2>4. TypeOK'
    BY <1>1, <1>2, <2>1, <2>3, NextField, Handlers DEF TypeOK, N
  <2>5. i = offsets[next] /\ i + n <= ScopeEnd(next) /\ ScopeEnd(next) <= max
    <3>1. i = offsets[next] /\ FieldScope \in Int /\ FieldScope <= max - i
      <4>1. i = offsets[next] /\ FieldScope <= max - i
        BY <1>4 DEF InScope, AtOffset, FitsSpan
      <4>2. CASE next < Len(offsets)
        <5>1. offsets[next + 1] \in Nat
          BY <2>2, <4>2
        <5> QED
          BY <1>2, <4>1, <4>2, <5>1 DEF FieldScope
      <4>3. CASE ~(next < Len(offsets))
        BY <1>2, <4>1, <4>3 DEF FieldScope
      <4> QED
        BY <4>1, <4>2, <4>3
    <3>2. FieldScope = ScopeEnd(next) - i
      BY <3>1 DEF FieldScope, ScopeEnd
    <3>3. ScopeEnd(next) \in Int
      BY <1>2, <2>2 DEF ScopeEnd
    <3> QED
      BY <1>2, <2>1, <3>1, <3>2, <3>3
  <2>6. FieldsApart'
    <3> SUFFICES ASSUME NEW k \in 1..next
                 PROVE  /\ Pivot <= begins'[k]
                        /\ begins'[k] = offsets[k]
                        /\ ends'[k] <= ScopeEnd(k)
                        /\ ScopeEnd(k) <= max
      BY <2>1, <2>3 DEF FieldsApart, Pivot, ScopeEnd
    <3>1. CASE k = next
      <4>1. begins'[k] = i /\ ends'[k] = i + n
        BY <2>2, <2>3, <3>1
      <4> QED
        BY <2>2, <2>5, <3>1, <4>1
    <3>2. CASE k # next
      <4>1. k \in 1..Len(ends) /\ begins'[k] = begins[k] /\ ends'[k] = ends[k]
        BY <2>2, <2>3, <3>2
      <4> QED
        BY <1>1, <2>2, <4>1 DEF FieldsApart, Pivot
    <3> QED
      BY <3>1, <3>2
  <2>7. Chain'
    <3>1. ends' # <<>> /\ i' = ends'[Len(ends')]
      BY <2>2, <2>3
    <3>2. begins'[1] = Pivot
      <4>1. CASE next = 1
        BY <2>2, <2>3, <4>1 DEF Chain
      <4>2. CASE next # 1
        BY <2>2, <2>3, <4>2 DEF Chain
      <4> QED
        BY <4>1, <4>2
    <3>3. ASSUME NEW k \in 1..(next - 1)
          PROVE  ends'[k] = begins'[k + 1]
      <4>1. ends'[k] = ends[k]
        BY <2>2, <2>3
      <4>2. CASE k = next - 1
        BY <2>2, <2>3, <4>1, <4>2 DEF Chain
      <4>3. CASE k # next - 1
        <5>1. k \in 1..(Len(ends) - 1) /\ begins'[k + 1] = begins[k + 1]
          BY <2>2, <2>3, <4>3
        <5> QED
          BY <2>2, <4>1, <5>1 DEF Chain
      <4> QED
        BY <4>2, <4>3
    <3> QED
      BY <2>1, <2>3, <3>1, <3>2, <3>3 DEF Chain, Pivot
  <2>8. InDynamicPart'
    <3>1. next = type.offsetCount[fi + 1]
      BY <1>1, <2>2, NextField
    <3>2. Pivot \in Nat
      <4>1. type.fixedLen[N] \in Nat
        BY <1>1, <1>2, LensOfType DEF TypeOK
      <4> QED
        BY <1>2, <4>1 DEF Pivot, FixedLen, N
    <3>3. Pivot' = Pivot /\ Pivot <= i'
      BY <1>2, <2>1, <2>2, <2>3, <3>2 DEF Pivot
    <3> QED
      <4>1. Len(offsets') = OffsetCount(type')
        BY <2>1, <2>2
      <4>2. Len(ends') = next' - 1 /\ next' - 1 = type'.offsetCount[fi']
        <5>1. next' - 1 = next
          BY <2>1, <2>2
        <5>2. type'.offsetCount[fi'] = type.offsetCount[fi + 1]
          BY <2>1, <2>3
        <5> QED
          BY <2>3, <3>1, <5>1, <5>2
      <4>3. Pivot' <= i'
        BY <3>3
      <4> QED
        BY <2>6, <2>7, <4>1, <4>2, <4>3 DEF InDynamicPart
  <2> QED
    BY <1>1, <2>1, <2>4, <2>8 DEF IInv, InFixedPart, InFuzzMode
<1> QED
  BY <1>3, <1>4

LEMMA FuzzFieldIInv ==
  ASSUME IInv, NEW n \in 0..(max - i), FuzzField(n)
  PROVE  IInv'
<1>1. TypeOK /\ HasField /\ pc = "fuzz" /\ status = "running"
  BY DEF IInv, FuzzField, Running
<1>2. i \in start..max /\ max \in Nat /\ start \in 0..max /\ N \in Nat
  BY <1>1, LensOfType DEF TypeOK
<1>3. /\ leftOver = type.fuzzMinLen[fi] /\ Len(ends) = fi /\ fi \in 0..N
      /\ max - start >= FuzzMinLen(type) => max - i >= leftOver
      /\ FuzzBudget
  BY <1>1, <1>2 DEF IInv, InFuzzMode, TypeOK, N
<1>4. Reserved = type.fuzzMinLen[fi + 1] /\ Reserved \in Nat /\ f.fuzzMinLen \in Nat
  BY <1>1, <1>3, NextField DEF Reserved, Field
<1>5. CASE ~Enough
  <2>1. status' = "short" /\ UNCHANGED <<type, max, start, i, fi, fixedI, offsets, next, leftOver, begins, ends, pc>>
    BY <1>5 DEF FuzzField, Return
  <2>2. max - start < FuzzMinLen(type)
    <3>1. FuzzMinLen(type) \in Nat
      <4>1. type \in Containers /\ 0 \in 0..N
        BY <1>1, <1>2 DEF TypeOK
      <4> QED
        BY <4>1, LensOfType DEF FuzzMinLen
    <3>2. max - i < Reserved /\ leftOver = f.fuzzMinLen + Reserved
      BY <1>1, <1>2, <1>3, <1>4, <1>5, NextField DEF Enough
    <3> QED
      BY <1>2, <1>3, <1>4, <3>1, <3>2
  <2>3. TypeOK'
    BY <1>1, <2>1 DEF TypeOK
  <2>4. InFuzzMode'
    <3>1. FuzzMinLen(type) \in Nat /\ ~(max - start >= FuzzMinLen(type))
      BY <1>1, <1>2, <2>2, LensOfType DEF FuzzMinLen, TypeOK
    <3> QED
      BY <1>3, <2>1, <3>1 DEF InFuzzMode, FuzzBudget, FuzzMinLen
  <2> QED
    BY <1>1, <2>1, <2>3, <2>4 DEF IInv, InFixedPart, InDynamicPart
<1>6. CASE Enough
  <2>1. /\ n <= max - i - Reserved /\ Handled(n) /\ leftOver' = Reserved
        /\ UNCHANGED <<type, max, start, fixedI, offsets, next, pc, status>>
    BY <1>6 DEF FuzzField
  <2>2. /\ i' = i + n /\ fi' = fi + 1 /\ begins' = Append(begins, i) /\ ends' = Append(ends, i + n)
        /\ begins' \in Seq(0..max) /\ ends' \in Seq(0..max)
        /\ Len(begins') = fi + 1 /\ Len(ends') = fi + 1 /\ Len(begins) = fi
        /\ begins \in Seq(0..max) /\ ends \in Seq(0..max)
    BY <1>1, <1>3, <2>1, Handlers DEF TypeOK
  <2>3. TypeOK'
    BY <1>1, <1>2, <1>4, <2>1, <2>2, NextField, Handlers DEF TypeOK, N
  <2>4. max' - i' >= leftOver'
    BY <1>2, <1>4, <2>1, <2>2
  <2>5. FuzzBudget'
    <3> SUFFICES ASSUME max - start >= FuzzMinLen(type), NEW k \in 1..(fi + 1)
                 PROVE  /\ max - type.fuzzMinLen[k] - begins'[k] >= type.fields[k].fuzzMinLen
                        /\ ends'[k] <= max - type.fuzzMinLen[k]
      BY <1>1, <2>1, <2>2 DEF FuzzBudget, NoOffsets, FuzzMinLen
    <3>1. CASE k = fi + 1
      <4>1. begins'[k] = i /\ ends'[k] = i + n /\ type.fields[k] = f
        BY <1>3, <2>2, <3>1 DEF f
      <4>2. max - i >= leftOver /\ leftOver = f.fuzzMinLen + Reserved
        BY <1>1, <1>3, <1>4, NextField
      <4> QED
        BY <1>2, <1>4, <2>1, <3>1, <4>1, <4>2
    <3>2. CASE k # fi + 1
      <4>1. k \in 1..Len(ends) /\ begins'[k] = begins[k] /\ ends'[k] = ends[k]
        BY <1>3, <2>2, <3>2
      <4> QED
        BY <1>1, <1>3, <4>1 DEF FuzzBudget, NoOffsets
    <3> QED
      BY <3>1, <3>2
  <2>6. InFuzzMode'
    BY <1>4, <2>1, <2>2, <2>4, <2>5 DEF InFuzzMode
  <2> QED
    BY <1>1, <2>1, <2>3, <2>6 DEF IInv, InFixedPart, InDynamicPart
<1> QED
  BY <1>5, <1>6

LEMMA FinishIInv ==
  ASSUME IInv, Finish
  PROVE  IInv'
<1>1. /\ TypeOK /\ fi = N /\ pc # "fixed" /\ status' = "accepted"
      /\ UNCHANGED <<type, max, start, i, fi, fixedI, offsets, next, leftOver, begins, ends, pc>>
  <2>1. type \in Containers /\ fi \in 0..N /\ ~(fi < N)
    BY DEF IInv, Finish, TypeOK, HasField, N
  <2> QED
    BY <2>1, LensOfType DEF IInv, Finish, Return
<1>2. TypeOK'
  BY <1>1 DEF TypeOK
<1>3. InDynamicPart'
  BY <1>1 DEF IInv, InDynamicPart, Chain, Pivot, FieldsApart, ScopeEnd
<1>4. InFuzzMode'
  BY <1>1 DEF IInv, InFuzzMode, FuzzBudget, NoOffsets
<1> QED
  BY <1>1, <1>2, <1>3, <1>4 DEF IInv, InFixedPart, N

LEMMA ReadFailsIInv ==
  ASSUME IInv, ReadFails
  PROVE  IInv'
<1>1. /\ i \in start..max /\ max \in Nat /\ start \in 0..max /\ W \in Nat
      /\ pc \in {"fixed", "dynamic", "fuzz"} /\ type \in Containers /\ HasField /\ TypeOK
  BY WAssumption DEF IInv, TypeOK, ReadFails
<1>2. f.isFixed \in BOOLEAN
  BY <1>1, NextField DEF Field
<1>3. CASE pc = "fixed" /\ f.isFixed
  <2>1. PICK n \in 0..(max - i) : Return("failed", i + n)
    BY <1>3 DEF ReadFails
  <2> QED
    BY <1>1, <1>3, <2>1, RefusedIInv
<1>4. CASE pc = "fixed" /\ ~f.isFixed
  <2>1. i + W <= max /\ Return("failed", i + W)
    BY <1>4 DEF ReadFails
  <2> QED
    BY <1>1, <1>4, <2>1, RefusedIInv
<1>5. CASE pc # "fixed"
  <2>1. Return("failed", i)
    BY <1>1, <1>5 DEF ReadFails, Fail
  <2> QED
    BY <1>1, <2>1, RefusedIInv
<1> QED
  BY <1>2, <1>3, <1>4, <1>5

LEMMA StepIInv == IInv /\ [Next]_vars => IInv'
<1> SUFFICES ASSUME IInv, [Next]_vars PROVE IInv'
  OBVIOUS
<1>1. CASE \E n \in 0..(max - i) : FixedField(n) \/ DynamicField(n) \/ FuzzField(n)
  BY <1>1, FixedFieldIInv, DynamicFieldIInv, FuzzFieldIInv
<1>2. CASE \E o \in 0..MaxOffset : OffsetField(o)
  BY <1>2, OffsetFieldIInv, MaxOffsetAssumption
<1>3. CASE EndOfFixedPart
  BY <1>3, EndOfFixedPartIInv
<1>4. CASE IgnoreField
  BY <1>4, IgnoreFieldIInv
<1>5. CASE Finish
  BY <1>5, FinishIInv
<1>6. CASE ReadFails
  BY <1>6, ReadFailsIInv
<1>7. CASE UNCHANGED vars
  BY <1>7 DEF vars, IInv, TypeOK, InFixedPart, InDynamicPart, InFuzzMode, Chain, Pivot, FieldsApart,
              ScopeEnd, FuzzBudget, NoOffsets, N
<1> QED
  BY <1>1, <1>2, <1>3, <1>4, <1>5, <1>6, <1>7 DEF Next, Returned

\* The strengthening holds in every state of the decoder.
THEOREM Invariance == Spec => []IInv
<1> QED
  BY InitIInv, StepIInv, PTL DEF Spec

(***************************************************************************)
(* What it gives.                                                          *)
(***************************************************************************)
\* A fixed-size field of any container is decoded at its own place only, whatever the
\* handlers of the fields before it have read; a variable-size one from the bytes
\* between its offset and the next, and within the scope.
THEOREM FieldsKeptInPlace == Spec => []FieldsInPlace
<1>1. IInv => FieldsInPlace
  BY DEF IInv, InFixedPart, FixedInPlace, InDynamicPart, FieldsApart, FieldsInPlace
<1> QED
  BY <1>1, Invariance, PTL

\* Whatever container is accepted, its fields lie back to back, every one at its offset.
THEOREM AcceptedTiled == Spec => []Tiled
<1>1. ASSUME IInv, status = "accepted", pc = "dynamic"
      PROVE  /\ Len(ends) = OffsetCount(type)
             /\ Len(offsets) = OffsetCount(type)
             /\ Chain
  BY <1>1 DEF IInv, InDynamicPart, OffsetCount, N
<1>2. IInv => Tiled
  BY <1>1 DEF Tiled, Chain, Pivot
<1> QED
  BY <1>2, Invariance, PTL

\* FuzzMinLen is enough for every container: no field of it can use up what the fields
\* after it need.
THEOREM FuzzMinLenSuffices == Spec => []FuzzBudget
<1>1. IInv => FuzzBudget
  BY DEF IInv, InFuzzMode, FuzzBudget, NoOffsets
<1> QED
  BY <1>1, Invariance, PTL
(***************************************************************************)
(* The constructor.  A sum is a recursive function over the fields: it     *)
(* exists by induction over how many of them are summed up, and what it is *)
(* of k of them follows from its equation.                                 *)
(***************************************************************************)
IsSum(s, n, part) ==
  /\ s \in [0..n -> Nat]
  /\ s[0] = 0
  /\ \A k \in 1..n : s[k] = s[k - 1] + part[k]

LEMMA SumsExist ==
  ASSUME NEW n \in Nat, NEW part \in [1..n -> Nat]
  PROVE  \E s : IsSum(s, n, part)
<1> DEFINE S == {m \in Nat : m <= n => \E s : IsSum(s, m, part)}
<1>1. 0 \in S
  <2>1. IsSum([k \in 0..0 |-> 0], 0, part)
    BY DEF IsSum
  <2> QED
    BY <2>1
<1>2. ASSUME NEW m \in Nat, m \in S PROVE m + 1 \in S
  <2> SUFFICES ASSUME m + 1 <= n PROVE \E s : IsSum(s, m + 1, part)
    OBVIOUS
  <2>1. PICK s : IsSum(s, m, part)
    BY <1>2
  <2> DEFINE u == [k \in 0..(m + 1) |-> IF k = m + 1 THEN s[m] + part[m + 1] ELSE s[k]]
  <2>2. s \in [0..m -> Nat] /\ s[0] = 0 /\ \A k \in 1..m : s[k] = s[k - 1] + part[k]
    BY <2>1 DEF IsSum
  <2>3. s[m] + part[m + 1] \in Nat
    BY <2>2
  <2>4. u \in [0..(m + 1) -> Nat]
    BY <2>2, <2>3
  <2>5. ASSUME NEW k \in 1..(m + 1) PROVE u[k] = u[k - 1] + part[k]
    <3>1. k \in 0..(m + 1) /\ k - 1 \in 0..(m + 1) /\ k - 1 # m + 1
      OBVIOUS
    <3>2. CASE k = m + 1
      BY <3>1, <3>2
    <3>3. CASE k # m + 1
      <4>1. k \in 1..m
        BY <3>3
      <4> QED
        BY <2>2, <3>1, <3>3, <4>1
    <3> QED
      BY <3>2, <3>3
  <2>6. u[0] = 0
    BY <2>2
  <2> HIDE DEF u
  <2>7. IsSum(u, m + 1, part)
    BY <2>4, <2>5, <2>6 DEF IsSum
  <2> QED
    BY <2>7
<1> HIDE DEF S
<1>3. n \in S
  BY <1>1, <1>2, SetInduction
<1> QED
  BY <1>3 DEF S

\* Sums solve the equation of the recursive function, and nothing else does.
LEMMA SumSolves ==
  ASSUME NEW n \in Nat, NEW part \in [1..n -> Nat]
  PROVE  \E s : s = [k \in 0..n |-> IF k = 0 THEN 0 ELSE s[k - 1] + part[k]]
<1>1. PICK s : IsSum(s, n, part)
  BY SumsExist
<1>2. s \in [0..n -> Nat] /\ s[0] = 0 /\ \A k \in 1..n : s[k] = s[k - 1] + part[k]
  BY <1>1 DEF IsSum
<1>3. \A k \in 0..n : s[k] = IF k = 0 THEN 0 ELSE s[k - 1] + part[k]
  BY <1>2
<1>4. s = [k \in 0..n |-> s[k]]
  BY <1>2
<1>5. s = [k \in 0..n |-> IF k = 0 THEN 0 ELSE s[k - 1] + part[k]]
  BY <1>3, <1>4
<1> QED
  BY <1>5

LEMMA SolutionIsSum ==
  ASSUME NEW n \in Nat, NEW part \in [1..n -> Nat], NEW c,
         c = [k \in 0..n |-> IF k = 0 THEN 0 ELSE c[k - 1] + part[k]]
  PROVE  IsSum(c, n, part)
<1>4. c[0] = 0 /\ \A k \in 1..n : c[k] = c[k - 1] + part[k]
  OBVIOUS
<1> DEFINE S == {k \in Nat : k <= n => c[k] \in Nat}
<1>5. 0 \in S
  BY <1>4
<1>6. ASSUME NEW k \in Nat, k \in S PROVE k + 1 \in S
  <2> SUFFICES ASSUME k + 1 <= n PROVE c[k + 1] \in Nat
    OBVIOUS
  <2>1. k + 1 \in 1..n /\ (k + 1) - 1 = k
    OBVIOUS
  <2>2. c[k + 1] = c[k] + part[k + 1]
    BY <1>4, <2>1
  <2> QED
    BY <1>6, <2>1, <2>2
<1>7. \A k \in 0..n : c[k] \in Nat
  <2> HIDE DEF S
  <2>1. \A k \in Nat : k \in S
    BY <1>5, <1>6, SetInduction
  <2> TAKE k \in 0..n
  <2>2. k \in Nat /\ k <= n /\ k \in S
    BY <2>1
  <2> QED
    BY <2>2 DEF S
<1>8. c = [k \in 0..n |-> c[k]]
  OBVIOUS
<1>9. c \in [0..n -> Nat]
  BY <1>7, <1>8
<1> QED
  BY <1>4, <1>9 DEF IsSum

\* The same from the end: a sum of all but the first.
IsRest(s, n, part) ==
  /\ s \in [0..n -> Nat]
  /\ s[n] = 0
  /\ \A k \in 1..n : s[k - 1] = part[k] + s[k]

LEMMA RestsExist ==
  ASSUME NEW n \in Nat, NEW part \in [1..n -> Nat]
  PROVE  \E s : IsRest(s, n, part)
<1> DEFINE back == [k \in 1..n |-> part[n + 1 - k]]
<1>1. back \in [1..n -> Nat]
  OBVIOUS
<1>2. PICK s : IsSum(s, n, back)
  BY <1>1, SumsExist
<1>3. s \in [0..n -> Nat] /\ s[0] = 0 /\ \A k \in 1..n : s[k] = s[k - 1] + back[k]
  BY <1>2 DEF IsSum
<1> DEFINE r == [k \in 0..n |-> s[n - k]]
<1>4. r \in [0..n -> Nat] /\ r[n] = 0
  BY <1>3
<1>5. ASSUME NEW k \in 1..n PROVE r[k - 1] = part[k] + r[k]
  <2>1. n + 1 - k \in 1..n /\ (n + 1 - k) - 1 = n - k /\ n - (k - 1) = n + 1 - k /\ n + 1 - (n + 1 - k) = k
    OBVIOUS
  <2>2. s[n + 1 - k] = s[n - k] + part[k]
    BY <1>3, <2>1
  <2>3. r[k - 1] = s[n + 1 - k] /\ r[k] = s[n - k]
    BY <2>1
  <2>4. s[n - k] \in Nat /\ part[k] \in Nat
    BY <1>3
  <2> QED
    BY <2>2, <2>3, <2>4
<1> HIDE DEF r
<1>6. IsRest(r, n, part)
  BY <1>4, <1>5 DEF IsRest
<1> QED
  BY <1>6

LEMMA RestSolves ==
  ASSUME NEW n \in Nat, NEW part \in [1..n -> Nat]
  PROVE  \E s : s = [k \in 0..n |-> IF k = n THEN 0 ELSE part[k + 1] + s[k + 1]]
<1>1. PICK s : IsRest(s, n, part)
  BY RestsExist
<1>2. s \in [0..n -> Nat] /\ s[n] = 0 /\ \A k \in 1..n : s[k - 1] = part[k] + s[k]
  BY <1>1 DEF IsRest
<1>3. ASSUME NEW k \in 0..n PROVE s[k] = IF k = n THEN 0 ELSE part[k + 1] + s[k + 1]
  <2>1. k = n \/ (k + 1 \in 1..n /\ (k + 1) - 1 = k)
    OBVIOUS
  <2> QED
    BY <1>2, <2>1
<1>4. s = [k \in 0..n |-> s[k]]
  BY <1>2
<1>5. s = [k \in 0..n |-> IF k = n THEN 0 ELSE part[k + 1] + s[k + 1]]
  BY <1>3, <1>4
<1> QED
  BY <1>5

LEMMA SolutionIsRest ==
  ASSUME NEW n \in Nat, NEW part \in [1..n -> Nat], NEW c,
         c = [k \in 0..n |-> IF k = n THEN 0 ELSE part[k + 1] + c[k + 1]]
  PROVE  IsRest(c, n, part)
<1>4. c[n] = 0 /\ \A k \in 0..n : k # n => c[k] = part[k + 1] + c[k + 1]
  OBVIOUS
<1>5. \A k \in 1..n : c[k - 1] = part[k] + c[k]
  <2> TAKE k \in 1..n
  <2>1. k - 1 \in 0..n /\ k - 1 # n /\ (k - 1) + 1 = k
    OBVIOUS
  <2> QED
    BY <1>4, <2>1
<1> DEFINE S == {k \in Nat : k <= n => c[n - k] \in Nat}
<1>6. 0 \in S
  BY <1>4
<1>7. ASSUME NEW k \in Nat, k \in S PROVE k + 1 \in S
  <2> SUFFICES ASSUME k + 1 <= n PROVE c[n - (k + 1)] \in Nat
    OBVIOUS
  <2>1. n - k \in 1..n /\ (n - k) - 1 = n - (k + 1)
    OBVIOUS
  <2>2. c[n - (k + 1)] = part[n - k] + c[n - k]
    BY <1>5, <2>1
  <2> QED
    BY <1>7, <2>1, <2>2
<1>8. \A k \in 0..n : c[k] \in Nat
  <2> HIDE DEF S
  <2>1. \A k \in Nat : k \in S
    BY <1>6, <1>7, SetInduction
  <2> TAKE k \in 0..n
  <2>2. n - k \in Nat /\ n - k <= n /\ n - (n - k) = k
    OBVIOUS
  <2>3. n - k \in S
    BY <2>1, <2>2
  <2>4. c[n - (n - k)] \in Nat
    BY <2>2, <2>3 DEF S
  <2> QED
    BY <2>2, <2>4
<1>9. c = [k \in 0..n |-> c[k]]
  OBVIOUS
<1>10. c \in [0..n -> Nat]
  BY <1>8, <1>9
<1> QED
  BY <1>4, <1>5, <1>10 DEF IsRest

\* What NewSSZContainer computes from the fields of any struct, are the sums that the
\* loops of Encode, Decode and DecodeFuzzBytes rest on: a container that it has made
\* meets the assumption on Containers, whatever the number and the lengths of its fields.
THEOREM NewContainerAddsUp ==
  ASSUME NEW fields \in Seq(Field)
  PROVE  /\ NewSSZContainer(fields).fields = fields
         /\ LensAddUp(NewSSZContainer(fields))
<1> DEFINE n         == Len(fields)
           heads     == [k \in 1..n |-> HeadLen(fields[k])]
           offsetsOf == [k \in 1..n |-> OffsetsOf(fields[k])]
           fuzzMins  == [k \in 1..n |-> fields[k].fuzzMinLen]
           c         == NewSSZContainer(fields)
           FixedLenEq(s)    == s = [k \in 0..n |-> IF k = 0 THEN 0 ELSE s[k - 1] + HeadLen(fields[k])]
           OffsetCountEq(s) == s = [k \in 0..n |-> IF k = 0 THEN 0 ELSE s[k - 1] + OffsetsOf(fields[k])]
           FuzzMinLenEq(s)  == s = [k \in 0..n |-> IF k = n THEN 0 ELSE fields[k + 1].fuzzMinLen + s[k + 1]]
<1>1. n \in Nat /\ \A k \in 1..n : fields[k] \in Field
  OBVIOUS
<1>2. /\ heads \in [1..n -> Nat]
      /\ offsetsOf \in [1..n -> Nat]
      /\ fuzzMins \in [1..n -> Nat]
  BY <1>1, WAssumption DEF Field, HeadLen, OffsetsOf
<1>3. /\ c.fields = fields
      /\ c.fixedLen = CHOOSE s : FixedLenEq(s)
      /\ c.offsetCount = CHOOSE s : OffsetCountEq(s)
      /\ c.fuzzMinLen = CHOOSE s : FuzzMinLenEq(s)
  BY DEF NewSSZContainer
<1>4. /\ \A s : FixedLenEq(s) <=> s = [k \in 0..n |-> IF k = 0 THEN 0 ELSE s[k - 1] + heads[k]]
      /\ \A s : OffsetCountEq(s) <=> s = [k \in 0..n |-> IF k = 0 THEN 0 ELSE s[k - 1] + offsetsOf[k]]
      /\ \A s : FuzzMinLenEq(s) <=> s = [k \in 0..n |-> IF k = n THEN 0 ELSE fuzzMins[k + 1] + s[k + 1]]
  <2>1. \A k \in 0..n : k # 0 => heads[k] = HeadLen(fields[k]) /\ offsetsOf[k] = OffsetsOf(fields[k])
    BY <1>1
  <2>2. \A k \in 0..n : k # n => fuzzMins[k + 1] = fields[k + 1].fuzzMinLen
    BY <1>1
  <2> HIDE DEF n, heads, offsetsOf, fuzzMins
  <2>3. ASSUME NEW s
        PROVE  /\ [k \in 0..n |-> IF k = 0 THEN 0 ELSE s[k - 1] + HeadLen(fields[k])]
                    = [k \in 0..n |-> IF k = 0 THEN 0 ELSE s[k - 1] + heads[k]]
               /\ [k \in 0..n |-> IF k = 0 THEN 0 ELSE s[k - 1] + OffsetsOf(fields[k])]
                    = [k \in 0..n |-> IF k = 0 THEN 0 ELSE s[k - 1] + offsetsOf[k]]
               /\ [k \in 0..n |-> IF k = n THEN 0 ELSE fields[k + 1].fuzzMinLen + s[k + 1]]
                    = [k \in 0..n |-> IF k = n THEN 0 ELSE fuzzMins[k + 1] + s[k + 1]]
    BY <2>1, <2>2
  <2> QED
    BY <2>3
<1>5. /\ \A k \in 1..n : heads[k] = HeadLen(fields[k]) /\ offsetsOf[k] = OffsetsOf(fields[k])
      /\ \A k \in 1..n : fuzzMins[k] = fields[k].fuzzMinLen
  OBVIOUS
<1> HIDE DEF n, heads, offsetsOf, fuzzMins, c, FixedLenEq, OffsetCountEq, FuzzMinLenEq
<1>6. FixedLenEq(c.fixedLen) /\ OffsetCountEq(c.offsetCount) /\ FuzzMinLenEq(c.fuzzMinLen)
  <2>1. \E s : FixedLenEq(s)
    <3>1. PICK s : s = [k \in 0..n |-> IF k = 0 THEN 0 ELSE s[k - 1] + heads[k]]
      BY <1>1, <1>2, SumSolves
    <3> QED
      BY <1>4, <3>1
  <2>2. \E s : OffsetCountEq(s)
    <3>1. PICK s : s = [k \in 0..n |-> IF k = 0 THEN 0 ELSE s[k - 1] + offsetsOf[k]]
      BY <1>1, <1>2, SumSolves
    <3> QED
      BY <1>4, <3>1
  <2>3. \E s : FuzzMinLenEq(s)
    <3>1. PICK s : s = [k \in 0..n |-> IF k = n THEN 0 ELSE fuzzMins[k + 1] + s[k + 1]]
      BY <1>1, <1>2, RestSolves
    <3> QED
      BY <1>4, <3>1
  <2> QED
    BY <1>3, <2>1, <2>2, <2>3
<1>7. /\ IsSum(c.fixedLen, n, heads)
      /\ IsSum(c.offsetCount, n, offsetsOf)
      /\ IsRest(c.fuzzMinLen, n, fuzzMins)
  <2>1. IsSum(c.fixedLen, n, heads)
    BY <1>1, <1>2, <1>4, <1>6, SolutionIsSum
  <2>2. IsSum(c.offsetCount, n, offsetsOf)
    BY <1>1, <1>2, <1>4, <1>6, SolutionIsSum
  <2>3. IsRest(c.fuzzMinLen, n, fuzzMins)
    BY <1>1, <1>2, <1>4, <1>6, SolutionIsRest
  <2> QED
    BY <2>1, <2>2, <2>3
<1>8. LensAddUp(c)
  <2>1. Len(c.fields) = n
    BY <1>3 DEF n
  <2>2. AreSums(c.fixedLen, Len(c.fields), LAMBDA k : HeadLen(c.fields[k]))
    BY <1>3, <1>5, <1>7, <2>1 DEF AreSums, IsSum
  <2>3. AreSums(c.offsetCount, Len(c.fields), LAMBDA k : OffsetsOf(c.fields[k]))
    BY <1>3, <1>5, <1>7, <2>1 DEF AreSums, IsSum
  <2>4. AreRests(c.fuzzMinLen, Len(c.fields), LAMBDA k : c.fields[k].fuzzMinLen)
    BY <1>3, <1>5, <1>7, <2>1 DEF AreRests, IsRest
  <2> QED
    BY <2>2, <2>3, <2>4 DEF LensAddUp
<1> QED
  BY <1>3, <1>8 DEF c
==============================================================================
