--------------------------- MODULE VarSeries_proofs ---------------------------
(***************************************************************************)
(* A decoded series of variable-size elements is canonical, for every      *)
(* offset size, scope, limit and sequence of offsets.                      *)
(***************************************************************************)
EXTENDS VarSeries, TLAPS

(***************************************************************************)
(* The strengthening: how far the index is, phase by phase.  The index is  *)
(* the only link between an offset and the bytes decoded for it.           *)
(***************************************************************************)
Phase ==
  /\ pc = "first" => offsets = <<>> /\ ends = <<>> /\ length = 0
  /\ pc = "table" => offsets # <<>> /\ ends = <<>>
  /\ Len(begins) = Len(ends)
  /\ Len(ends) <= Len(offsets)
  /\ status = "running" /\ pc # "elems" => i = W * Len(offsets)
  /\ pc = "elems" => i = IF ends = <<>> THEN W * Len(offsets) ELSE ends[Len(ends)]
  /\ status = "accepted" => pc = "elems" /\ Len(ends) = Len(offsets) /\ i = max

Chain ==
  /\ ends # <<>> => begins[1] = W * Len(offsets)
  /\ \A e \in 1..Len(ends) : begins[e] <= ends[e]
  /\ \A e \in 1..Len(ends) : e < Len(ends) => ends[e] = offsets[e + 1]

IInv == TypeOK /\ ElementsApart /\ LengthBounded /\ Phase /\ Chain

\* The quotient by the offset size.
LEMMA Quotient ==
  ASSUME NEW o \in Nat
  PROVE  /\ o \div W \in Nat
         /\ o % W = 0 => W * (o \div W) = o
  BY WAssumption

LEMMA InitIInv == Init => IInv
  BY WAssumption, MaxScopeAssumption, MaxLengthAssumption
  DEF Init, IInv, TypeOK, ElementsApart, LengthBounded, Phase, Chain

\* A refused series changes nothing that was established; the index may have
\* moved over an offset.
LEMMA FailIInv ==
  ASSUME IInv, NEW index \in 0..max, FailAt(index), pc = "elems" => index = i
  PROVE  IInv'
  BY DEF IInv, FailAt, TypeOK, ElementsApart, LengthBounded, Phase, Chain, ScopeEnd

LEMMA FirstOffsetIInv ==
  ASSUME IInv, status = "running", NEW o \in 0..MaxOffset, FirstOffset(o)
  PROVE  IInv'
  <1>1. i \in 0..max /\ W \in Nat /\ max \in Nat /\ pc = "first"
    BY WAssumption, MaxScopeAssumption DEF IInv, TypeOK, FirstOffset
  <1>2. CASE Fail
    BY <1>2, FailIInv, <1>1 DEF Fail
  <1>3. CASE i + W <= max /\ FailAt(i + W)
    <2>1. i + W \in 0..max
      BY <1>1, <1>3
    <2>2. QED BY <1>1, <1>3, <2>1, FailIInv
  <1>4. CASE ~Fail /\ ~FailAt(i + W)
    <2>1. /\ i + W <= max /\ ValidFirstOffset(o) /\ ~NothingToRead
          /\ i' = i + W /\ length' = o \div W /\ offsets' = <<o>> /\ pc' = "table"
          /\ UNCHANGED <<kind, bound, max, begins, ends, status>>
      BY <1>4 DEF FirstOffset
    <2>2. o \in Nat /\ o \div W \in Nat /\ (o % W = 0 => W * (o \div W) = o)
      BY Quotient, MaxOffsetAssumption
    <2>3. i = 0 /\ ends = <<>> /\ offsets = <<>> /\ Len(begins) = Len(ends)
      BY <1>1, WAssumption DEF IInv, Phase
    <2>4. LengthBounded'
      BY <2>1, <2>2, <1>1 DEF LengthBounded, ValidFirstOffset
    <2>5. TypeOK'
      BY <1>1, <2>1, <2>2 DEF IInv, TypeOK
    <2>6. ElementsApart' /\ Chain'
      BY <2>1, <2>3 DEF ElementsApart, Chain
    <2>7. Phase'
      BY <1>1, <2>1, <2>3, WAssumption DEF Phase
    <2>8. QED BY <2>4, <2>5, <2>6, <2>7 DEF IInv
  <1>5. QED BY <1>2, <1>3, <1>4 DEF FirstOffset

LEMMA NextOffsetIInv ==
  ASSUME IInv, status = "running", NEW o \in 0..MaxOffset, NextOffset(o)
  PROVE  IInv'
  <1>1. i \in 0..max /\ W \in Nat /\ max \in Nat /\ pc = "table"
    BY WAssumption, MaxScopeAssumption DEF IInv, TypeOK, NextOffset
  <1>2. CASE Fail
    BY <1>2, FailIInv, <1>1 DEF Fail
  <1>3. CASE ~Fail
    <2>1. /\ i + W <= max /\ i' = i + W /\ offsets' = Append(offsets, o)
          /\ UNCHANGED <<kind, bound, max, length, begins, ends, pc, status>>
      BY <1>3 DEF NextOffset
    <2>2. /\ offsets \in Seq(0..MaxOffset) /\ ends = <<>> /\ Len(begins) = Len(ends)
          /\ i = W * Len(offsets)
      BY <1>1 DEF IInv, TypeOK, Phase
    <2>3. /\ offsets' \in Seq(0..MaxOffset) /\ Len(offsets') = Len(offsets) + 1
          /\ offsets' # <<>> /\ Len(offsets) \in Nat
      BY <2>1, <2>2
    <2>4. i' = W * Len(offsets')
      BY <1>1, <2>1, <2>2, <2>3
    <2>5. TypeOK'
      BY <1>1, <2>1, <2>3 DEF IInv, TypeOK
    <2>6. ElementsApart' /\ Chain' /\ LengthBounded'
      BY <2>1, <2>2 DEF IInv, ElementsApart, Chain, LengthBounded
    <2>7. Phase'
      BY <1>1, <2>1, <2>2, <2>3, <2>4 DEF Phase
    <2>8. QED BY <2>5, <2>6, <2>7 DEF IInv
  <1>4. QED BY <1>2, <1>3

\* Moving on to the elements.
LEMMA EnterElemsIInv ==
  ASSUME IInv, status = "running", EmptySeries \/ EndOfTable
  PROVE  IInv'
  <1>1. i \in 0..max /\ W \in Nat /\ max \in Nat
    BY WAssumption, MaxScopeAssumption DEF IInv, TypeOK
  <1>2. CASE Fail
    BY <1>1, <1>2, FailIInv DEF Fail
  <1>3. CASE ~Fail
    <2>1. /\ pc # "elems" /\ pc' = "elems"
          /\ UNCHANGED <<kind, bound, max, i, length, offsets, begins, ends, status>>
      BY <1>3 DEF EmptySeries, EndOfTable
    <2>2. LengthBounded'
      <3>1. CASE EmptySeries
        BY <3>1, <1>1, <2>1 DEF IInv, TypeOK, Phase, LengthBounded, EmptySeries, NothingToRead
      <3>2. CASE EndOfTable
        BY <3>2, <2>1 DEF IInv, LengthBounded, EndOfTable
      <3>3. QED BY <3>1, <3>2
    <2>3. TypeOK' /\ ElementsApart' /\ Chain'
      BY <2>1 DEF IInv, TypeOK, ElementsApart, Chain, ScopeEnd
    <2>4. Phase'
      BY <2>1 DEF IInv, TypeOK, Phase
    <2>5. QED BY <2>2, <2>3, <2>4 DEF IInv
  <1>4. QED BY <1>2, <1>3

\* Decoding an element.
LEMMA ElementIInv ==
  ASSUME IInv, status = "running", Element
  PROVE  IInv'
  <1>1. i \in 0..max /\ W \in Nat /\ max \in Nat
    BY WAssumption, MaxScopeAssumption DEF IInv, TypeOK
  <1>2. CASE Fail
    BY <1>1, <1>2, FailIInv DEF Fail
  <1>3. CASE ~Fail
    <2> DEFINE n == Len(ends)
               e == n + 1
    <2>1. /\ offsets \in Seq(0..MaxOffset) /\ ends \in Seq(Nat) /\ begins \in Seq(Nat)
          /\ n \in Nat /\ Len(offsets) \in Nat /\ Len(begins) = n
          /\ MaxOffset \in Nat
      BY MaxOffsetAssumption DEF IInv, TypeOK, Phase
    <2>2. PICK read \in 0..ElemScope(e) :
            /\ pc = "elems" /\ e <= Len(offsets)
            /\ i = offsets[e] /\ ElemScope(e) <= max - i
            /\ i' = i + read
            /\ ends' = Append(ends, i + read)
            /\ begins' = Append(begins, i)
            /\ UNCHANGED <<kind, bound, max, length, offsets, pc, status>>
      BY <1>3 DEF Element, AtOffset, FitsSpan
    <2>3. /\ ElemScope(e) = ScopeEnd(e) - i /\ ScopeEnd(e) \in Nat
          /\ ScopeEnd(e) <= max /\ i + read <= ScopeEnd(e) /\ i + read \in Nat
      <3>1. ScopeEnd(e) \in Nat
        <4>1. CASE e < Len(offsets)
          <5>1. e + 1 \in 1..Len(offsets)
            BY <2>1, <4>1
          <5>2. offsets[e + 1] \in 0..MaxOffset
            BY <2>1, <5>1
          <5>3. QED BY <2>1, <4>1, <5>2 DEF ScopeEnd
        <4>2. CASE ~(e < Len(offsets))
          BY <1>1, <4>2 DEF ScopeEnd
        <4>3. QED BY <4>1, <4>2
      <3>2. ElemScope(e) = ScopeEnd(e) - i
        BY DEF ElemScope, ScopeEnd
      <3>3. QED BY <1>1, <2>2, <3>1, <3>2, SMTT(20)
    <2>4. /\ Len(ends') = e /\ ends'[e] = i + read /\ \A k \in 1..n : ends'[k] = ends[k]
          /\ ends' \in Seq(Nat) /\ ends' # <<>>
      <3>1. i + read \in Nat /\ ends' = Append(ends, i + read)
        BY <2>2, <2>3
      <3>2. QED BY <2>1, <3>1
    <2>5. /\ Len(begins') = e /\ begins'[e] = i /\ \A k \in 1..n : begins'[k] = begins[k]
          /\ begins' \in Seq(Nat)
      <3>1. i \in Nat /\ begins' = Append(begins, i)
        BY <1>1, <2>2
      <3>2. QED BY <2>1, <3>1, SMTT(20)
    <2>6. \A k \in 1..e : k \in 1..n \/ k = e
      BY <2>1
    <2>7. i = IF n = 0 THEN W * Len(offsets) ELSE ends[n]
      BY <2>1, <2>2 DEF IInv, Phase
    <2>8. TypeOK'
      BY <1>1, <2>2, <2>3, <2>4, <2>5 DEF IInv, TypeOK
    <2>9. Phase'
      BY <2>2, <2>4, <2>5 DEF IInv, Phase
    <2>10. W * Len(offsets) <= i
      <3>1. CASE n = 0
        BY <1>1, <2>7, <3>1
      <3>2. CASE n # 0
        <4>1. n \in 1..n
          BY <2>1, <3>2
        <4>2. W * Len(offsets) <= begins[n] /\ begins[n] <= ends[n] /\ ends[n] = i
          BY <2>7, <3>2, <4>1 DEF IInv, ElementsApart, Chain
        <4>3. begins[n] \in Nat /\ W * Len(offsets) \in Nat
          BY <1>1, <2>1, <4>1
        <4>4. QED BY <1>1, <4>2, <4>3
      <3>3. QED BY <3>1, <3>2
    <2>11. ElementsApart'
      <3>1. \A k \in 1..n : /\ begins'[k] = offsets[k] /\ W * Len(offsets) <= begins'[k]
                            /\ ends'[k] <= ScopeEnd(k) /\ ScopeEnd(k) <= max
        BY <2>4, <2>5 DEF IInv, ElementsApart
      <3>2. /\ begins'[e] = offsets[e] /\ W * Len(offsets) <= begins'[e]
            /\ ends'[e] <= ScopeEnd(e) /\ ScopeEnd(e) <= max
        BY <2>2, <2>3, <2>4, <2>5, <2>10
      <3> HIDE DEF n, e
      <3>3. QED BY <2>2, <2>4, <2>6, <3>1, <3>2 DEF ElementsApart, ScopeEnd
    <2>12. Chain'
      <3>1. begins'[1] = W * Len(offsets)
        <4>1. CASE n = 0
          BY <2>5, <2>7, <4>1
        <4>2. CASE n # 0
          <5>1. 1 \in 1..n /\ ends # <<>>
            BY <2>1, <4>2
          <5>2. QED BY <5>1, <2>5 DEF IInv, Chain
        <4>3. QED BY <4>1, <4>2
      <3>2. begins'[e] <= ends'[e]
        BY <1>1, <2>2, <2>3, <2>4, <2>5
      <3>3. \A k \in 1..n : begins'[k] <= ends'[k]
        BY <2>4, <2>5 DEF IInv, Chain
      <3>4. \A k \in 1..n : ends'[k] = offsets[k + 1]
        <4> SUFFICES ASSUME NEW k \in 1..n PROVE ends[k] = offsets[k + 1]
          BY <2>4
        <4>1. CASE k < n
          BY <4>1 DEF IInv, Chain
        <4>2. CASE k = n
          <5>1. n # 0 /\ i = offsets[n + 1]
            BY <2>1, <2>2
          <5>2. QED BY <2>7, <4>2, <5>1
        <4>3. QED BY <2>1, <4>1, <4>2
      <3>5. \A k \in 1..e : k < e => k \in 1..n
        BY <2>1
      <3> HIDE DEF n, e
      <3>6. QED BY <2>2, <2>4, <2>6, <3>1, <3>2, <3>3, <3>4, <3>5 DEF Chain
    <2>13. LengthBounded'
      BY <2>2 DEF IInv, LengthBounded
    <2>14. QED BY <2>8, <2>9, <2>11, <2>12, <2>13 DEF IInv
  <1>4. QED BY <1>2, <1>3

LEMMA NextIInv == IInv /\ [Next]_vars => IInv'
  <1> SUFFICES ASSUME IInv, [Next]_vars PROVE IInv' OBVIOUS
  <1>1. i \in 0..max /\ W \in Nat /\ max \in Nat
    BY WAssumption, MaxScopeAssumption DEF IInv, TypeOK
  <1>2. ASSUME status = "running", EmptySeries \/ EndOfTable PROVE IInv'
    BY <1>2, EnterElemsIInv
  <1>3. ASSUME status = "running", NEW o \in 0..MaxOffset, FirstOffset(o) \/ NextOffset(o)
        PROVE  IInv'
    BY <1>3, FirstOffsetIInv, NextOffsetIInv
  <1>4. ASSUME status = "running", Element PROVE IInv'
    BY <1>4, ElementIInv
  <1>5. ASSUME status = "running", Finish PROVE IInv'
    <2>1. CASE Fail
      BY <1>1, <2>1, FailIInv DEF Fail
    <2>2. CASE ~Fail
      BY <1>5, <2>2 DEF Finish, WholeScope, IInv, TypeOK, ElementsApart, LengthBounded,
                        Phase, Chain, ScopeEnd
    <2>3. QED BY <2>1, <2>2
  <1>6. ASSUME status = "running", ReadFails PROVE IInv'
    <2>1. CASE pc # "elems" /\ i + W <= max /\ FailAt(i + W)
      <3>1. i + W \in 0..max
        BY <1>1, <2>1
      <3>2. QED BY <2>1, <3>1, FailIInv
    <2>2. CASE Fail
      BY <1>1, <2>2, FailIInv DEF Fail
    <2>3. QED BY <1>6, <2>1, <2>2 DEF ReadFails
  <1>7. CASE UNCHANGED vars
    BY <1>7 DEF vars, IInv, TypeOK, ElementsApart, LengthBounded, Phase, Chain, ScopeEnd
  <1>8. QED BY <1>2, <1>3, <1>4, <1>5, <1>6, <1>7 DEF Next, Returned

LEMMA Invariance == Spec => []IInv
  BY InitIInv, NextIInv, PTL DEF Spec

\* Every state has its type.
THEOREM TypeCorrect == Spec => []TypeOK
  <1>1. IInv => TypeOK BY DEF IInv
  <1>2. QED BY <1>1, Invariance, PTL

\* Elements are decoded apart from each other and from the table.
THEOREM Apart == Spec => []ElementsApart
  <1>1. IInv => ElementsApart BY DEF IInv
  <1>2. QED BY <1>1, Invariance, PTL

\* The length a list makes room for is bounded by its limit and by its bytes.
THEOREM RoomBounded == Spec => []LengthBounded
  <1>1. IInv => LengthBounded BY DEF IInv
  <1>2. QED BY <1>1, Invariance, PTL

\* An accepted series is canonical.
THEOREM Canonical == Spec => []Tiled
  <1>1. ASSUME IInv, status = "accepted" PROVE Tiled
    <2> DEFINE n == Len(offsets)
    <2>1. /\ Len(begins) = n /\ Len(ends) = n /\ n \in Nat
          /\ i = max /\ i = IF ends = <<>> THEN W * n ELSE ends[Len(ends)]
          /\ (ends = <<>> <=> n = 0) /\ (offsets = <<>> <=> n = 0)
      BY <1>1 DEF IInv, TypeOK, Phase
    <2>2. CASE n = 0
      BY <2>1, <2>2, WAssumption DEF Tiled
    <2>3. CASE n # 0
      <3>1. 1 \in 1..n /\ n \in 1..n
        BY <2>1, <2>3
      <3>2. offsets[1] = W * n
        BY <1>1, <2>1, <2>3, <3>1 DEF IInv, ElementsApart, Chain
      <3>3. ASSUME NEW e \in 1..n PROVE begins[e] = offsets[e] /\ ends[e] = ScopeEnd(e)
        <4>1. begins[e] = offsets[e]
          BY <1>1, <2>1 DEF IInv, ElementsApart
        <4>2. CASE e < n
          BY <1>1, <2>1, <4>1, <4>2 DEF IInv, Chain, ScopeEnd
        <4>3. CASE e = n
          BY <2>1, <2>3, <4>1, <4>3 DEF ScopeEnd
        <4>4. QED BY <2>1, <4>2, <4>3
      <3>4. QED BY <2>1, <2>3, <3>2, <3>3 DEF Tiled
    <2>4. QED BY <2>2, <2>3
  <1>2. IInv => Tiled
    BY <1>1 DEF Tiled
  <1>3. QED BY <1>2, Invariance, PTL
===============================================================================
