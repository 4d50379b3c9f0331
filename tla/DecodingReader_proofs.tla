------------------------ MODULE DecodingReader_proofs ------------------------
(***************************************************************************)
(* Safety of the nested readers for every integer width, nesting depth and *)
(* length of object and stream.                                            *)
(***************************************************************************)
EXTENDS DecodingReader, Sequences, SequenceTheorems, TLAPS

(***************************************************************************)
(* The strengthening.  The properties say nothing of where a scope starts; *)
(* the bookkeeping does: a nested scope starts where its parent's index    *)
(* stood, and while nothing has failed the innermost index is exactly as   *)
(* far ahead of the stream as the bytes the running call still waits for.  *)
(***************************************************************************)
Bookkeeping ==
  /\ base[1] = 0
  /\ max[1] = bytesLen
  /\ \A k \in 2..top : base[k] = base[k - 1] + idx[k - 1]
  /\ \A k \in 1..top : base[k] <= at
  /\ op = "none" => need = 0
  /\ status = "running" /\ op # "none" => need > 0
  /\ status = "running" => at + need = base[top] + idx[top]

IInv == ~LongSkips /\ TypeOK /\ ScopesNest /\ LimitersAgree /\ Bookkeeping

\* Arithmetic modulo 2^64 is exact on values that fit.
LEMMA WrapExact == ASSUME NEW x \in Uint PROVE Wrap(x) = x
  BY MaxIntAssumption DEF Uint, Wrap, MaxUint

\* The index arithmetic of checkedIndexUpdate never wraps around: an idle reader
\* has handed out no more than the stream holds, an int64.
LEMMA IndexExact ==
  ASSUME IInv, Idle, NEW n \in 1..MaxInt
  PROVE  /\ idx[top] \in Nat
         /\ Wrap(idx[top] + n) = idx[top] + n
  <1>1. /\ at \in Nat /\ at <= MaxInt
        /\ base[top] \in Nat /\ idx[top] \in Nat
        /\ at = base[top] + idx[top]
        /\ MaxInt \in Nat
    BY MaxIntAssumption, DepthAssumption
    DEF IInv, TypeOK, Bookkeeping, Idle, Levels, Uint, MaxUint
  <1>2. idx[top] + n \in Uint
    BY <1>1 DEF Uint, MaxUint
  <1>3. QED BY <1>1, <1>2, WrapExact

\* The numbers the open levels hold.
LEMMA LevelTypes ==
  ASSUME IInv
  PROVE  /\ Depth \in Nat /\ MaxInt \in Nat /\ top \in Nat
         /\ 1 <= top /\ top <= Depth
         /\ at \in Nat /\ need \in Nat
         /\ \A k \in 1..top : k \in Levels
         /\ \A k \in Levels : idx[k] \in Nat /\ max[k] \in Nat /\ base[k] \in Nat /\ lim[k] \in Int
  BY MaxIntAssumption, DepthAssumption DEF IInv, TypeOK, Levels, Uint, MaxUint

\* The reader as Decode sets it up satisfies the invariant.
LEMMA InitIInv == ~LongSkips /\ Init => IInv
  <1> SUFFICES ASSUME ~LongSkips, Init PROVE IInv OBVIOUS
  <1>1. TypeOK
    BY MaxIntAssumption, DepthAssumption
    DEF Init, TypeOK, Levels, Uint, MaxUint, Int64
  <1>2. ScopesNest /\ LimitersAgree /\ Bookkeeping
    BY <1>1, MaxIntAssumption, DepthAssumption
    DEF Init, TypeOK, Levels, Uint, MaxUint, ScopesNest, LimitersAgree, Bookkeeping
  <1>3. QED BY <1>1, <1>2 DEF IInv

\* An error return changes nothing but the status.
LEMMA FailIInv ==
  ASSUME IInv, NEW cause \in {"scope", "io", "length", "accepted"}, Fail(cause)
  PROVE  IInv'
  BY DEF IInv, Fail, TypeOK, ScopesNest, LimitersAgree, Bookkeeping

\* checkedIndexUpdate keeps the invariant.
LEMMA IndexUpdateIInv ==
  ASSUME IInv, Idle, NEW o \in {"Read", "Skip"}, NEW n \in 1..MaxInt,
         checkedIndexUpdate(o, n)
  PROVE  IInv'
  <1> DEFINE v == Wrap(idx[top] + n)
  <1>1. v = idx[top] + n /\ idx[top] \in Nat
    BY IndexExact
  <1>2. CASE Fail("scope")
    BY <1>2, FailIInv
  <1>3. CASE ~Fail("scope")
    <2>1. /\ v <= max[top]
          /\ idx' = [idx EXCEPT ![top] = v]
          /\ op' = o
          /\ need' = n
          /\ UNCHANGED <<bytesLen, streamLen, at, top, max, lim, base, status>>
      BY <1>3 DEF checkedIndexUpdate, FitsScope
    <2> HIDE DEF v
    <2>2. TypeOK'
      BY <1>1, <2>1, MaxIntAssumption DEF IInv, TypeOK, Levels, Uint, MaxUint
    <2>3. ScopesNest' /\ LimitersAgree'
      BY <1>1, <2>1 DEF IInv, TypeOK, ScopesNest, LimitersAgree, Levels
    <2>4. Bookkeeping'
      <3>1. /\ idx'[top] = v
            /\ \A k \in 1..top : k # top => idx'[k] = idx[k]
        BY <2>1, LevelTypes DEF IInv, TypeOK
      <3>2. \A k \in 2..top : k \in 1..top /\ k - 1 \in 1..top /\ k - 1 # top
        BY LevelTypes
      <3>3. \A k \in 2..top : base[k] = base[k - 1] + idx'[k - 1]
        BY <3>1, <3>2 DEF IInv, Bookkeeping
      <3>4. at + n = base[top] + idx'[top]
        BY <1>1, <3>1, LevelTypes DEF IInv, Bookkeeping, Idle
      <3>5. n > 0
        OBVIOUS
      <3>6. QED BY <2>1, <3>3, <3>4, <3>5 DEF IInv, Bookkeeping
    <2>5. QED BY <2>2, <2>3, <2>4 DEF IInv
  <1>4. QED BY <1>2, <1>3

\* Bytes coming from the stream keep the invariant.
LEMMA DeliverIInv ==
  ASSUME IInv, NEW v \in 1..MaxInt, Deliver(v)
  PROVE  IInv'
  <1>1. TypeOK'
    BY MaxIntAssumption DEF IInv, TypeOK, Deliver, Counted, Levels, Uint, MaxUint
  <1>2. ScopesNest'
    BY MaxIntAssumption DEF IInv, TypeOK, ScopesNest, Bookkeeping, Deliver, Levels, Uint, MaxUint
  <1>3. LimitersAgree'
    <2>1. ASSUME NEW k \in 1..top PROVE lim'[k] = Int64(max[k]) - (at' - base[k])
      <3>1. k \in Levels /\ lim'[k] = lim[k] - v /\ at' = at + v
        <4>1. /\ at' = at + v
              /\ lim' = [j \in Levels |-> IF j <= top THEN lim[j] - v ELSE lim[j]]
          BY DEF Deliver, Counted
        <4>2. k \in Levels /\ k <= top
          BY LevelTypes
        <4>3. QED BY <4>1, <4>2
      <3>2. /\ at \in Int /\ base[k] \in Int
            /\ max[k] \in Int /\ MaxInt \in Int
        BY <3>1, MaxIntAssumption DEF IInv, TypeOK, Uint, MaxUint
      <3>3. lim[k] = Int64(max[k]) - (at - base[k])
        BY DEF IInv, LimitersAgree
      <3>4. QED BY <3>1, <3>2, <3>3 DEF Int64, MaxUint
    <2>2. UNCHANGED <<top, max, base>>
      BY DEF Deliver
    <2>3. QED BY <2>1, <2>2 DEF LimitersAgree
  <1>4. Bookkeeping'
    <2>1. /\ at' = at + v /\ need' = need - v /\ v <= need
          /\ status = "running" /\ op # "none"
          /\ UNCHANGED <<bytesLen, top, idx, max, base>>
      BY DEF Deliver
    <2>2. \A k \in 1..top : base[k] <= at'
      BY <2>1, LevelTypes DEF IInv, Bookkeeping
    <2>3. op' = "none" => need' = 0
      <3>1. CASE op' = IF need' = 0 THEN "none" ELSE op
        BY <3>1, <2>1
      <3>2. CASE IF Survives(op, need') THEN op' = "none" ELSE op' = op
        BY <3>2, <2>1 DEF Survives
      <3>3. QED BY <3>1, <3>2 DEF Deliver
    <2>4. at' + need' = base[top] + idx[top]
      BY <2>1, LevelTypes DEF IInv, Bookkeeping
    <2>5. status' = "running" /\ op' # "none" => need' > 0
      <3>1. need' = 0 \/ need' > 0
        BY <2>1, LevelTypes
      <3>2. CASE op' = IF need' = 0 THEN "none" ELSE op
        BY <3>1, <3>2
      <3>3. CASE IF Survives(op, need') THEN op' = "none" ELSE status' = "io"
        BY <3>3
      <3>4. QED BY <3>2, <3>3 DEF Deliver
    <2>6. QED BY <2>1, <2>2, <2>3, <2>4, <2>5 DEF IInv, Bookkeeping
  <1>5. QED BY <1>1, <1>2, <1>3, <1>4 DEF IInv

\* Opening a nested scope keeps the invariant.
LEMMA ScopeIInv ==
  ASSUME IInv, NEW count \in Uint, Scope(count)
  PROVE  IInv'
  <1>1. CASE Fail("scope")
    BY <1>1, FailIInv
  <1>2. CASE ~Fail("scope")
    <2>1. /\ Idle
          /\ top < Depth
          /\ count <= max[top] - idx[top]
          /\ top' = top + 1
          /\ idx' = [idx EXCEPT ![top + 1] = 0]
          /\ max' = [max EXCEPT ![top + 1] = count]
          /\ lim' = [lim EXCEPT ![top + 1] = Int64(count)]
          /\ base' = [base EXCEPT ![top + 1] = base[top] + idx[top]]
          /\ UNCHANGED <<bytesLen, streamLen, at, op, need, status>>
      <3>1. GetBytesSpan >= count
        BY <1>2 DEF Scope
      <3>2. max[top] - idx[top] \in Int /\ count \in Int
        BY MaxIntAssumption DEF IInv, TypeOK, Levels, Uint, MaxUint
      <3>3. QED BY <1>2, <3>1, <3>2 DEF Scope, GetBytesSpan
    <2>2. /\ top \in Levels /\ top + 1 \in Levels
          /\ base[top] \in Nat /\ idx[top] \in Nat /\ max[top] \in Nat
          /\ at \in Nat /\ at = base[top] + idx[top]
          /\ count \in Nat /\ Int64(count) \in Int
      BY <2>1, MaxIntAssumption, DepthAssumption
      DEF IInv, TypeOK, Bookkeeping, Levels, Uint, MaxUint, Idle, Int64
    <2>3. TypeOK'
      BY <2>1, <2>2, MaxIntAssumption DEF IInv, TypeOK, Levels, Uint, MaxUint
    <2>4. ScopesNest'
      <3>1. \A k \in 1..top : /\ idx'[k] = idx[k]
                              /\ max'[k] = max[k]
                              /\ base'[k] = base[k]
                              /\ idx[k] \in Nat /\ max[k] \in Nat /\ base[k] \in Nat
        BY <2>1, LevelTypes DEF IInv, TypeOK
      <3>2. /\ idx'[top + 1] = 0
            /\ max'[top + 1] = count
            /\ base'[top + 1] = base[top] + idx[top]
        BY <2>1, <2>2 DEF IInv, TypeOK
      <3>3. \A k \in 1..(top + 1) : k \in 1..top \/ k = top + 1
        BY <2>2 DEF Levels
      <3>4. \A k \in 1..top' : idx'[k] <= max'[k]
        BY <2>1, <2>2, <3>1, <3>2, <3>3 DEF IInv, ScopesNest
      <3>5. \A j \in 1..top : base[top] + max[top] <= base[j] + max[j]
        BY <2>2 DEF IInv, ScopesNest, Levels
      <3>6. \A j \in 1..top : base'[top + 1] + max'[top + 1] <= base'[j] + max'[j]
        BY <2>1, <2>2, <3>1, <3>2, <3>5
      <3>7. \A j, k \in 1..top' : j <= k => base'[k] + max'[k] <= base'[j] + max'[j]
        <4> SUFFICES ASSUME NEW j \in 1..(top + 1), NEW k \in 1..(top + 1), j <= k
                     PROVE  base'[k] + max'[k] <= base'[j] + max'[j]
          BY <2>1
        <4>1. CASE k \in 1..top
          BY <4>1, <2>2, <3>1 DEF IInv, ScopesNest, Levels
        <4>2. CASE k = top + 1 /\ j \in 1..top
          BY <4>2, <3>6
        <4>3. CASE k = top + 1 /\ j = top + 1
          BY <4>3, <2>2, <3>2
        <4>4. QED BY <4>1, <4>2, <4>3, <3>3
      <3>8. at' <= base'[top'] + max'[top']
        BY <2>1, <2>2, <3>2
      <3>9. QED BY <3>4, <3>7, <3>8 DEF ScopesNest
    <2>5. LimitersAgree'
      <3>1. \A k \in 1..top : lim'[k] = lim[k] /\ max'[k] = max[k] /\ base'[k] = base[k]
        BY <2>1, <2>2 DEF IInv, TypeOK, Levels
      <3>2. /\ lim'[top + 1] = Int64(count)
            /\ max'[top + 1] = count
            /\ base'[top + 1] = at
        BY <2>1, <2>2 DEF IInv, TypeOK
      <3>3. at - at = 0 /\ Int64(count) - 0 = Int64(count)
        BY <2>2
      <3>4. \A k \in 1..(top + 1) : k \in 1..top \/ k = top + 1
        BY <2>2 DEF Levels
      <3>5. \A k \in 1..top : lim'[k] = Int64(max'[k]) - (at' - base'[k])
        BY <2>1, <3>1 DEF IInv, LimitersAgree
      <3>6. lim'[top + 1] = Int64(max'[top + 1]) - (at' - base'[top + 1])
        BY <2>1, <3>2, <3>3
      <3>7. QED BY <2>1, <3>4, <3>5, <3>6 DEF LimitersAgree
    <2>6. Bookkeeping'
      BY <2>1, <2>2, SMTT(20) DEF IInv, TypeOK, Bookkeeping, Levels, Idle
    <2>7. QED BY <2>3, <2>4, <2>5, <2>6 DEF IInv
  <1>3. QED BY <1>1, <1>2

\* The sum of UpdateIndexFromScoped does not wrap around: the nested scope lies
\* inside its parent.
LEMMA IndexSum ==
  ASSUME IInv, UpdateIndexFromScoped
  PROVE  /\ idx[top - 1] + idx[top] <= max[top - 1]
         /\ idx[top - 1] + idx[top] \in Uint
         /\ IndexWithScoped = idx[top - 1] + idx[top]
  <1>1. /\ top \in Nat /\ top > 1 /\ top - 1 \in 1..top /\ top - 1 \in 1..(top - 1)
        /\ top \in 2..top /\ top \in 1..top /\ 1 \in 1..top
        /\ \A k \in 1..top : k \in Levels
    BY LevelTypes DEF UpdateIndexFromScoped
  <1>2. /\ base[top] = base[top - 1] + idx[top - 1]
        /\ base[top] + max[top] <= base[top - 1] + max[top - 1]
        /\ idx[top] <= max[top]
        /\ at + need = base[top] + idx[top] /\ need = 0
    <2>1. base[top] = base[top - 1] + idx[top - 1]
      BY <1>1 DEF IInv, Bookkeeping
    <2>2. top - 1 <= top
      BY <1>1
    <2>3. base[top] + max[top] <= base[top - 1] + max[top - 1] /\ idx[top] <= max[top]
      BY <1>1, <2>2 DEF IInv, ScopesNest
    <2>4. at + need = base[top] + idx[top] /\ need = 0
      BY DEF IInv, Bookkeeping, UpdateIndexFromScoped, Idle
    <2>5. QED BY <2>1, <2>3, <2>4
  <1>3. /\ idx[top - 1] \in Nat /\ idx[top] \in Nat /\ max[top - 1] \in Uint /\ max[top] \in Nat
        /\ base[top - 1] \in Nat /\ base[top] \in Nat /\ at \in Nat
    BY <1>1, LevelTypes DEF IInv, TypeOK
  <1>4. idx[top - 1] + idx[top] <= max[top - 1] /\ idx[top - 1] + idx[top] \in Uint
    BY <1>2, <1>3, MaxIntAssumption DEF Uint, MaxUint
  <1>5. QED BY <1>4, WrapExact DEF IndexWithScoped

\* Closing a nested scope keeps the invariant: the parent's index moves to where
\* the nested reader stopped.
LEMMA UpdateIndexIInv ==
  ASSUME IInv, UpdateIndexFromScoped
  PROVE  IInv'
  <1>1. /\ top \in Nat /\ top > 1 /\ top - 1 \in 1..top /\ top - 1 \in 1..(top - 1)
        /\ top \in 2..top /\ top \in 1..top /\ 1 \in 1..top
        /\ \A k \in 1..top : k \in Levels
    BY LevelTypes DEF UpdateIndexFromScoped
  <1>2. /\ base[top] = base[top - 1] + idx[top - 1]
        /\ base[top] + max[top] <= base[top - 1] + max[top - 1]
        /\ idx[top] <= max[top]
        /\ at + need = base[top] + idx[top] /\ need = 0
    <2>1. base[top] = base[top - 1] + idx[top - 1]
      BY <1>1 DEF IInv, Bookkeeping
    <2>2. top - 1 <= top
      BY <1>1
    <2>3. base[top] + max[top] <= base[top - 1] + max[top - 1] /\ idx[top] <= max[top]
      BY <1>1, <2>2 DEF IInv, ScopesNest
    <2>4. at + need = base[top] + idx[top] /\ need = 0
      BY DEF IInv, Bookkeeping, UpdateIndexFromScoped, Idle
    <2>5. QED BY <2>1, <2>3, <2>4
  <1>3. /\ idx[top - 1] \in Nat /\ idx[top] \in Nat /\ max[top - 1] \in Uint /\ max[top] \in Nat
        /\ base[top - 1] \in Nat /\ base[top] \in Nat /\ at \in Nat
    BY <1>1, LevelTypes DEF IInv, TypeOK
  <1>4. /\ idx[top - 1] + idx[top] <= max[top - 1]
        /\ idx[top - 1] + idx[top] \in Uint
        /\ IndexWithScoped = idx[top - 1] + idx[top]
    BY IndexSum
  <1> DEFINE sum == idx[top - 1] + idx[top]
  <1>5. /\ top' = top - 1
        /\ idx' = [idx EXCEPT ![top - 1] = sum, ![top] = 0]
        /\ max' = [max EXCEPT ![top] = 0]
        /\ lim' = [lim EXCEPT ![top] = 0]
        /\ base' = [base EXCEPT ![top] = 0]
        /\ UNCHANGED <<bytesLen, streamLen, at, op, need, status>>
    BY <1>4 DEF UpdateIndexFromScoped
  <1>6. TypeOK'
    <2>1. sum \in Uint /\ 0 \in Uint /\ top - 1 \in Levels
      BY <1>1, <1>4, MaxIntAssumption DEF Uint, MaxUint
    <2> HIDE DEF sum
    <2>2. idx' \in [Levels -> Uint] /\ max' \in [Levels -> Uint]
      BY <1>5, <2>1 DEF IInv, TypeOK
    <2>3. lim' \in [Levels -> Int] /\ base' \in [Levels -> Nat]
      BY <1>5 DEF IInv, TypeOK
    <2>4. QED BY <1>5, <2>1, <2>2, <2>3 DEF IInv, TypeOK
  <1>7. \A k \in 1..(top - 1) : /\ k \in 1..top /\ k \in Levels
                                /\ max'[k] = max[k] /\ lim'[k] = lim[k] /\ base'[k] = base[k]
                                /\ k # top - 1 => idx'[k] = idx[k]
    <2> SUFFICES ASSUME NEW k \in 1..(top - 1)
                 PROVE  /\ k \in 1..top /\ k \in Levels
                        /\ max'[k] = max[k] /\ lim'[k] = lim[k] /\ base'[k] = base[k]
                        /\ k # top - 1 => idx'[k] = idx[k]
      OBVIOUS
    <2>1. k \in 1..top /\ k # top
      BY <1>1
    <2>2. k \in Levels
      BY <2>1, <1>1
    <2> HIDE DEF sum
    <2>3. QED BY <1>5, <2>1, <2>2 DEF IInv, TypeOK
  <1>8. idx'[top - 1] = sum
    <2>1. top - 1 \in Levels /\ top - 1 # top
      BY <1>1
    <2> HIDE DEF sum
    <2>2. QED BY <1>5, <2>1 DEF IInv, TypeOK
  <1>9. ScopesNest'
    <2>1. \A k \in 1..(top - 1) : idx'[k] <= max'[k]
      BY <1>1, <1>4, <1>7, <1>8 DEF IInv, ScopesNest
    <2>2. \A j, k \in 1..(top - 1) : j <= k => base'[k] + max'[k] <= base'[j] + max'[j]
      BY <1>7 DEF IInv, ScopesNest
    <2>3. at <= base'[top - 1] + max'[top - 1]
      <3>1. base'[top - 1] = base[top - 1] /\ max'[top - 1] = max[top - 1]
        BY <1>1, <1>7
      <3>2. at <= base[top - 1] + max[top - 1]
        BY <1>2, <1>3, MaxIntAssumption DEF Uint, MaxUint
      <3>3. QED BY <3>1, <3>2
    <2>4. QED BY <1>5, <2>1, <2>2, <2>3 DEF ScopesNest
  <1>10. LimitersAgree'
    BY <1>5, <1>7 DEF IInv, LimitersAgree
  <1>11. Bookkeeping'
    <2>1. base'[1] = 0 /\ max'[1] = bytesLen
      BY <1>1, <1>7 DEF IInv, Bookkeeping
    <2>2. \A k \in 2..(top - 1) : base'[k] = base'[k - 1] + idx'[k - 1]
      <3> SUFFICES ASSUME NEW k \in 2..(top - 1)
                   PROVE  base'[k] = base'[k - 1] + idx'[k - 1]
        OBVIOUS
      <3>1. /\ k \in 1..(top - 1) /\ k - 1 \in 1..(top - 1) /\ k - 1 # top - 1
            /\ k \in 2..top
        BY <1>1
      <3>2. QED BY <3>1, <1>7 DEF IInv, Bookkeeping
    <2>3. \A k \in 1..(top - 1) : base'[k] <= at
      BY <1>7 DEF IInv, Bookkeeping
    <2>4. at + need = base'[top - 1] + idx'[top - 1]
      BY <1>1, <1>2, <1>3, <1>7, <1>8
    <2>5. QED BY <1>5, <2>1, <2>2, <2>3, <2>4 DEF IInv, Bookkeeping
  <1>12. QED BY <1>6, <1>9, <1>10, <1>11 DEF IInv

\* Every step keeps the invariant.
LEMMA NextIInv == IInv /\ [Next]_vars => IInv'
  <1> SUFFICES ASSUME IInv, [Next]_vars PROVE IInv' OBVIOUS
  <1>1. ASSUME NEW n \in 1..MaxInt, Read(n) \/ Skip(n) PROVE IInv'
    BY <1>1, IndexUpdateIInv DEF Read, Skip
  <1>2. ASSUME NEW count \in Uint, Scope(count) PROVE IInv'
    BY <1>2, ScopeIInv
  <1>3. CASE UpdateIndexFromScoped \/ LongSkip
    BY <1>3, UpdateIndexIInv DEF LongSkip, IInv
  <1>4. CASE Finish
    BY <1>4, FailIInv DEF Finish
  <1>5. CASE Stream
    BY <1>5, FailIInv, DeliverIInv DEF Stream, DeliverEOF
  <1>6. CASE UNCHANGED vars
    BY <1>6 DEF vars, IInv, TypeOK, ScopesNest, LimitersAgree, Bookkeeping
  <1>7. QED BY <1>1, <1>2, <1>3, <1>4, <1>5, <1>6 DEF Next

LEMMA Invariance ==
  ASSUME ~LongSkips PROVE Spec => []IInv
  BY InitIInv, NextIInv, PTL DEF Spec

\* Every state of the reader has its type.
THEOREM TypeCorrect ==
  ASSUME ~LongSkips PROVE Spec => []TypeOK
  <1>1. IInv => TypeOK BY DEF IInv
  <1>2. QED BY <1>1, Invariance, PTL

\* No decoder leaves the scope its parent gave it.
THEOREM Nesting ==
  ASSUME ~LongSkips PROVE Spec => []ScopesNest
  <1>1. IInv => ScopesNest BY DEF IInv
  <1>2. QED BY <1>1, Invariance, PTL

\* The LimitReaders and the DecodingReaders count the same bytes.
THEOREM Agreement ==
  ASSUME ~LongSkips PROVE Spec => []LimitersAgree
  <1>1. IInv => LimitersAgree BY DEF IInv
  <1>2. QED BY <1>1, Invariance, PTL

\* Decode and DryCheck accept only after exactly the announced bytes were taken:
\* when the outermost reader is idle and alone, its index is the position in the
\* stream.
THEOREM Exactness ==
  ASSUME ~LongSkips PROVE Spec => []AcceptedExactly
  <1>1. Init => AcceptedExactly
    BY DEF Init, AcceptedExactly
  <1>2. IInv /\ AcceptedExactly /\ [Next]_vars => AcceptedExactly'
    <2> SUFFICES ASSUME IInv, AcceptedExactly, [Next]_vars PROVE AcceptedExactly'
      OBVIOUS
    <2>1. CASE Finish
      <3>1. top = 1 /\ at' = at /\ bytesLen' = bytesLen /\ (status' = "accepted" => idx[1] = bytesLen)
        BY <2>1 DEF Finish, Fail, ReadAll
      <3>2. at = idx[1]
        BY <2>1, <3>1, LevelTypes DEF Finish, Idle, IInv, Bookkeeping
      <3>3. QED BY <3>1, <3>2 DEF AcceptedExactly
    <2>2. CASE UNCHANGED vars
      BY <2>2 DEF vars, AcceptedExactly
    <2>3. CASE Next /\ ~Finish
      <3>1. status' # "accepted"
        BY <2>3 DEF Next, Read, Skip, checkedIndexUpdate, Scope, UpdateIndexFromScoped,
                    Stream, DeliverEOF, Deliver, Fail, Idle, LongSkip
      <3>2. QED BY <3>1 DEF AcceptedExactly
    <2>4. QED BY <2>1, <2>2, <2>3
  <1>3. QED BY <1>1, <1>2, Invariance, PTL DEF Spec

(***************************************************************************)
(* Why a call fails.  A call that still waits for bytes waits for bytes of *)
(* the announced object; the stream ends before them, or the object is     *)
(* longer than the int64 an io.LimitReader counts with.                    *)
(***************************************************************************)
LEMMA WaitsInside ==
  ASSUME IInv, status = "running"
  PROVE  \A k \in 1..top : /\ at + need <= base[k] + max[k]
                          /\ base[k] + max[k] <= bytesLen
  <1>1. top \in 1..top /\ 1 \in 1..top /\ bytesLen \in Nat
    BY LevelTypes, MaxIntAssumption DEF IInv, TypeOK, Uint, MaxUint
  <1>2. at + need <= base[top] + max[top]
    BY <1>1, LevelTypes DEF IInv, Bookkeeping, ScopesNest
  <1> SUFFICES ASSUME NEW k \in 1..top
               PROVE  at + need <= base[k] + max[k] /\ base[k] + max[k] <= bytesLen
    OBVIOUS
  <1>3. k <= top /\ 1 <= k
    BY LevelTypes
  <1>4. base[top] + max[top] <= base[k] + max[k] /\ base[k] + max[k] <= base[1] + max[1]
    BY <1>1, <1>3 DEF IInv, ScopesNest
  <1>5. QED BY <1>1, <1>2, <1>4, LevelTypes DEF IInv, Bookkeeping

ShortUnlessEOF ==
  status = "io" /\ (op = "Skip" \/ ~EOFWithData) => streamLen < bytesLen

LEMMA EOFIsShort ==
  ASSUME IInv, DeliverEOF
  PROVE  streamLen < bytesLen
  <1>1. /\ need > 0 /\ status = "running" /\ streamLen \in Nat /\ streamLen <= MaxInt
        /\ bytesLen \in Nat /\ 1 \in 1..top
    BY LevelTypes, MaxIntAssumption DEF DeliverEOF, IInv, TypeOK, Bookkeeping, Uint, MaxUint
  <1>2. at + need <= bytesLen
    BY <1>1, WaitsInside, LevelTypes
  <1>3. CASE at = streamLen
    BY <1>1, <1>2, <1>3, LevelTypes
  <1>4. ASSUME NEW k \in 1..top, lim[k] <= 0 PROVE streamLen < bytesLen
    <2>1. /\ max[k] \in Nat /\ base[k] \in Nat /\ at \in Nat /\ need \in Nat
          /\ MaxInt \in Nat
      BY LevelTypes
    <2>2. at + need <= base[k] + max[k] /\ base[k] + max[k] <= bytesLen
      BY <1>1, WaitsInside
    <2>3. Int64(max[k]) - (at - base[k]) <= 0
      BY <1>4 DEF IInv, LimitersAgree
    <2>4. CASE max[k] > MaxInt
      BY <1>1, <2>1, <2>2, <2>4
    <2>5. CASE ~(max[k] > MaxInt)
      BY <1>1, <2>1, <2>2, <2>3, <2>5 DEF Int64
    <2>6. QED BY <2>4, <2>5
  <1>5. QED BY <1>3, <1>4 DEF DeliverEOF, AtEOF

LEMMA ShortStep == IInv /\ ShortUnlessEOF /\ [Next]_vars => ShortUnlessEOF'
  <1> SUFFICES ASSUME IInv, ShortUnlessEOF, [Next]_vars PROVE ShortUnlessEOF'
    OBVIOUS
  <1>1. CASE DeliverEOF
    BY <1>1, EOFIsShort DEF DeliverEOF, Fail, ShortUnlessEOF
  <1>2. ASSUME NEW v \in 1..MaxInt, Deliver(v) PROVE ShortUnlessEOF'
    <2>1. /\ status = "running" /\ at' = at + v /\ need' = need - v /\ v <= need
          /\ UNCHANGED <<bytesLen, streamLen>>
      BY <1>2 DEF Deliver
    <2>2. at + need <= bytesLen /\ bytesLen \in Nat /\ streamLen \in Nat
      BY <2>1, WaitsInside, LevelTypes, MaxIntAssumption DEF IInv, TypeOK, Uint, MaxUint
    <2>3. CASE status' = status
      BY <2>1, <2>3 DEF ShortUnlessEOF
    <2>4. CASE EOFWithData /\ at' = streamLen /\ ~Survives(op, need') /\ op' = op
      <3>1. op = "Skip" => need' > 0
        BY <2>1, <2>4, LevelTypes DEF Survives
      <3>2. op = "Skip" => streamLen < bytesLen
        BY <2>1, <2>2, <2>4, <3>1, LevelTypes
      <3>3. QED BY <2>1, <2>4, <3>2 DEF ShortUnlessEOF
    <2>5. QED BY <1>2, <2>3, <2>4 DEF Deliver
  <1>3. CASE UNCHANGED vars
    BY <1>3 DEF vars, ShortUnlessEOF
  <1>4. ASSUME NEW n \in 1..MaxInt, Read(n) \/ Skip(n) PROVE ShortUnlessEOF'
    BY <1>4 DEF Read, Skip, checkedIndexUpdate, Fail, Idle, ShortUnlessEOF
  <1>5. ASSUME NEW count \in Uint, Scope(count) PROVE ShortUnlessEOF'
    BY <1>5 DEF Scope, Fail, Idle, ShortUnlessEOF
  <1>6. CASE UpdateIndexFromScoped \/ LongSkip \/ Finish
    BY <1>6 DEF UpdateIndexFromScoped, LongSkip, Finish, Fail, Idle, ShortUnlessEOF
  <1>7. QED BY <1>1, <1>2, <1>3, <1>4, <1>5, <1>6 DEF Next, Stream

\* On a stream that reports its end on its own, an input error of Decode or
\* DryCheck means that bytes are missing.
THEOREM ShortOnly ==
  ASSUME ~LongSkips, ~EOFWithData PROVE Spec => []FailsOnlyIfShort
  <1>1. Init => ShortUnlessEOF
    BY DEF Init, ShortUnlessEOF
  <1>2. ShortUnlessEOF => FailsOnlyIfShort
    BY DEF ShortUnlessEOF, FailsOnlyIfShort
  <1>3. QED BY <1>1, <1>2, ShortStep, Invariance, PTL DEF Spec

\* On any stream, a Skip that fails with an input error missed bytes.
THEOREM SkipShortOnly ==
  ASSUME ~LongSkips PROVE Spec => []SkipFailsOnlyIfShort
  <1>1. Init => ShortUnlessEOF
    BY DEF Init, ShortUnlessEOF
  <1>2. ShortUnlessEOF => SkipFailsOnlyIfShort
    BY DEF ShortUnlessEOF, SkipFailsOnlyIfShort
  <1>3. QED BY <1>1, <1>2, ShortStep, Invariance, PTL DEF Spec

(***************************************************************************)
(* The single cursor.                                                      *)
(***************************************************************************)
Spans == [k \in 1..top |-> <<base[k], base[k] + max[k]>>]

LEMMA SpansSeq ==
  ASSUME IInv
  PROVE  /\ Spans \in Seq(Nat \X Nat)
         /\ Len(Spans) = top
         /\ Spans[Len(Spans)][2] = base[top] + max[top]
  <1>1. \A k \in 1..top : <<base[k], base[k] + max[k]>> \in Nat \X Nat
    BY LevelTypes
  <1>2. top \in Nat /\ top \in 1..top
    BY LevelTypes
  <1>3. Spans \in Seq(Nat \X Nat) /\ Len(Spans) = top
    BY <1>1, <1>2 DEF Spans
  <1>4. QED BY <1>2, <1>3 DEF Spans

\* A cursor step for a call that checkedIndexUpdate lets through.
LEMMA AdvanceStep ==
  ASSUME IInv, Idle, NEW o, NEW n \in 1..MaxInt, checkedIndexUpdate(o, n), ~Fail("scope")
  PROVE  Cursor!Next
  <1>1. Wrap(idx[top] + n) = idx[top] + n /\ idx[top] \in Nat
    BY IndexExact
  <1>2. /\ idx[top] + n <= max[top]
        /\ idx' = [idx EXCEPT ![top] = idx[top] + n]
        /\ UNCHANGED <<bytesLen, top, max, base, status>>
    BY <1>1 DEF checkedIndexUpdate, FitsScope
  <1>3. /\ top \in 1..top /\ base[top] \in Nat /\ max[top] \in Nat
        /\ idx'[top] = idx[top] + n
    BY <1>2, LevelTypes DEF IInv, TypeOK
  <1>4. base[top] + max[top] <= bytesLen /\ bytesLen \in Nat
    BY <1>3, WaitsInside, MaxIntAssumption DEF Idle, IInv, TypeOK, Uint, MaxUint
  <1>5. n \in 0..bytesLen
    BY <1>1, <1>2, <1>3, <1>4
  <1>6. base'[top'] + idx'[top'] = base[top] + idx[top] + n
    BY <1>1, <1>2, <1>3
  <1>7. Spans' = Spans
    BY <1>2 DEF Spans
  <1>8. Cursor!Advance(n)
    BY <1>1, <1>2, <1>3, <1>6, <1>7, SpansSeq, SMTT(20) DEF Cursor!Advance, Cursor!Innermost, Idle, Spans
  <1>9. QED BY <1>5, <1>8 DEF Cursor!Next

\* Opening a scope opens an interval at the cursor.
LEMMA OpenStep ==
  ASSUME IInv, NEW count \in Uint, Scope(count), ~Fail("scope")
  PROVE  Cursor!Next
  <1>1. /\ Idle /\ top < Depth
        /\ max[top] - idx[top] >= count
        /\ top' = top + 1
        /\ idx' = [idx EXCEPT ![top + 1] = 0]
        /\ max' = [max EXCEPT ![top + 1] = count]
        /\ base' = [base EXCEPT ![top + 1] = base[top] + idx[top]]
        /\ UNCHANGED <<bytesLen, status>>
    BY DEF Scope, GetBytesSpan
  <1>2. /\ top \in Nat /\ top \in 1..top /\ top + 1 \in Levels
        /\ base[top] \in Nat /\ max[top] \in Nat /\ idx[top] \in Nat /\ count \in Nat
    BY <1>1, LevelTypes, MaxIntAssumption DEF Levels, Uint, MaxUint
  <1>3. base[top] + max[top] <= bytesLen /\ bytesLen \in Nat
    BY <1>1, <1>2, WaitsInside, MaxIntAssumption DEF Idle, IInv, TypeOK, Uint, MaxUint
  <1>4. count \in 0..bytesLen /\ base[top] + idx[top] + count <= base[top] + max[top]
    BY <1>1, <1>2, <1>3
  <1>5. /\ idx'[top + 1] = 0
        /\ max'[top + 1] = count
        /\ base'[top + 1] = base[top] + idx[top]
        /\ \A k \in 1..top : k # top + 1 /\ base'[k] = base[k] /\ max'[k] = max[k]
    BY <1>1, <1>2, LevelTypes DEF IInv, TypeOK
  <1>6. base'[top'] + idx'[top'] = base[top] + idx[top]
    BY <1>1, <1>2, <1>5
  <1>7. Spans' = Append(Spans, <<base[top] + idx[top], base[top] + idx[top] + count>>)
    <2> DEFINE new == <<base[top] + idx[top], base[top] + idx[top] + count>>
               t   == Append(Spans, new)
    <2>1. /\ new \in Nat \X Nat
          /\ t \in Seq(Nat \X Nat) /\ Len(t) = top + 1
          /\ \A k \in 1..top : t[k] = Spans[k]
          /\ t[top + 1] = new
      <3>1. new \in Nat \X Nat
        BY <1>2
      <3> HIDE DEF new
      <3>2. QED BY <3>1, SpansSeq, AppendProperties
    <2>2. Spans' = [k \in 1..(top + 1) |-> <<base'[k], base'[k] + max'[k]>>]
      BY <1>1 DEF Spans
    <2>3. \A k \in 1..(top + 1) : <<base'[k], base'[k] + max'[k]>> = t[k]
      <3> SUFFICES ASSUME NEW k \in 1..(top + 1) PROVE <<base'[k], base'[k] + max'[k]>> = t[k]
        OBVIOUS
      <3>1. CASE k \in 1..top
        BY <1>5, <2>1, <3>1 DEF Spans
      <3>2. CASE k = top + 1
        BY <1>5, <2>1, <3>2
      <3>3. k \in 1..top \/ k = top + 1
        BY <1>2
      <3>4. QED BY <3>1, <3>2, <3>3
    <2> HIDE DEF t
    <2>4. t = [k \in 1..(top + 1) |-> t[k]]
      BY <2>1
    <2>5. QED BY <2>2, <2>3, <2>4 DEF t
  <1>8. Cursor!Open(count)
    BY <1>1, <1>4, <1>6, <1>7, SpansSeq DEF Cursor!Open, Cursor!Innermost, Idle, Spans
  <1>9. QED BY <1>4, <1>8 DEF Cursor!Next

\* Closing a scope drops the interval and leaves the cursor where it is.
LEMMA CloseStep ==
  ASSUME IInv, UpdateIndexFromScoped
  PROVE  Cursor!Next
  <1>1. /\ Idle /\ top > 1 /\ top' = top - 1
        /\ idx' = [idx EXCEPT ![top - 1] = IndexWithScoped, ![top] = 0]
        /\ max' = [max EXCEPT ![top] = 0]
        /\ base' = [base EXCEPT ![top] = 0]
        /\ UNCHANGED <<bytesLen, status>>
    BY DEF UpdateIndexFromScoped
  <1>2. /\ top \in Nat /\ top - 1 \in Levels /\ top \in Levels /\ top \in 2..top
        /\ top - 1 # top
        /\ \A k \in 1..(top - 1) : k \in Levels /\ k # top
    BY <1>1, LevelTypes DEF Levels
  <1>3. IndexWithScoped = idx[top - 1] + idx[top]
    BY IndexSum
  <1>4. /\ base[top] = base[top - 1] + idx[top - 1]
        /\ idx[top - 1] \in Nat /\ idx[top] \in Nat /\ base[top - 1] \in Nat
    BY <1>2, LevelTypes DEF IInv, Bookkeeping
  <1>5. /\ idx'[top - 1] = idx[top - 1] + idx[top]
        /\ base'[top - 1] = base[top - 1]
    BY <1>1, <1>2, <1>3 DEF IInv, TypeOK
  <1>6. base'[top'] + idx'[top'] = base[top] + idx[top]
    BY <1>1, <1>4, <1>5
  <1>7. Spans' = SubSeq(Spans, 1, Len(Spans) - 1)
    <2>1. \A k \in 1..(top - 1) : base'[k] = base[k] /\ max'[k] = max[k] /\ k \in 1..top
      BY <1>1, <1>2 DEF IInv, TypeOK
    <2>2. Spans' = [k \in 1..(top - 1) |-> <<base[k], base[k] + max[k]>>]
      BY <1>1, <2>1 DEF Spans
    <2>3. SubSeq(Spans, 1, Len(Spans) - 1) = [k \in 1..(top - 1) |-> Spans[k]]
      BY <1>1, <1>2, SpansSeq
    <2>4. QED BY <2>1, <2>2, <2>3 DEF Spans
  <1>8. Cursor!Close
    BY <1>1, <1>6, <1>7, SpansSeq DEF Cursor!Close, Idle, Spans
  <1>9. QED BY <1>8 DEF Cursor!Next

\* Every step of the readers is a step of the cursor or leaves it alone.
LEMMA RefinementStep == IInv /\ [Next]_vars => [Cursor!Next]_(Cursor!vars)
  <1> SUFFICES ASSUME IInv, [Next]_vars PROVE [Cursor!Next]_(Cursor!vars)
    OBVIOUS
  <1>1. ASSUME NEW cause \in {"scope", "io", "length"}, Fail(cause), status = "running"
        PROVE  Cursor!Next
    BY <1>1 DEF Fail, Cursor!Next, Cursor!Fail
  <1>2. ASSUME NEW n \in 1..MaxInt, Read(n) \/ Skip(n) PROVE Cursor!Next
    BY <1>1, <1>2, AdvanceStep DEF Read, Skip, Idle
  <1>3. ASSUME NEW count \in Uint, Scope(count) PROVE Cursor!Next
    <2>1. status = "running"
      BY <1>3 DEF Scope, Idle
    <2>2. QED BY <1>1, <1>3, <2>1, OpenStep
  <1>4. CASE UpdateIndexFromScoped \/ LongSkip
    BY <1>4, CloseStep DEF LongSkip, IInv
  <1>5. CASE Finish
    <2>1. CASE ~ReadAll
      BY <1>1, <1>5, <2>1 DEF Finish, Idle
    <2>2. CASE ReadAll
      <3>1. status = "running" /\ top = 1 /\ Fail("accepted") /\ idx[1] = bytesLen
        BY <1>5, <2>2 DEF Finish, ReadAll, Idle
      <3>2. base[1] = 0 /\ idx[1] \in Nat
        BY LevelTypes DEF IInv, Bookkeeping
      <3>3. Len(Spans) = 1
        BY <3>1, SpansSeq
      <3>4. Cursor!Accept
        BY <3>1, <3>2, <3>3 DEF Fail, Cursor!Accept, Spans
      <3>5. QED BY <3>4 DEF Cursor!Next
    <2>3. QED BY <2>1, <2>2
  <1>6. CASE DeliverEOF
    BY <1>1, <1>6 DEF DeliverEOF
  <1>7. ASSUME NEW v \in 1..MaxInt, Deliver(v) PROVE [Cursor!Next]_(Cursor!vars)
    <2>1. UNCHANGED <<bytesLen, top, idx, max, base>> /\ status = "running"
      BY <1>7 DEF Deliver
    <2>2. CASE status' = status
      BY <2>1, <2>2 DEF Cursor!vars
    <2>3. CASE status' = "io"
      BY <2>1, <2>3 DEF Cursor!Next, Cursor!Fail
    <2>4. QED BY <1>7, <2>2, <2>3 DEF Deliver
  <1>8. CASE UNCHANGED vars
    BY <1>8 DEF vars, Cursor!vars
  <1>9. QED BY <1>2, <1>3, <1>4, <1>5, <1>6, <1>7, <1>8 DEF Next, Stream

\* The nested, relative counters implement one cursor over absolute positions.
THEOREM Refinement ==
  ASSUME ~LongSkips PROVE Spec => RefinesCursor
  <1>1. Init => Cursor!Init
    <2> SUFFICES ASSUME Init PROVE Cursor!Init
      OBVIOUS
    <2>1. /\ top = 1 /\ 1 \in Levels /\ bytesLen \in Nat
          /\ base[1] = 0 /\ idx[1] = 0 /\ max[1] = bytesLen /\ status = "running"
      BY DepthAssumption, MaxIntAssumption DEF Init, Levels, Uint, MaxUint
    <2>2. [k \in 1..1 |-> <<base[k], base[k] + max[k]>>] = << <<0, bytesLen>> >>
      BY <2>1
    <2>3. QED BY <2>1, <2>2 DEF Cursor!Init
  <1>2. QED BY <1>1, RefinementStep, Invariance, PTL DEF Spec, RefinesCursor, Cursor!Spec

(***************************************************************************)
(* What the decoders of series and containers are told: module VarSeries   *)
(* and module Container have the decoder of an element move the index on   *)
(* by any number of bytes up to those of its scope, in one step.  Here the *)
(* scope is opened, decoded in and closed by as many steps as it takes.    *)
(***************************************************************************)
EnclosingKept == \A k \in 1..(top - 1) : idx'[k] = idx[k] /\ max'[k] = max[k] /\ base'[k] = base[k]

Opens ==
  /\ top' = top + 1
  /\ idx'[top'] = 0
  /\ max'[top'] \in 0..(max[top] - idx[top])
  /\ base'[top'] = base[top] + idx[top]
  /\ idx'[top] = idx[top] /\ max'[top] = max[top] /\ base'[top] = base[top]

\* The parent's index moves on by what was taken of the scope.
Closes ==
  /\ top' = top - 1
  /\ idx[top] \in 0..max[top]
  /\ idx'[top'] = idx[top'] + idx[top]
  /\ idx'[top'] <= max[top']
  /\ max'[top'] = max[top'] /\ base'[top'] = base[top']
  /\ at' = base'[top'] + idx'[top']

ScopeContract ==
  /\ top' >= top => EnclosingKept
  /\ top' > top => Opens
  /\ top' < top => Closes

LEMMA CloseContract ==
  ASSUME IInv, UpdateIndexFromScoped
  PROVE  Closes
  <1>1. /\ Idle /\ top > 1 /\ top' = top - 1 /\ at' = at
        /\ idx' = [idx EXCEPT ![top - 1] = IndexWithScoped, ![top] = 0]
        /\ max' = [max EXCEPT ![top] = 0]
        /\ base' = [base EXCEPT ![top] = 0]
    BY DEF UpdateIndexFromScoped
  <1>2. /\ top \in Nat /\ top - 1 \in Levels /\ top \in Levels /\ top \in 2..top
        /\ top - 1 # top /\ top - 1 \in 1..top /\ top \in 1..top
    BY <1>1, LevelTypes DEF Levels
  <1>3. /\ IndexWithScoped = idx[top - 1] + idx[top]
        /\ idx[top - 1] + idx[top] <= max[top - 1]
    BY IndexSum
  <1>4. /\ idx'[top - 1] = idx[top - 1] + idx[top]
        /\ max'[top - 1] = max[top - 1]
        /\ base'[top - 1] = base[top - 1]
    BY <1>1, <1>2, <1>3 DEF IInv, TypeOK
  <1>5. idx[top] \in 0..max[top]
    BY <1>2, LevelTypes DEF IInv, ScopesNest
  <1>6. /\ base[top] = base[top - 1] + idx[top - 1]
        /\ at = base[top] + idx[top]
        /\ at \in Nat /\ base[top - 1] \in Nat /\ idx[top - 1] \in Nat /\ idx[top] \in Nat
    BY <1>1, <1>2, LevelTypes DEF IInv, Bookkeeping, Idle
  <1>7. at' = base'[top'] + idx'[top']
    BY <1>1, <1>4, <1>6
  <1>8. QED BY <1>1, <1>3, <1>4, <1>5, <1>7 DEF Closes

LEMMA OpenContract ==
  ASSUME IInv, NEW count \in Uint, Scope(count)
  PROVE  ScopeContract
  <1>1. CASE GetBytesSpan < count
    <2>1. top' = top /\ idx' = idx /\ max' = max /\ base' = base
      BY <1>1, LevelTypes DEF Scope, Fail, GetBytesSpan, Uint, MaxUint, IInv, TypeOK
    <2>2. QED BY <2>1, LevelTypes DEF ScopeContract, EnclosingKept
  <1>2. CASE ~(GetBytesSpan < count)
    <2>1. /\ top < Depth /\ top' = top + 1
          /\ idx' = [idx EXCEPT ![top + 1] = 0]
          /\ max' = [max EXCEPT ![top + 1] = count]
          /\ base' = [base EXCEPT ![top + 1] = base[top] + idx[top]]
      BY <1>2 DEF Scope
    <2>2. /\ top \in Nat /\ top \in Levels /\ top + 1 \in Levels
          /\ \A k \in 1..top : k \in Levels /\ k # top + 1
      BY <2>1, LevelTypes DEF Levels
    <2>3. /\ idx'[top + 1] = 0 /\ max'[top + 1] = count /\ base'[top + 1] = base[top] + idx[top]
          /\ \A k \in 1..top : idx'[k] = idx[k] /\ max'[k] = max[k] /\ base'[k] = base[k]
      BY <2>1, <2>2 DEF IInv, TypeOK
    <2>4. count \in 0..(max[top] - idx[top])
      <3>1. count \in Nat /\ max[top] \in Nat /\ idx[top] \in Nat
        BY <2>2, LevelTypes DEF Uint
      <3>2. QED BY <1>2, <3>1 DEF GetBytesSpan
    <2>5. top \in 1..top /\ \A k \in 1..(top - 1) : k \in 1..top
      BY LevelTypes
    <2>6. Opens
      BY <2>1, <2>3, <2>4, <2>5 DEF Opens
    <2>7. QED BY <2>1, <2>2, <2>3, <2>5, <2>6 DEF ScopeContract, EnclosingKept
  <1>3. QED BY <1>1, <1>2

LEMMA ContractStep ==
  ASSUME IInv, [Next]_vars
  PROVE  ScopeContract
  <1>1. ASSUME NEW n \in 1..MaxInt, Read(n) \/ Skip(n) PROVE ScopeContract
    <2>1. /\ top' = top /\ max' = max /\ base' = base
          /\ idx' = idx \/ \E v : idx' = [idx EXCEPT ![top] = v]
      BY <1>1 DEF Read, Skip, checkedIndexUpdate, Fail
    <2>2. \A k \in 1..(top - 1) : k # top /\ k \in Levels
      BY LevelTypes
    <2>3. \A k \in 1..(top - 1) : idx'[k] = idx[k]
      BY <2>1, <2>2 DEF IInv, TypeOK
    <2>4. QED BY <2>1, <2>3, LevelTypes DEF ScopeContract, EnclosingKept
  <1>2. ASSUME NEW count \in Uint, Scope(count) PROVE ScopeContract
    BY <1>2, OpenContract
  <1>3. CASE UpdateIndexFromScoped
    <2>1. Closes
      BY <1>3, CloseContract
    <2>2. QED BY <2>1, LevelTypes DEF ScopeContract, Closes
  <1>4. CASE Stream \/ Finish \/ UNCHANGED vars
    <2>1. top' = top /\ idx' = idx /\ max' = max /\ base' = base
      BY <1>4 DEF Stream, DeliverEOF, Deliver, Finish, Fail, vars
    <2>2. QED BY <2>1, LevelTypes DEF ScopeContract, EnclosingKept
  <1>5. ~LongSkip
    BY DEF LongSkip, IInv
  <1>6. QED BY <1>1, <1>2, <1>3, <1>4, <1>5 DEF Next

\* A scope takes bytes of its parent's span only; while it is open nothing of the scopes
\* around it changes, and UpdateIndexFromScoped moves the parent's index on by exactly
\* the bytes that were taken, as many as the scope has at most: to where the stream is.
\* So a handler is, to the loop that calls it, the one step that VarSeries and Container
\* make of it.
THEOREM ScopesReturn ==
  ASSUME ~LongSkips PROVE Spec => [][ScopeContract]_vars
  BY ContractStep, Invariance, PTL DEF Spec
==============================================================================
