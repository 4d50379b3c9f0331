-------------------------- MODULE Merkleize_proofs --------------------------
(***************************************************************************)
(* Merkleize and ConstructProof, and the table of zero hashes while they   *)
(* run: for every height of the table, count, limit and index, any set of  *)
(* hash functions and any number of calls of InitZeroHashes.               *)
(***************************************************************************)
EXTENDS Merkleize, SequenceTheorems, SharedLemmas, TLAPS

\* The steps of Merkleize and ConstructProof only read the table: for the table,
\* a program that computes roots is one that calls InitZeroHashes or waits.
LEMMA TableUntouched ==
  Next => TableNext \/ UNCHANGED tableVars
<1> SUFFICES ASSUME Next PROVE TableNext \/ UNCHANGED tableVars
  OBVIOUS
<1>1. ASSUME NEW f, NEW fun, NEW c, NEW l, NEW x, Call(f, fun, c, l, x)
      PROVE  UNCHANGED tableVars
  BY <1>1 DEF Call
<1>2. CASE Start
  BY <1>2 DEF Start
<1>3. CASE CopyZeroHash
  BY <1>3 DEF CopyZeroHash
<1>4. CASE NextLeaf
  BY <1>4 DEF NextLeaf
<1>5. CASE Complement
  BY <1>5 DEF Complement
<1>6. CASE MergeStep
  BY <1>6 DEF MergeStep
<1>7. CASE Extend
  BY <1>7 DEF Extend
<1>8. CASE SetTable
  BY <1>8 DEF SetTable, TableNext
<1>9. CASE Returned
  BY <1>9 DEF Returned, vars
<1> QED
  BY <1>1, <1>2, <1>3, <1>4, <1>5, <1>6, <1>7, <1>8, <1>9 DEF Next

\* Merkleize.tla implements ZeroHashes.tla: the table only changes by init() and
\* InitZeroHashes, entry by entry, whatever is computed meanwhile.
THEOREM TableOnly == Spec => TableSpec
<1>1. Init => InitTable
  BY DEF Init
<1>2. [Next]_vars => [TableNext]_tableVars
  BY TableUntouched DEF vars
<1> QED
  BY <1>1, <1>2, PTL DEF Spec, TableSpec

(***************************************************************************)
(* FilledInOrder is inductive once the shape of the tables is known: the   *)
(* one being filled is the last, and has an entry for every height.        *)
(***************************************************************************)
Entries(table) == table = [l \in 0..zeroHashesLevels |-> table[l]]

TableShape ==
  /\ \E X : tables \in Seq(X)
  /\ current = Len(tables)
  /\ current >= 1
  /\ Entries(Table)
  /\ filled \in 0..zeroHashesLevels
  /\ hFn \in HashFns
  /\ filling \in {"done", "next", "storing"}
  /\ filling = "storing" => filled < zeroHashesLevels

TableInv == TableShape /\ FilledInOrder

\* The table as init() makes it.
LEMMA InitTableInv == InitTable => TableInv
<1> SUFFICES ASSUME InitTable PROVE TableInv
  OBVIOUS
<1> USE LevelsAssumption, HashFnsAssumption DEF InitTable
<1>1. tables \in Seq({AllZero}) /\ Len(tables) = 1 /\ Table = AllZero
  BY DEF Table
<1>2. TableShape
  <2>1. \E X : tables \in Seq(X)
    BY <1>1
  <2>2. Entries(Table)
    BY <1>1 DEF Entries, AllZero
  <2> QED
    BY <1>1, <2>1, <2>2 DEF TableShape
<1>3. FilledInOrder
  BY <1>1 DEF FilledInOrder, AllZero
<1> QED
  BY <1>2, <1>3 DEF TableInv

\* A table that is replaced leaves nothing behind in the new one.
LEMMA InitZeroHashesInv ==
  ASSUME TableInv, NEW replacement \in HashFns, InitZeroHashes(replacement)
  PROVE  TableInv'
<1> USE LevelsAssumption DEF TableInv, TableShape
<1>1. PICK X : tables \in Seq(X)
  OBVIOUS
<1>2. tables \in Seq(X \cup {AllZero}) /\ AllZero \in X \cup {AllZero}
  BY <1>1
<1>3. /\ tables' \in Seq(X \cup {AllZero})
      /\ Len(tables') = Len(tables) + 1
      /\ tables'[Len(tables) + 1] = AllZero
  BY <1>2 DEF InitZeroHashes
<1>4. current' = Len(tables') /\ current' >= 1 /\ Table' = AllZero
  BY <1>1, <1>3 DEF InitZeroHashes, Table
<1>5. TableShape'
  BY <1>3, <1>4 DEF InitZeroHashes, Entries, AllZero
<1>6. FilledInOrder'
  BY <1>4 DEF InitZeroHashes, FilledInOrder, AllZero
<1> QED
  BY <1>5, <1>6

\* Writing entry filled + 1 of the table in use changes that entry and no other.
LEMMA EntryWritten ==
  ASSUME TableInv, filled < zeroHashesLevels, NEW e,
         tables' = [tables EXCEPT ![current][filled + 1] = e], current' = current
  PROVE  /\ Table' = [l \in 0..zeroHashesLevels |-> IF l = filled + 1 THEN e ELSE Table[l]]
         /\ \E X : tables' \in Seq(X)
         /\ Len(tables') = Len(tables)
<1> USE LevelsAssumption DEF TableInv, TableShape
<1>1. PICK X : tables \in Seq(X)
  OBVIOUS
<1> DEFINE written == [Table EXCEPT ![filled + 1] = e]
<1>2. current \in DOMAIN tables /\ tables' = [tables EXCEPT ![current] = written]
  BY <1>1 DEF Table
<1>3. tables' \in Seq(X \cup {written}) /\ Len(tables') = Len(tables)
  <2> DEFINE Y == X \cup {written}
  <2>1. tables \in Seq(Y) /\ written \in Y /\ current \in 1..Len(tables)
    BY <1>1
  <2> HIDE DEF written, Y
  <2>2. [tables EXCEPT ![current] = written] \in Seq(Y)
        /\ Len([tables EXCEPT ![current] = written]) = Len(tables)
    BY ONLY <2>1, ExceptSeq
  <2>3. tables' \in Seq(Y) /\ Len(tables') = Len(tables)
    BY ONLY <1>2, <2>2
  <2> QED
    BY <2>3 DEF Y
<1>4. Table' = written
  BY <1>1, <1>2 DEF Table
<1>5. written = [l \in 0..zeroHashesLevels |-> IF l = filled + 1 THEN e ELSE Table[l]]
  BY DEF Entries
<1> QED
  BY <1>3, <1>4, <1>5

\* One step of the loop that fills the table.
LEMMA FillInv == ASSUME TableInv, Fill PROVE TableInv'
<1> USE LevelsAssumption DEF TableInv, TableShape
<1>1. CASE FillStart
  <2>1. Table' = [l \in 0..zeroHashesLevels |-> IF l = filled + 1 THEN Torn ELSE Table[l]]
    BY <1>1, EntryWritten DEF FillStart
  <2>2. TableShape'
    BY <1>1, <2>1, EntryWritten DEF FillStart, Entries
  <2>3. FilledInOrder'
    BY <1>1, <2>1 DEF FillStart, FilledInOrder
  <2> QED
    BY <2>2, <2>3
<1>2. CASE FillEnd
  <2>1. Table' = [l \in 0..zeroHashesLevels |->
                    IF l = filled + 1 THEN Combi(hFn, Table[filled], Table[filled]) ELSE Table[l]]
    BY <1>2, EntryWritten DEF FillEnd, NextZeroHash
  <2>2. TableShape'
    <3>1. Entries(Table)'
      BY <2>1 DEF Entries
    <3>2. (\E X : tables' \in Seq(X)) /\ Len(tables') = Len(tables)
      BY <1>2, EntryWritten DEF FillEnd
    <3> QED
      BY <1>2, <3>1, <3>2 DEF FillEnd
  <2>3. /\ filled' = filled + 1 /\ filling' = "next" /\ hFn' = hFn
        /\ filling = "storing" /\ filled \in 0..(zeroHashesLevels - 1)
    BY <1>2 DEF FillEnd
  <2>4. Table'[0] = ZeroChunk
    BY <2>1, <2>3 DEF FilledInOrder
  <2>5. ASSUME NEW l \in 0..(filled' - 1)
        PROVE  Table'[l + 1] = Combi(hFn', Table'[l], Table'[l])
    BY <2>1, <2>3 DEF FilledInOrder
  <2>6. ASSUME NEW l \in (filled' + 1)..zeroHashesLevels
        PROVE  Table'[l] = ZeroChunk
    BY <2>1, <2>3 DEF FilledInOrder
  <2>7. FilledInOrder'
    BY <2>3, <2>4, <2>5, <2>6 DEF FilledInOrder
  <2> QED
    BY <2>2, <2>7
<1>3. CASE FillDone
  BY <1>3 DEF FillDone, Entries, FilledInOrder, Table
<1> QED
  BY <1>1, <1>2, <1>3 DEF Fill

\* Steps that do not touch the table.
LEMMA TableKept == ASSUME TableInv, UNCHANGED tableVars PROVE TableInv'
  BY DEF TableInv, TableShape, FilledInOrder, Table, Entries, tableVars

\* At any moment of any number of calls of InitZeroHashes, entry by entry, and
\* whatever is computed meanwhile, what a reader finds in the table is a root of
\* zeros by the hash function being set, a zero that is not written yet, or the one
\* entry half written; after a return nothing is missing.
THEOREM TableInOrder == Spec => []FilledInOrder
<1>1. InitTable => TableInv
  BY InitTableInv
<1>2. TableInv /\ [TableNext]_tableVars => TableInv'
  <2>1. ASSUME TableInv, TableNext PROVE TableInv'
    BY <2>1, FillInv, InitZeroHashesInv DEF TableNext
  <2>2. ASSUME TableInv, UNCHANGED tableVars PROVE TableInv'
    BY <2>2, TableKept
  <2> QED
    BY <2>1, <2>2
<1>3. TableInv => FilledInOrder
  BY DEF TableInv
<1> QED
  BY <1>1, <1>2, <1>3, TableOnly, PTL DEF TableSpec

(***************************************************************************)
(* GetDepth: a binary search over the bits of a uint64.                    *)
(***************************************************************************)

\* Two shifts are one, by the sum.
LEMMA ShiftIsDivision ==
  ASSUME NEW x \in Nat, NEW bits \in Nat
  PROVE  ShiftRight(x, bits) = x \div 2^bits
<1> DEFINE a == bits \div 2
           b == bits - a
<1>1. a \in Nat /\ b \in Nat /\ bits = a + b
  OBVIOUS
<1> HIDE DEF a, b
<1>2. 2^bits = 2^a * 2^b
  BY <1>1, PowerSum
<1>3. 2^a \in Nat /\ 2^a >= 1 /\ 2^b \in Nat /\ 2^b >= 1
  BY <1>1, PowerNat, PowerPositive
<1>4. (x \div 2^a) \div 2^b = x \div (2^a * 2^b)
  BY <1>3, DivisionByProduct
<1> QED
  BY <1>2, <1>4 DEF ShiftRight, a, b

\* Where the binary search stands: what is left of x, below 2^bits.
Narrowed(x, acc, bits) ==
  /\ acc.v \in Nat /\ acc.out \in Nat
  /\ acc.v = x \div 2^acc.out
  /\ acc.v < 2^bits
  /\ acc.v >= 1 \/ acc.out = 0

\* One step of the search halves the bits that are left and keeps the quotient.
LEMMA SearchNarrows ==
  ASSUME NEW x \in Nat, NEW acc, NEW bits \in Nat, Narrowed(x, acc, 2 * bits)
  PROVE  Narrowed(x, Search(acc, bits), bits)
<1>1. /\ acc.v \in Nat /\ acc.out \in Nat
      /\ acc.v = x \div 2^acc.out
      /\ acc.v < 2^(2 * bits)
      /\ acc.v >= 1 \/ acc.out = 0
  BY DEF Narrowed
<1> DEFINE y == acc.v \div 2^bits
<1>2. ShiftRight(acc.v, bits) = y
  BY <1>1, ShiftIsDivision
<1>3. 2^bits \in Nat /\ 2^bits >= 1
  BY PowerNat, PowerPositive
<1>4. y \in Nat /\ acc.v = y * 2^bits + (acc.v % 2^bits) /\ acc.v % 2^bits \in 0..(2^bits - 1)
  BY <1>1, <1>3, Division
<1>5. y < 2^bits
  <2>1. 2 * bits \in Nat /\ bits <= 2 * bits /\ 2 * bits - bits = bits
    OBVIOUS
  <2>2. y < 2^(2 * bits - bits)
    BY <1>1, <2>1, InTree
  <2> QED
    BY <2>1, <2>2
<1>6. y = x \div 2^(acc.out + bits)
  <2>1. 2^(acc.out + bits) = 2^acc.out * 2^bits
    BY <1>1, PowerSum
  <2>2. 2^acc.out \in Nat /\ 2^acc.out >= 1
    BY <1>1, PowerNat, PowerPositive
  <2>3. (x \div 2^acc.out) \div 2^bits = x \div (2^acc.out * 2^bits)
    BY <1>3, <2>2, DivisionByProduct
  <2> QED
    BY <1>1, <2>1, <2>3
<1> HIDE DEF y
<1>7. CASE y # 0
  <2>1. Search(acc, bits) = [v |-> y, out |-> acc.out + bits]
    BY <1>2, <1>7 DEF Search
  <2>2. Search(acc, bits).v = y /\ Search(acc, bits).out = acc.out + bits
    BY <2>1
  <2> HIDE DEF Search
  <2> QED
    BY <1>1, <1>4, <1>5, <1>6, <1>7, <2>2 DEF Narrowed
<1>8. CASE y = 0
  <2>1. Search(acc, bits) = acc
    BY <1>2, <1>8 DEF Search
  <2>2. acc.v < 2^bits
    <3>1. y * 2^bits = 0
      BY <1>3, <1>8
    <3> QED
      BY <1>3, <1>4, <3>1
  <2> QED
    BY <1>1, <2>1, <2>2 DEF Narrowed
<1> QED
  BY <1>7, <1>8

\* GetDepth is the height of the smallest tree of v leaves, but at least 1, for every
\* uint64: none of its six steps is missing.
THEOREM DepthIsHeight ==
  ASSUME NEW v \in Nat, v >= 1, v <= 2^64
  PROVE  /\ GetDepth(v) \in 1..64
         /\ v <= 2^GetDepth(v)
         /\ v >= 2 => 2^(GetDepth(v) - 1) < v
         /\ v = 1 => GetDepth(v) = 1
<1> DEFINE x   == v - 1
           s64 == [v |-> x, out |-> 0]
           s32 == Search(s64, 32)
           s16 == Search(s32, 16)
           s8  == Search(s16, 8)
           s4  == Search(s8, 4)
           s2  == Search(s4, 2)
           s1  == Search(s2, 1)
<1>1. x \in Nat /\ v = x + 1 /\ x < 2^64
  <2> DEFINE most == 2^64
  <2>1. most \in Nat /\ v <= most
    BY PowerNat
  <2> HIDE DEF most
  <2>2. v - 1 \in Nat /\ v = (v - 1) + 1 /\ v - 1 < most
    BY <2>1
  <2> QED
    BY <2>2 DEF most
<1>2. Narrowed(x, s64, 64)
  <2>1. s64.v = x /\ s64.out = 0
    OBVIOUS
  <2>2. x \div 1 = x
    <3>1. x = x * 1 + 0 /\ x \in Nat
      BY <1>1
    <3> QED
      BY <3>1, DivisionUnique
  <2> HIDE DEF s64, x
  <2>3. s64.v = x \div 2^s64.out
    BY <2>1, <2>2, PowerOfZero
  <2>4. s64.v < 2^64
    BY <1>1, <2>1, Zenon
  <2>5. s64.v \in Nat /\ s64.out \in Nat /\ s64.out = 0
    BY <1>1, <2>1
  <2> QED
    BY <2>3, <2>4, <2>5 DEF Narrowed
<1>3. GetDepth(v) = s1.out + 1
  BY DEF GetDepth
<1> HIDE DEF x, s64
<1>4. Narrowed(x, s32, 32)
  BY <1>1, <1>2, SearchNarrows, 64 = 2 * 32
<1> HIDE DEF s32
<1>5. Narrowed(x, s16, 16)
  BY <1>1, <1>4, SearchNarrows, 32 = 2 * 16
<1> HIDE DEF s16
<1>6. Narrowed(x, s8, 8)
  BY <1>1, <1>5, SearchNarrows, 16 = 2 * 8
<1> HIDE DEF s8
<1>7. Narrowed(x, s4, 4)
  BY <1>1, <1>6, SearchNarrows, 8 = 2 * 4
<1> HIDE DEF s4
<1>8. Narrowed(x, s2, 2)
  BY <1>1, <1>7, SearchNarrows, 4 = 2 * 2
<1> HIDE DEF s2
<1>9. Narrowed(x, s1, 1)
  BY <1>1, <1>8, SearchNarrows, 2 = 2 * 1
<1> HIDE DEF s1
<1> DEFINE d == s1.out
<1>10. /\ s1.v \in {0, 1} /\ d \in Nat
       /\ s1.v = x \div 2^d
       /\ s1.v = 1 \/ d = 0
  <2>1. 2^1 = 2
    BY PowerStep, PowerOfZero, 0 \in Nat, 0 + 1 = 1
  <2> QED
    BY <1>9, <2>1 DEF Narrowed
<1>11. 2^d \in Nat /\ 2^d >= 1 /\ 2^(d + 1) = 2 * 2^d
  BY <1>10, PowerNat, PowerPositive, PowerStep
<1> DEFINE p == 2^d
<1>12. x = s1.v * p + (x % p) /\ x % p \in 0..(p - 1) /\ p \in Nat
  BY <1>1, <1>10, <1>11, Division
<1> HIDE DEF p
<1>13. CASE s1.v = 1
  <2>1. x = p + (x % p)
    BY <1>12, <1>13
  <2>2. p <= x /\ x < 2 * p
    BY <1>12, <2>1
  <2>3. d < 64
    <3>1. 2^d <= x /\ x < 2^64 /\ 2^64 \in Nat /\ 64 \in Nat
      BY <1>1, <2>2, PowerNat DEF p
    <3>2. 2^d < 2^64
      <4> DEFINE most == 2^64
      <4> HIDE DEF most
      <4>1. most \in Nat /\ x < most
        BY <3>1 DEF most
      <4>2. 2^d < most
        BY <1>1, <1>11, <3>1, <4>1
      <4> QED
        BY <4>2 DEF most
    <3> QED
      BY <1>10, <3>1, <3>2, PowerOrder
  <2>4. GetDepth(v) = d + 1 /\ (d + 1) - 1 = d
    BY <1>3, <1>10
  <2>5. v <= 2^(d + 1) /\ 2^d < v /\ v # 1
    BY <1>1, <1>11, <1>12, <2>2 DEF p
  <2> QED
    BY <1>10, <2>3, <2>4, <2>5
<1>14. CASE s1.v = 0
  <2>1. d = 0 /\ p = 1
    <3>1. d = 0
      BY <1>10, <1>14
    <3> QED
      BY <3>1, PowerOfZero DEF p
  <2>2. x = 0
    BY <1>12, <1>14, <2>1
  <2>3. v = 1 /\ GetDepth(v) = 1 /\ 2^1 >= 1
    <3>1. v = 1
      BY <1>1, <2>2
    <3>2. GetDepth(v) = 1
      BY <1>3, <2>1
    <3>3. 2^1 >= 1
      BY PowerPositive, 1 \in Nat
    <3> QED
      BY <3>1, <3>2, <3>3
  <2> HIDE DEF d
  <2>4. 2^1 = 2
    BY PowerStep, PowerOfZero, 0 \in Nat, 0 + 1 = 1
  <2>5. GetDepth(v) \in 1..64 /\ ~(v >= 2)
    BY <2>3
  <2>6. 2^GetDepth(v) = 2
    BY <2>3, <2>4, Zenon
  <2>7. v <= 2^GetDepth(v)
    BY <2>3, <2>6
  <2> QED
    BY <2>3, <2>5, <2>7
<1> QED
  BY <1>10, <1>13, <1>14

(***************************************************************************)
(* The reference tree.                                                     *)
(***************************************************************************)

\* T is a balanced tree of height d over c leaves.
IsBalanced(T, f, c, d) ==
  /\ \A n \in 0..(2^d - 1) : T[0][n] = IF n < c THEN Leaf(n) ELSE ZeroChunk
  /\ \A l \in 0..(d - 1) : \A n \in 0..(2^(d - l - 1) - 1) :
       T[l + 1][n] = Combi(f, T[l][2 * n], T[l][2 * n + 1])

\* The reference tree exists, level by level: a function over the heights that is
\* defined by the height below it.
LEMMA LevelsExist ==
  ASSUME NEW f, NEW c \in Nat, NEW d \in Nat
  PROVE  IsBalanced(Balanced(f, c, d), f, c, d)
<1> DEFINE Row(T, l) == [n \in 0..(2^(d - l) - 1) |->
                           IF l = 0
                             THEN IF n < c THEN Leaf(n) ELSE ZeroChunk
                             ELSE Combi(f, T[l - 1][2 * n], T[l - 1][2 * n + 1])]
           Built(T, k)  == T = [l \in 0..k |-> Row(T, l)]
           S == {k \in Nat : \E T : Built(T, k)}
           T0 == Balanced(f, c, d)
<1>1. ASSUME NEW T, NEW U, NEW l \in Nat, l = 0 \/ T[l - 1] = U[l - 1]
      PROVE  Row(T, l) = Row(U, l)
  BY <1>1
<1>2. 0 \in S
  <2> DEFINE T == [l \in 0..0 |-> Row(<<>>, 0)]
  <2>1. \A l \in 0..0 : l = 0
    OBVIOUS
  <2>2. \A l \in 0..0 : Row(<<>>, 0) = Row(T, l)
    BY <1>1, <2>1
  <2> HIDE DEF Row
  <2>3. Built(T, 0)
    BY <2>2
  <2> QED
    BY <2>3
<1>3. ASSUME NEW k \in Nat, k \in S PROVE k + 1 \in S
  <2>1. PICK T : Built(T, k)
    BY <1>3
  <2> HIDE DEF Row
  <2> DEFINE U == [l \in 0..(k + 1) |-> IF l = k + 1 THEN Row(T, l) ELSE T[l]]
  <2>2. \A l \in 0..k : U[l] = T[l] /\ T[l] = Row(T, l)
    BY <2>1
  <2>3. ASSUME NEW l \in 0..(k + 1) PROVE U[l] = Row(U, l)
    <3>1. l = 0 \/ T[l - 1] = U[l - 1]
      BY <2>2
    <3>2. Row(T, l) = Row(U, l)
      BY <1>1, <3>1
    <3>3. CASE l = k + 1
      <4>1. U[l] = Row(T, l)
        BY <3>3
      <4> QED
        BY <3>2, <4>1
    <3>4. CASE l # k + 1
      <4>1. l \in 0..k
        BY <3>4
      <4> QED
        BY <2>2, <3>2, <4>1
    <3> QED
      BY <3>3, <3>4
  <2>4. U = [l \in 0..(k + 1) |-> U[l]]
    OBVIOUS
  <2> HIDE DEF U
  <2>5. Built(U, k + 1)
    BY <2>3, <2>4
  <2> QED
    BY <2>5
<1>4. Built(T0, d)
  <2> HIDE DEF S
  <2>1. d \in S
    BY <1>2, <1>3, SetInduction
  <2>2. \E T : Built(T, d)
    BY <2>1 DEF S
  <2>3. T0 = CHOOSE T : Built(T, d)
    BY DEF Balanced
  <2> HIDE DEF Built, T0
  <2> QED
    BY <2>2, <2>3
<1>5. \A l \in 0..d : T0[l] = Row(T0, l)
  <2> HIDE DEF Row, T0
  <2> QED
    BY <1>4
<1>6. \A n \in 0..(2^d - 1) : Row(T0, 0)[n] = IF n < c THEN Leaf(n) ELSE ZeroChunk
  <2> HIDE DEF T0
  <2> QED OBVIOUS
<1>7. \A l \in 0..(d - 1) : \A n \in 0..(2^(d - l - 1) - 1) :
        Row(T0, l + 1)[n] = Combi(f, T0[l][2 * n], T0[l][2 * n + 1])
  <2> HIDE DEF T0
  <2> TAKE l \in 0..(d - 1)
  <2> TAKE n \in 0..(2^(d - l - 1) - 1)
  <2>1. d - (l + 1) = d - l - 1 /\ (l + 1) - 1 = l /\ l + 1 # 0
    OBVIOUS
  <2> QED BY <2>1
<1> QED
  <2> HIDE DEF Row, T0
  <2>1. \A l \in 0..(d - 1) : T0[l + 1] = Row(T0, l + 1)
    BY <1>5
  <2>2. T0[0] = Row(T0, 0)
    BY <1>5
  <2>3. /\ \A n \in 0..(2^d - 1) : T0[0][n] = IF n < c THEN Leaf(n) ELSE ZeroChunk
        /\ \A l \in 0..(d - 1) : \A n \in 0..(2^(d - l - 1) - 1) :
             T0[l + 1][n] = Combi(f, T0[l][2 * n], T0[l][2 * n + 1])
    BY <1>6, <1>7, <2>1, <2>2
  <2> QED BY <2>3 DEF T0, IsBalanced

\* What is computed from the arguments stays as it is during a call.
LEMMA ArgsFixed ==
  ASSUME UNCHANGED args
  PROVE  depth' = depth /\ limitDepth' = limitDepth /\ Height' = Height /\ Tree' = Tree
<1>1. hasher' = hasher /\ count' = count /\ limit' = limit
  BY DEF args
<1>2. depth' = depth /\ limitDepth' = limitDepth
  BY <1>1 DEF depth, limitDepth
<1>3. Height' = Height
  BY <1>1 DEF Height
<1>4. Tree' = Tree
  BY <1>1, <1>3 DEF Tree
<1> QED
  BY <1>2, <1>3, <1>4

Sized == count \in 0..MaxLimit /\ limit \in 0..MaxLimit /\ count <= limit /\ 1 < limit

\* The depths that GetDepth computes fit the table, and each other.
LEMMA Depths ==
  ASSUME Sized
  PROVE  /\ limitDepth \in 1..zeroHashesLevels
         /\ depth \in 0..limitDepth
         /\ limit <= 2^limitDepth /\ count <= 2^depth
         /\ count = 2^limitDepth => depth = limitDepth
         /\ Height = limitDepth
<1> USE DEF Sized
<1>1. MaxLimit \in Nat /\ zeroHashesLevels \in Nat /\ zeroHashesLevels <= 64
      /\ MaxLimit <= 2^zeroHashesLevels
  BY MaxLimitAssumption, LevelsAssumption, LimitAssumption
<1>2. limit \in Nat /\ count \in Nat /\ limit <= 2^zeroHashesLevels /\ limit >= 1 /\ limit >= 2
  <2> DEFINE w == 2^zeroHashesLevels
  <2>1. w \in Nat /\ MaxLimit <= w
    BY <1>1, PowerNat
  <2> HIDE DEF w
  <2>2. limit <= w
    BY <1>1, <2>1
  <2> QED
    BY <1>1, <2>2 DEF w
<1> DEFINE most == 2^64
<1>3. most \in Nat /\ 2^zeroHashesLevels <= most /\ 2^zeroHashesLevels \in Nat
  BY <1>1, PowerMonotone, PowerNat, 64 \in Nat
<1> HIDE DEF most
<1>4. limit <= most /\ count <= most
  BY <1>2, <1>3
<1>11. count <= 2^64
  BY <1>4, Zenon DEF most
<1>5. /\ limitDepth \in 1..64
      /\ limit <= 2^limitDepth
      /\ 2^(limitDepth - 1) < limit
  BY <1>2, <1>4, DepthIsHeight DEF limitDepth, most
<1>6. limitDepth - 1 \in Nat /\ limitDepth \in Nat /\ 2^(limitDepth - 1) \in Nat /\ 2^limitDepth \in Nat
  BY <1>5, PowerNat
<1>7. limitDepth <= zeroHashesLevels
  <2>1. 2^(limitDepth - 1) < 2^zeroHashesLevels
    BY <1>2, <1>3, <1>5, <1>6
  <2>2. limitDepth - 1 < zeroHashesLevels
    BY <1>1, <1>6, <2>1, PowerOrder
  <2> QED
    BY <1>1, <1>5, <2>2
<1>8. depth \in 0..limitDepth /\ count <= 2^depth
  <2>1. CASE count = 0
    <3>1. depth = 0
      BY <2>1 DEF depth, GetDepth
    <3> QED
      BY <1>5, <2>1, <3>1, PowerOfZero
  <2>2. CASE count = 1
    <3>1. count \in Nat /\ count >= 1
      BY <1>2, <2>2
    <3>2. GetDepth(count) = 1 /\ count <= 2^GetDepth(count)
      BY <1>11, <2>2, <3>1, DepthIsHeight
    <3> QED
      BY <1>5, <3>2 DEF depth
  <2>3. CASE count >= 2
    <3>1. depth \in 1..64 /\ count <= 2^depth /\ 2^(depth - 1) < count
      <4>1. count \in Nat /\ count >= 1
        BY <1>2, <2>3
      <4>2. GetDepth(count) \in 1..64 /\ count <= 2^GetDepth(count) /\ 2^(GetDepth(count) - 1) < count
        BY <1>11, <2>3, <4>1, DepthIsHeight
      <4> QED
        BY <4>2 DEF depth
    <3>2. depth - 1 \in Nat /\ 2^(depth - 1) \in Nat
      BY <3>1, PowerNat
    <3>3. 2^(depth - 1) < 2^limitDepth
      BY <1>2, <1>5, <1>6, <3>1, <3>2
    <3>4. depth - 1 < limitDepth
      BY <1>6, <3>2, <3>3, PowerOrder
    <3> QED
      BY <1>5, <3>1, <3>4
  <2> QED
    BY <1>2, <2>1, <2>2, <2>3
<1>9. count = 2^limitDepth => depth = limitDepth
  <2> SUFFICES ASSUME count = 2^limitDepth, depth < limitDepth PROVE FALSE
    BY <1>6, <1>8
  <2>1. 2^depth < 2^limitDepth /\ 2^depth \in Nat
    BY <1>6, <1>8, PowerStrict, PowerNat
  <2> QED
    BY <1>2, <1>8, <2>1
<1>10. Height = limitDepth
  <2> DEFINE Fits(d) == 2^d >= limit /\ (d = 0 \/ 2^(d - 1) < limit)
  <2>1. limitDepth \in 0..limit
    <3>1. limitDepth - 1 < 2^(limitDepth - 1)
      BY <1>6, PowerAboveExponent
    <3> QED
      BY <1>2, <1>5, <1>6, <3>1
  <2>2. Fits(limitDepth)
    BY <1>2, <1>5, <1>6
  <2>3. ASSUME NEW d \in 0..limit, Fits(d) PROVE d = limitDepth
    <3>1. d \in Nat /\ 2^d \in Nat /\ 2^d >= limit
      BY <1>2, <2>3, PowerNat
    <3>2. d > limitDepth - 1
      <4>1. 2^(limitDepth - 1) < 2^d
        BY <1>2, <1>5, <1>6, <3>1
      <4> QED
        BY <1>6, <3>1, <4>1, PowerOrder
    <3>3. d # 0 => d - 1 < limitDepth
      <4> SUFFICES ASSUME d # 0 PROVE d - 1 < limitDepth
        OBVIOUS
      <4>1. d - 1 \in Nat /\ 2^(d - 1) \in Nat /\ 2^(d - 1) < limit
        BY <2>3, <3>1, PowerNat
      <4>2. 2^(d - 1) < 2^limitDepth
        BY <1>2, <1>5, <1>6, <4>1
      <4> QED
        BY <1>6, <4>1, <4>2, PowerOrder
    <3> QED
      BY <1>6, <3>1, <3>2, <3>3
  <2>4. Height = CHOOSE d \in 0..limit : Fits(d)
    BY DEF Height
  <2> HIDE DEF Fits
  <2> QED
    BY <2>1, <2>2, <2>3, <2>4
<1> QED
  BY <1>5, <1>7, <1>8, <1>9, <1>10

\* The reference tree of a call: its leaves, and every node by its children.
LEMMA TreeLevels ==
  ASSUME Sized
  PROVE  /\ \A n \in 0..(2^limitDepth - 1) :
              Tree[0][n] = IF n < count THEN Leaf(n) ELSE ZeroChunk
         /\ \A l \in 0..(limitDepth - 1) : \A n \in 0..(2^(limitDepth - l - 1) - 1) :
              Tree[l + 1][n] = Combi(hasher, Tree[l][2 * n], Tree[l][2 * n + 1])
<1>1. limitDepth \in Nat /\ Height = limitDepth /\ count \in Nat
  BY Depths, LevelsAssumption, MaxLimitAssumption DEF Sized
<1>2. Tree = Balanced(hasher, count, limitDepth)
  BY <1>1 DEF Tree
<1> HIDE DEF limitDepth, Tree
<1>3. IsBalanced(Balanced(hasher, count, limitDepth), hasher, count, limitDepth)
  BY <1>1, LevelsExist
<1> QED
  BY <1>2, <1>3 DEF IsBalanced

\* The node above the one of leaf x at level l.
LEMMA NodeAbove ==
  ASSUME Sized, NEW x \in Nat, x < 2^limitDepth, NEW l \in 0..(limitDepth - 1)
  PROVE  /\ (x \div 2^l) % 2 = 0 =>
              Tree[l + 1][x \div 2^(l + 1)] =
                Combi(hasher, Tree[l][x \div 2^l], Tree[l][x \div 2^l + 1])
         /\ (x \div 2^l) % 2 # 0 =>
              Tree[l + 1][x \div 2^(l + 1)] =
                Combi(hasher, Tree[l][x \div 2^l - 1], Tree[l][x \div 2^l])
<1>1. limitDepth \in Nat /\ l \in Nat /\ l + 1 \in Nat /\ l + 1 <= limitDepth
  BY Depths
<1> DEFINE m == x \div 2^l
           n == x \div 2^(l + 1)
<1>2. m \in Nat /\ n \in Nat /\ n = m \div 2
  BY <1>1, LevelUp
<1>3. n < 2^(limitDepth - l - 1)
  <2>1. limitDepth - (l + 1) = limitDepth - l - 1
    BY <1>1
  <2>2. n < 2^(limitDepth - (l + 1))
    BY <1>1, InTree
  <2> QED
    BY <2>1, <2>2
<1>4. limitDepth - l - 1 \in Nat /\ 2^(limitDepth - l - 1) \in Nat
  BY <1>1, PowerNat
<1> HIDE DEF m, n
<1>5. n \in 0..(2^(limitDepth - l - 1) - 1)
  BY <1>2, <1>3, <1>4
<1>6. Tree[l + 1][n] = Combi(hasher, Tree[l][2 * n], Tree[l][2 * n + 1])
  BY <1>5, TreeLevels
<1>7. /\ m % 2 = 0 => 2 * n = m /\ 2 * n + 1 = m + 1
      /\ m % 2 # 0 => 2 * n = m - 1 /\ 2 * n + 1 = m
  BY <1>2
<1> QED
  BY <1>6, <1>7 DEF m, n

\* A table that is complete has the roots of the subtrees without leaves.
LEMMA ZeroSubtree ==
  ASSUME Sized, TableInv, filling = "done", hFn = hasher
  PROVE  \A l \in 0..limitDepth : \A n \in 0..(2^(limitDepth - l) - 1) :
           n * 2^l >= count => Tree[l][n] = Table[l]
<1>1. limitDepth \in Nat /\ limitDepth <= zeroHashesLevels /\ zeroHashesLevels \in Nat /\ count \in Nat
  BY Depths, LevelsAssumption, MaxLimitAssumption DEF Sized
<1>2. /\ Table[0] = ZeroChunk
      /\ \A l \in 0..(zeroHashesLevels - 1) : Table[l + 1] = Combi(hasher, Table[l], Table[l])
  BY DEF TableInv, FilledInOrder
<1> HIDE DEF limitDepth, Table
<1> DEFINE Empty(l) == \A n \in 0..(2^(limitDepth - l) - 1) : n * 2^l >= count => Tree[l][n] = Table[l]
           S == {l \in Nat : l <= limitDepth => Empty(l)}
<1>3. 0 \in S
  <2>1. limitDepth - 0 = limitDepth /\ 2^limitDepth \in Nat
    BY <1>1, PowerNat
  <2>2. ASSUME NEW n \in 0..(2^(limitDepth - 0) - 1), n * 2^0 >= count PROVE Tree[0][n] = Table[0]
    <3>1. n \in 0..(2^limitDepth - 1) /\ n * 1 >= count
      BY <2>1, <2>2, PowerOfZero
    <3>2. n \in Nat /\ ~(n < count)
      BY <1>1, <2>1, <3>1
    <3> QED
      BY <1>2, <3>1, <3>2, TreeLevels
  <2> QED
    BY <2>2
<1>4. ASSUME NEW l \in Nat, l \in S PROVE l + 1 \in S
  <2> SUFFICES ASSUME l + 1 <= limitDepth,
                      NEW n \in 0..(2^(limitDepth - (l + 1)) - 1), n * 2^(l + 1) >= count
               PROVE  Tree[l + 1][n] = Table[l + 1]
    OBVIOUS
  <2>1. Empty(l)
    BY <1>1, <1>4
  <2> DEFINE w == 2^(limitDepth - l - 1)
             p == 2^l
  <2>2. /\ limitDepth - (l + 1) = limitDepth - l - 1
        /\ limitDepth - l - 1 \in Nat
        /\ limitDepth - l = (limitDepth - l - 1) + 1
    BY <1>1
  <2>3. w \in Nat /\ p \in Nat /\ 2^(limitDepth - l) = 2 * w /\ 2^(l + 1) = 2 * p
    BY <2>2, PowerNat, PowerStep
  <2>4. n \in 0..(w - 1) /\ n * (2 * p) >= count
    BY <2>2, <2>3
  <2> HIDE DEF w, p
  <2>5. 2 * n \in 0..(2 * w - 1) /\ 2 * n + 1 \in 0..(2 * w - 1)
    BY <2>3, <2>4
  <2>6. n \in Nat /\ (2 * n) * p = n * (2 * p) /\ (2 * n + 1) * p = n * (2 * p) + p
    BY <2>3, <2>4
  <2>7. (2 * n) * p >= count /\ (2 * n + 1) * p >= count
    <3>1. n * (2 * p) \in Nat
      BY <2>3, <2>6
    <3> QED
      BY <1>1, <2>3, <2>4, <2>6, <3>1
  <2>8. Tree[l][2 * n] = Table[l] /\ Tree[l][2 * n + 1] = Table[l]
    BY <2>1, <2>3, <2>5, <2>7 DEF p
  <2>9. l \in 0..(limitDepth - 1) /\ l \in 0..(zeroHashesLevels - 1)
    BY <1>1
  <2>10. Tree[l + 1][n] = Combi(hasher, Tree[l][2 * n], Tree[l][2 * n + 1])
    BY <2>4, <2>9, TreeLevels DEF w
  <2> QED
    BY <1>2, <2>8, <2>9, <2>10
<1> HIDE DEF S
<1>5. \A l \in Nat : l \in S
  BY <1>3, <1>4, SetInduction
<1> QED
  BY <1>1, <1>5 DEF S

\* A call that is over once it is checked: a tree of one leaf, or of none.
LEMMA SmallTree ==
  ASSUME count \in Nat, limit = 1
  PROVE  Tree[Height][0] = IF count > 0 THEN Leaf(0) ELSE ZeroChunk
<1>1. Height = 0
  <2> DEFINE Fits(d) == 2^d >= limit /\ (d = 0 \/ 2^(d - 1) < limit)
  <2>1. Fits(0) /\ 0 \in 0..limit
    BY PowerOfZero
  <2>2. ASSUME NEW d \in 0..limit, Fits(d) PROVE d = 0
    <3>1. d = 0 \/ d = 1
      OBVIOUS
    <3>2. d = 1 => 2^(d - 1) = 1
      BY PowerOfZero
    <3> QED
      BY <2>2, <3>1, <3>2
  <2>3. Height = CHOOSE d \in 0..limit : Fits(d)
    BY DEF Height
  <2> HIDE DEF Fits
  <2> QED
    BY <2>1, <2>2, <2>3
<1>2. Tree = Balanced(hasher, count, 0)
  BY <1>1 DEF Tree
<1>3. 0 \in 0..(2^0 - 1)
  BY PowerOfZero
<1>4. Balanced(hasher, count, 0)[0][0] = IF 0 < count THEN Leaf(0) ELSE ZeroChunk
  <2>1. IsBalanced(Balanced(hasher, count, 0), hasher, count, 0)
    BY LevelsExist, 0 \in Nat
  <2> QED
    BY <1>3, <2>1 DEF IsBalanced
<1> QED
  BY <1>1, <1>2, <1>4

(***************************************************************************)
(* The inductive invariant. A call is described level by level: which of   *)
(* the nodes of the reference tree are in tmp (Pending), in h (Merging,    *)
(* Extending) and in the branch (Copying, Branching). What rests on leaves *)
(* alone needs nothing of the table; the rest needs it quiet.              *)
(***************************************************************************)
\* The call is past its checks.
Working == pc \in {"copy", "leaf", "merge", "extend"}

\* The arguments, and the arrays and indices of the loops.
Arguments ==
  /\ count \in 0..MaxLimit /\ limit \in 0..MaxLimit /\ index \in 0..MaxLimit
  /\ IF pc = "idle" THEN fn = "none" ELSE fn \in {"Merkleize", "ConstructProof"}
  /\ pc \in {"idle", "start", "copy", "leaf", "merge", "extend", "return", "panic"}
  /\ i \in 0..count
  /\ pc \in {"idle", "start"} => i = 0 /\ j = 0 /\ out = ZeroChunk
  /\ Working =>
       /\ 1 < limit /\ count <= limit
       /\ fn = "ConstructProof" => index < limit
       /\ j \in 0..limitDepth
       /\ tmp = [level \in 0..limitDepth |-> tmp[level]]
       /\ branch = [level \in 0..(limitDepth - 1) |-> branch[level]]

\* A quiet table is complete and the one of the call.
Quietness ==
  quiet /\ pc # "idle" =>
    filling = "done" /\ hFn = hasher /\ (pc = "copy" => source = current)

\* The entries copied so far are those of a quiet table.
Copying ==
  pc = "copy" =>
    /\ fn = "ConstructProof" /\ i = 0 /\ j < limitDepth
    /\ quiet => \A level \in 0..(j - 1) : branch[level] = Table[level]

\* The nodes that wait for their right siblings: one for each bit of i.
Pending ==
  \A level \in 0..limitDepth :
    (i \div 2^level) % 2 = 1 => tmp[level] = Tree[level][i \div 2^level - 1]

\* h is the complete subtree that ends with leaf i, or in the padding the one that leaf
\* i would be in.
Merging ==
  pc = "merge" =>
    /\ Pending
    /\ i < count => i % 2^j = 2^j - 1 /\ h = Tree[j][i \div 2^j]
    /\ i = count => /\ 2^depth # count /\ j <= depth
                    /\ quiet => h = Tree[j][i \div 2^j]

\* The node at the top is the root of the smallest tree of all the leaves, or of a
\* higher one.
Extending ==
  pc = "extend" =>
    /\ i = count /\ depth <= j
    /\ quiet \/ (2^depth = count /\ j = depth) => tmp[j] = Tree[j][0]

\* All leaves below the sibling of the index have been merged in.
Entered(level) ==
  LET next == (SiblingAt(level) + 1) * 2^level
  IN  \/ next <= i
      \/ pc = "merge" /\ i < count /\ level < j /\ next = i + 1

\* What has been entered is right, and so are the zero hashes that are never
\* overwritten, or only with the same.
Branching ==
  pc \in {"leaf", "merge", "extend"} /\ fn = "ConstructProof" =>
    \A level \in 0..(limitDepth - 1) :
      Entered(level) \/ (quiet /\ SiblingAt(level) * 2^level >= count)
        => branch[level] = Tree[level][SiblingAt(level)]

Results == RootCorrect /\ FullBranch /\ LeavesNeedNoTable

MerkleInv ==
  /\ Arguments /\ Quietness /\ Copying
  /\ pc = "leaf" => Pending
  /\ Merging /\ Extending /\ Branching /\ Results

IInv == TableInv /\ MerkleInv

(***************************************************************************)
(* What holds while a call works.                                          *)
(***************************************************************************)

\* What the indices and the depths are while a call works.
LEMMA WhileWorking ==
  ASSUME Arguments, Working
  PROVE  /\ Sized
         /\ limitDepth \in 1..zeroHashesLevels /\ depth \in 0..limitDepth
         /\ limit <= 2^limitDepth /\ count <= 2^depth /\ 2^depth \in Nat /\ 2^limitDepth \in Nat
         /\ count = 2^limitDepth => depth = limitDepth
         /\ Height = limitDepth
         /\ count \in Nat /\ limit \in Nat /\ i \in Nat /\ count <= 2^limitDepth
         /\ zeroHashesLevels \in Nat /\ limitDepth \in Nat /\ depth \in Nat
<1>1. Sized
  BY DEF Arguments, Sized
<1>2. /\ limitDepth \in 1..zeroHashesLevels /\ depth \in 0..limitDepth
      /\ limit <= 2^limitDepth /\ count <= 2^depth
      /\ count = 2^limitDepth => depth = limitDepth
      /\ Height = limitDepth
  BY <1>1, Depths
<1>3. limitDepth \in Nat /\ depth \in Nat /\ zeroHashesLevels \in Nat
  BY <1>2, LevelsAssumption
<1>4. 2^depth \in Nat /\ 2^limitDepth \in Nat
  BY <1>3, PowerNat
<1>5. count \in Nat /\ limit \in Nat /\ i \in Nat /\ count <= limit
  BY <1>1, MaxLimitAssumption DEF Sized, Arguments
<1>6. count <= 2^limitDepth
  BY <1>2, <1>4, <1>5
<1> QED
  BY <1>1, <1>2, <1>3, <1>4, <1>5, <1>6

\* No bit of 0 is set.
LEMMA NoBits == \A level \in Nat : (0 \div 2^level) % 2 = 0
<1> TAKE level \in Nat
<1> DEFINE p == 2^level
<1>1. p \in Nat /\ p >= 1
  BY PowerNat, PowerPositive
<1> HIDE DEF p
<1>2. 0 = 0 * p + 0
  BY <1>1
<1>3. 0 \div p = 0
  BY <1>1, <1>2, DivisionUnique
<1> QED
  BY <1>3, 0 % 2 = 0 DEF p

\* x ^ 1 undoes itself.
LEMMA SiblingBack ==
  ASSUME NEW x \in Nat
  PROVE  Sibling(x) \in Nat /\ Sibling(Sibling(x)) = x
  BY DEF Sibling

\* The sibling of the index at a level is a node of the tree.
LEMMA SiblingInTree ==
  ASSUME Sized, index \in 0..MaxLimit, index < limit, NEW l \in 0..(limitDepth - 1)
  PROVE  SiblingAt(l) \in 0..(2^(limitDepth - l) - 1) /\ index \div 2^l \in Nat
<1>1. limitDepth \in Nat /\ l \in Nat /\ limit <= 2^limitDepth /\ index \in Nat /\ limit \in Nat
  BY Depths, MaxLimitAssumption DEF Sized
<1> DEFINE n == index \div 2^l
           w == 2^(limitDepth - l - 1)
<1>2. n \in Nat
  BY <1>1, LevelUp
<1>3. 2^limitDepth \in Nat
  BY <1>1, PowerNat
<1>4. n < 2^(limitDepth - l)
  BY <1>1, <1>3, InTree
<1>5. limitDepth - l - 1 \in Nat /\ limitDepth - l = (limitDepth - l - 1) + 1
  BY <1>1
<1>6. w \in Nat /\ 2^(limitDepth - l) = 2 * w
  BY <1>5, PowerNat, PowerStep
<1> HIDE DEF n, w
<1>7. Sibling(n) \in 0..(2 * w - 1)
  BY <1>2, <1>4, <1>6 DEF Sibling
<1> QED
  BY <1>2, <1>6, <1>7 DEF SiblingAt, n

\* Nor do the siblings of the index.
LEMMA SiblingsFixed ==
  ASSUME UNCHANGED args
  PROVE  \A level : SiblingAt(level)' = SiblingAt(level)
  BY DEF args, SiblingAt

\* A step of the loops that keeps the indices inside the arrays.
LEMMA ArgumentsKept ==
  ASSUME Arguments, Working, UNCHANGED args, Working', pc' # "idle",
         i' \in 0..count, j' \in 0..limitDepth,
         tmp' = [level \in 0..limitDepth |-> tmp'[level]],
         branch' = [level \in 0..(limitDepth - 1) |-> branch'[level]]
  PROVE  Arguments'
<1>1. count' = count /\ limit' = limit /\ index' = index /\ fn' = fn /\ limitDepth' = limitDepth
  BY ArgsFixed DEF args
<1>2. pc' \in {"copy", "leaf", "merge", "extend"} /\ pc \in {"copy", "leaf", "merge", "extend"}
  BY DEF Working
<1>3. /\ tmp' = [level \in 0..limitDepth' |-> tmp'[level]]
      /\ branch' = [level \in 0..(limitDepth' - 1) |-> branch'[level]]
      /\ j' \in 0..limitDepth'
  BY <1>1
<1> QED
  BY <1>1, <1>2, <1>3 DEF Arguments, Working

\* Nothing is entered by a step that leaves the branch and the leaf, if it does not go
\* on merging a leaf.
LEMMA BranchKept ==
  ASSUME Branching, pc \in {"leaf", "merge", "extend"}, UNCHANGED args,
         UNCHANGED <<i, branch, quiet>>, pc' # "merge" \/ i >= count, count \in Nat, i \in Nat
  PROVE  Branching'
<1>1. count' = count /\ fn' = fn /\ i' = i /\ limitDepth' = limitDepth /\ Tree' = Tree
  BY ArgsFixed DEF args
<1> SUFFICES ASSUME fn = "ConstructProof", NEW level \in 0..(limitDepth - 1),
                    Entered(level)' \/ (quiet' /\ SiblingAt(level)' * 2^level >= count')
             PROVE  branch'[level] = Tree'[level][SiblingAt(level)']
  BY <1>1 DEF Branching
<1>2. SiblingAt(level)' = SiblingAt(level)
  BY SiblingsFixed
<1>3. ~(pc' = "merge" /\ i' < count')
  BY <1>1
<1>4. Entered(level)' => Entered(level)
  BY <1>1, <1>2, <1>3 DEF Entered
<1>5. branch[level] = Tree[level][SiblingAt(level)]
  BY <1>1, <1>2, <1>4 DEF Branching
<1> QED
  BY <1>1, <1>2, <1>5

(***************************************************************************)
(* The invariant holds at the start, and every step keeps it: one lemma    *)
(* for each action.                                                        *)
(***************************************************************************)

\* Before any call.
LEMMA InitIInv == Init => IInv
<1> SUFFICES ASSUME Init PROVE IInv
  OBVIOUS
<1>1. TableInv
  BY InitTableInv DEF Init
<1>2. pc = "idle" /\ ~Working
  BY DEF Init, Working
<1>3. Arguments
  BY <1>2, MaxLimitAssumption DEF Init, Arguments, Working
<1> QED
  BY <1>1, <1>2, <1>3 DEF IInv, MerkleInv, Quietness, Copying, Merging, Extending, Branching,
     Results, RootCorrect, FullBranch, LeavesNeedNoTable

\* The arguments of a call.
LEMMA CallIInv ==
  ASSUME IInv, NEW f \in HashFns, NEW fun \in Calls, NEW c \in 0..MaxLimit, NEW l \in 0..MaxLimit,
         NEW x \in 0..MaxLimit, Call(f, fun, c, l, x)
  PROVE  IInv'
<1>1. pc = "idle" /\ pc' = "start" /\ i' = i /\ j' = j /\ out' = out /\ UNCHANGED tableVars
      /\ count' = c /\ limit' = l /\ index' = x /\ fn' = fun /\ hasher' = f
      /\ quiet' = (filling = "done" /\ hFn = f)
  BY DEF Call
<1>2. TableInv'
  BY <1>1, TableKept DEF IInv
<1>3. Arguments'
  BY <1>1, MaxLimitAssumption, CallsAssumption DEF IInv, MerkleInv, Arguments, Working
<1>4. Quietness'
  BY <1>1 DEF Quietness, tableVars
<1> QED
  BY <1>1, <1>2, <1>3, <1>4 DEF IInv, MerkleInv, Copying, Merging, Extending, Branching,
     Results, RootCorrect, FullBranch, LeavesNeedNoTable

\* The checks and special cases, and what is allocated.
LEMMA StartIInv == ASSUME IInv, Start PROVE IInv'
<1>1. pc = "start" /\ UNCHANGED <<i, j, h, quiet>> /\ UNCHANGED args /\ UNCHANGED tableVars
      /\ i = 0 /\ j = 0 /\ out = ZeroChunk /\ Arguments
  BY DEF Start, IInv, MerkleInv, Arguments
<1>2. TableInv'
  BY <1>1, TableKept DEF IInv
<1>3. limitDepth' = limitDepth /\ depth' = depth /\ Tree' = Tree /\ Height' = Height
  BY <1>1, ArgsFixed
<1>4. CASE OverLimit /\ pc' = "panic" /\ UNCHANGED <<tmp, source, branch, out>>
  <2>1. pc' = "panic" /\ ~(Working')
    BY <1>4 DEF Working
  <2>2. Arguments'
    BY <1>1, <2>1 DEF Arguments, args
  <2>3. Quietness'
    BY <1>1, <2>1 DEF IInv, MerkleInv, Quietness, args, tableVars
  <2> QED
    BY <1>2, <2>1, <2>2, <2>3 DEF IInv, MerkleInv, Copying, Merging, Extending, Branching,
       Results, RootCorrect, FullBranch, LeavesNeedNoTable
<1>5. CASE /\ ~OverLimit /\ limit <= 1 /\ pc' = "return"
           /\ out' = (IF fn = "Merkleize" /\ limit = 1 /\ count = 1 THEN Leaf(0) ELSE out)
           /\ UNCHANGED <<tmp, source, branch>>
  <2>1. pc' = "return" /\ ~(Working') /\ limit' = limit /\ count' = count /\ fn' = fn
    BY <1>1, <1>5 DEF Working, args
  <2>2. Arguments'
    BY <1>1, <2>1 DEF Arguments, args
  <2>3. Quietness'
    BY <1>1, <2>1 DEF IInv, MerkleInv, Quietness, args, tableVars
  <2>4. limit \in {0, 1} /\ count \in 0..limit /\ count \in Nat
    BY <1>1, <1>5, MaxLimitAssumption DEF Arguments, OverLimit
  <2>5. RootCorrect'
    <3> SUFFICES ASSUME fn' = "Merkleize"
                 PROVE  out' = IF limit' = 0 THEN ZeroChunk ELSE Tree'[Height'][0]
      BY DEF RootCorrect
    <3>1. CASE limit = 0
      BY <1>1, <1>5, <2>1, <3>1
    <3>2. CASE limit = 1
      <4>1. Tree[Height][0] = IF count > 0 THEN Leaf(0) ELSE ZeroChunk
        BY <2>4, <3>2, SmallTree
      <4>2. out' = Tree[Height][0]
        BY <1>1, <1>5, <2>1, <2>4, <3>2, <4>1
      <4> QED
        BY <1>3, <2>1, <3>2, <4>2
    <3> QED
      BY <2>4, <3>1, <3>2
  <2>6. ~(limit' > 1)
    BY <2>1, <2>4
  <2> QED
    BY <1>2, <2>1, <2>2, <2>3, <2>5, <2>6 DEF IInv, MerkleInv, Copying, Merging, Extending, Branching,
       Results, FullBranch, LeavesNeedNoTable
<1>6. CASE /\ ~OverLimit /\ limit > 1
           /\ pc' = (IF fn = "ConstructProof" THEN "copy" ELSE "leaf")
           /\ source' = current
           /\ tmp' = [level \in 0..limitDepth |-> ZeroChunk]
           /\ branch' = [level \in 0..(limitDepth - 1) |-> ZeroChunk]
           /\ UNCHANGED out
  <2>1. Sized /\ (fn = "ConstructProof" => index < limit)
    BY <1>1, <1>6, MaxLimitAssumption DEF Arguments, OverLimit, Sized
  <2>2. limitDepth \in 1..zeroHashesLevels /\ zeroHashesLevels \in Nat
    BY <2>1, Depths, LevelsAssumption
  <2>3. pc' \in {"copy", "leaf"} /\ fn \in {"Merkleize", "ConstructProof"} /\ pc' # pc
    BY <1>1, <1>6 DEF IInv, MerkleInv, Arguments
  <2>4. Arguments'
    <3>1. fn' = fn /\ count' = count /\ limit' = limit /\ index' = index
      BY <1>1 DEF args
    <3>2. tmp' = [level \in 0..limitDepth' |-> tmp'[level]]
          /\ branch' = [level \in 0..(limitDepth' - 1) |-> branch'[level]]
      BY <1>3, <1>6
    <3>3. j' \in 0..limitDepth'
      BY <1>1, <1>3, <2>2
    <3> QED
      BY <1>1, <1>6, <2>1, <2>3, <3>1, <3>2, <3>3 DEF Arguments, Sized
  <2>5. Quietness'
    BY <1>1, <1>6 DEF IInv, MerkleInv, Quietness, args, tableVars
  <2>6. Copying'
    BY <1>1, <1>3, <1>6, <2>2, <2>3 DEF Copying, args
  <2>7. Pending'
    <3> SUFFICES ASSUME NEW level \in 0..limitDepth', (i' \div 2^level) % 2 = 1 PROVE FALSE
      BY DEF Pending
    <3>1. level \in Nat /\ i' = 0
      BY <1>1, <1>3, <2>2
    <3>2. (0 \div 2^level) % 2 = 0
      BY <3>1, NoBits
    <3> QED
      BY <3>1, <3>2
  <2>8. Branching'
    BY <1>1, <1>6, <2>3 DEF Branching, args
  <2> QED
    BY <1>2, <2>3, <2>4, <2>5, <2>6, <2>7, <2>8 DEF IInv, MerkleInv, Merging, Extending,
       Results, RootCorrect, FullBranch, LeavesNeedNoTable
<1> QED
  BY <1>4, <1>5, <1>6 DEF Start

\* A zero hash copied into the branch.
LEMMA CopyIInv == ASSUME IInv, CopyZeroHash PROVE IInv'
<1>1. /\ pc = "copy" /\ UNCHANGED <<i, h, tmp, source, out, quiet>> /\ UNCHANGED args /\ UNCHANGED tableVars
      /\ branch' = [branch EXCEPT ![j] = ZeroSibling(j)] /\ j' = j + 1
      /\ pc' = (IF j + 1 = limitDepth THEN "leaf" ELSE "copy")
      /\ Working /\ Arguments /\ Copying /\ Quietness /\ TableInv
  BY DEF CopyZeroHash, IInv, MerkleInv, Working
<1>2. limitDepth' = limitDepth /\ depth' = depth /\ Tree' = Tree /\ Height' = Height
  BY <1>1, ArgsFixed
<1>3. TableInv' /\ Table' = Table
  BY <1>1, TableKept DEF Table, tableVars
<1>4. Sized /\ limitDepth \in Nat /\ count \in Nat
  BY <1>1, WhileWorking
<1>5. /\ fn = "ConstructProof" /\ i = 0 /\ j \in 0..(limitDepth - 1)
      /\ quiet => \A level \in 0..(j - 1) : branch[level] = Table[level]
      /\ branch = [level \in 0..(limitDepth - 1) |-> branch[level]]
      /\ tmp = [level \in 0..limitDepth |-> tmp[level]]
      /\ index < limit /\ index \in 0..MaxLimit
  <2>1. j \in 0..limitDepth /\ j < limitDepth
    BY <1>1 DEF Copying, Arguments
  <2>2. j \in 0..(limitDepth - 1)
    BY <1>4, <2>1
  <2> HIDE DEF Working, limitDepth
  <2> QED
    BY <1>1, <2>2 DEF Copying, Arguments
<1>6. \A level \in 0..(limitDepth - 1) :
        branch'[level] = IF level = j THEN ZeroSibling(j) ELSE branch[level]
  BY <1>1, <1>5
<1>7. quiet => ZeroSibling(j) = Table[j] /\ filling = "done" /\ hFn = hasher
  BY <1>1 DEF Quietness, ZeroSibling, Table
<1>8. pc' \in {"copy", "leaf"} /\ Working' /\ j' \in 0..limitDepth
  BY <1>1, <1>4, <1>5 DEF Working
<1>9. Arguments'
  <2>1. branch' = [level \in 0..(limitDepth - 1) |-> branch'[level]]
    BY <1>1, <1>5
  <2>2. i' \in 0..count /\ tmp' = [level \in 0..limitDepth |-> tmp'[level]]
    BY <1>1, <1>4, <1>5
  <2> QED
    BY <1>1, <1>8, <2>1, <2>2, ArgumentsKept
<1>10. Quietness'
  BY <1>1 DEF Quietness, args, tableVars
<1>11. quiet => \A level \in 0..j : branch'[level] = Table[level]
  <2> SUFFICES ASSUME quiet, NEW level \in 0..j PROVE branch'[level] = Table[level]
    OBVIOUS
  <2>1. level \in 0..(limitDepth - 1) /\ (level # j => level \in 0..(j - 1))
    BY <1>4, <1>5
  <2>2. CASE level = j
    BY <1>6, <1>7, <2>1, <2>2
  <2>3. CASE level # j
    BY <1>5, <1>6, <2>1, <2>3
  <2> QED
    BY <2>2, <2>3
<1>12. Copying'
  <2> SUFFICES ASSUME pc' = "copy" PROVE Copying'
    BY DEF Copying
  <2>1. j + 1 # limitDepth /\ j' = j + 1
    BY <1>1
  <2>3. j \in 0..(limitDepth - 1) /\ j \in Nat
    BY <1>5
  <2>4. j' - 1 = j /\ j' < limitDepth
    BY <1>4, <2>1, <2>3
  <2>2. fn' = "ConstructProof" /\ i' = 0 /\ quiet' = quiet
    BY <1>1, <1>5 DEF args
  <2> QED
    BY <1>2, <1>3, <1>11, <2>2, <2>4 DEF Copying
<1>13. Pending'
  <2> SUFFICES ASSUME NEW level \in 0..limitDepth', (i' \div 2^level) % 2 = 1 PROVE FALSE
    BY DEF Pending
  <2>1. level \in Nat /\ i' = 0
    BY <1>1, <1>2, <1>4, <1>5
  <2>2. (0 \div 2^level) % 2 = 0
    BY <2>1, NoBits
  <2> QED
    BY <2>1, <2>2
<1>14. Branching'
  <2> SUFFICES ASSUME pc' = "leaf", NEW level \in 0..(limitDepth - 1),
                      Entered(level)' \/ (quiet' /\ SiblingAt(level)' * 2^level >= count')
               PROVE  branch'[level] = Tree'[level][SiblingAt(level)']
    BY <1>2, <1>8 DEF Branching
  <2>1. j + 1 = limitDepth /\ SiblingAt(level)' = SiblingAt(level) /\ count' = count
    BY <1>1, SiblingsFixed DEF args
  <2>2. SiblingAt(level) \in 0..(2^(limitDepth - level) - 1)
    BY <1>4, <1>5, SiblingInTree
  <2>3. level \in Nat /\ 2^level \in Nat /\ 2^level >= 1
    BY PowerNat, PowerPositive
  <2>4. ~Entered(level)'
    <3> DEFINE s == SiblingAt(level)
               p == 2^level
    <3>1. s \in Nat /\ p \in Nat /\ p >= 1
      <4>1. limitDepth - level \in Nat
        BY <1>4
      <4>2. 2^(limitDepth - level) \in Nat
        BY <4>1, PowerNat
      <4> QED
        BY <2>2, <2>3, <4>2
    <3> HIDE DEF s, p
    <3>2. (s + 1) * p >= p /\ (s + 1) * p \in Nat
      <4>1. (s + 1) * p = s * p + p /\ s * p \in Nat
        BY <3>1
      <4> QED
        BY <3>1, <4>1
    <3>3. ~((s + 1) * p <= 0)
      BY <3>1, <3>2
    <3>4. i' = 0
      BY <1>1, <1>5
    <3>5. ~((SiblingAt(level)' + 1) * 2^level <= i')
      BY <2>1, <3>3, <3>4 DEF s, p
    <3> QED
      BY <3>5 DEF Entered
  <2>5. quiet /\ SiblingAt(level) * 2^level >= count
    BY <1>1, <2>1, <2>4
  <2>6. Tree[level][SiblingAt(level)] = Table[level]
    <3>1. level \in 0..limitDepth
      BY <1>4
    <3> QED
      BY <1>1, <1>4, <1>7, <2>2, <2>5, <3>1, ZeroSubtree
  <2>7. level \in 0..j
    BY <1>4, <1>5, <2>1
  <2> QED
    BY <1>2, <1>11, <2>1, <2>5, <2>6, <2>7
<1> QED
  BY <1>3, <1>8, <1>9, <1>10, <1>12, <1>13, <1>14 DEF IInv, MerkleInv, Merging, Extending,
     Results, RootCorrect, FullBranch, LeavesNeedNoTable

\* A leaf read from the callback.
LEMMA NextLeafIInv == ASSUME IInv, NextLeaf PROVE IInv'
<1>1. /\ pc = "leaf" /\ i < count /\ h' = Leaf(i) /\ j' = 0 /\ pc' = "merge"
      /\ UNCHANGED <<i, tmp, source, branch, out, quiet>> /\ UNCHANGED args /\ UNCHANGED tableVars
      /\ Working /\ Arguments /\ Quietness /\ TableInv /\ Pending /\ Branching
  BY DEF NextLeaf, IInv, MerkleInv, Working
<1>2. limitDepth' = limitDepth /\ depth' = depth /\ Tree' = Tree /\ Height' = Height /\ Working'
  BY <1>1, ArgsFixed DEF Working
<1>3. TableInv'
  BY <1>1, TableKept
<1>4. Sized /\ limitDepth \in Nat /\ count \in Nat /\ i \in Nat /\ count <= 2^limitDepth /\ 2^limitDepth \in Nat
  BY <1>1, WhileWorking
<1>5. Arguments'
  <2>1. i' \in 0..count /\ j' \in 0..limitDepth
    BY <1>1, <1>4
  <2>2. tmp' = [level \in 0..limitDepth |-> tmp'[level]]
        /\ branch' = [level \in 0..(limitDepth - 1) |-> branch'[level]]
    BY <1>1 DEF Arguments
  <2> QED
    BY <1>1, <1>2, <2>1, <2>2, ArgumentsKept
<1>6. Quietness'
  BY <1>1 DEF Quietness, args, tableVars
<1>7. Pending'
  BY <1>1, <1>2 DEF Pending
<1>8. Merging'
  <2>1. i \div 2^0 = i /\ i % 2^0 = 0
    <3>1. i = i * 1 + 0
      BY <1>4
    <3> QED
      BY <1>4, <3>1, PowerOfZero, DivisionUnique
  <2>2. i \in 0..(2^limitDepth - 1)
    BY <1>1, <1>4
  <2>3. Tree[0][i] = Leaf(i)
    BY <1>1, <1>4, <2>2, TreeLevels
  <2>4. i' % 2^j' = 2^j' - 1 /\ h' = Tree'[j'][i' \div 2^j']
    BY <1>1, <1>2, <2>1, <2>3, PowerOfZero
  <2>5. i' < count' /\ i' # count'
    BY <1>1, <1>4 DEF args
  <2> QED
    BY <1>7, <2>4, <2>5 DEF Merging
<1>9. Branching'
  <2>1. count' = count /\ fn' = fn /\ i' = i
    BY <1>1 DEF args
  <2> SUFFICES ASSUME fn = "ConstructProof", NEW level \in 0..(limitDepth - 1),
                      Entered(level)' \/ (quiet' /\ SiblingAt(level)' * 2^level >= count')
               PROVE  branch'[level] = Tree'[level][SiblingAt(level)']
    BY <1>2, <2>1 DEF Branching
  <2>2. SiblingAt(level)' = SiblingAt(level)
    BY <1>1, SiblingsFixed
  <2>3. Entered(level)' => Entered(level)
    BY <1>1, <2>1, <2>2 DEF Entered
  <2>4. branch[level] = Tree[level][SiblingAt(level)]
    BY <1>1, <2>1, <2>2, <2>3 DEF Branching
  <2> QED
    BY <1>1, <1>2, <2>2, <2>4
<1> QED
  BY <1>1, <1>3, <1>5, <1>6, <1>8, <1>9 DEF IInv, MerkleInv, Copying, Extending,
     Results, RootCorrect, FullBranch, LeavesNeedNoTable

\* After the last leaf: a zero chunk is merged in, or the tree is full.
LEMMA ComplementIInv == ASSUME IInv, Complement PROVE IInv'
<1>1. /\ pc = "leaf" /\ i = count
      /\ UNCHANGED <<i, tmp, source, branch, out, quiet>> /\ UNCHANGED args /\ UNCHANGED tableVars
      /\ Working /\ Arguments /\ Quietness /\ TableInv /\ Pending /\ Branching
  BY DEF Complement, IInv, MerkleInv, Working
<1>2. limitDepth' = limitDepth /\ depth' = depth /\ Tree' = Tree /\ Height' = Height
  BY <1>1, ArgsFixed
<1>3. TableInv'
  BY <1>1, TableKept
<1>4. /\ Sized /\ limitDepth \in Nat /\ count \in Nat /\ i \in Nat /\ depth \in 0..limitDepth
      /\ depth \in Nat /\ count <= 2^depth /\ 2^depth \in Nat /\ 2^limitDepth \in Nat
      /\ count <= 2^limitDepth
  BY <1>1, WhileWorking
<1>5. ASSUME pc' \in {"merge", "extend"}, j' \in 0..limitDepth
      PROVE  Arguments' /\ Branching'
  <2>1. i' \in 0..count
    BY <1>1, <1>4
  <2>2. tmp' = [level \in 0..limitDepth |-> tmp'[level]]
        /\ branch' = [level \in 0..(limitDepth - 1) |-> branch'[level]]
    BY <1>1 DEF Arguments
  <2>3. Arguments'
    BY <1>1, <1>5, <2>1, <2>2, ArgumentsKept DEF Working
  <2>4. Branching'
    BY <1>1, <1>4, BranchKept
  <2> QED
    BY <2>3, <2>4
<1>6. Quietness' \/ pc' = "copy"
  BY <1>1 DEF Quietness, args, tableVars
<1>7. Pending'
  BY <1>1, <1>2 DEF Pending
<1>8. CASE 2^depth # count /\ h' = Table[0] /\ j' = 0 /\ pc' = "merge"
  <2>1. Merging'
    <3>1. i \div 2^0 = i
      <4>1. i = i * 1 + 0
        BY <1>4
      <4> QED
        BY <1>4, <4>1, PowerOfZero, DivisionUnique
    <3>2. i < 2^depth /\ 2^depth <= 2^limitDepth
      BY <1>1, <1>4, <1>8, PowerMonotone
    <3>3. i \in 0..(2^limitDepth - 1)
      BY <1>4, <3>2
    <3>4. Tree[0][i] = ZeroChunk
      BY <1>1, <1>4, <3>3, TreeLevels
    <3>5. h' = Tree'[j'][i' \div 2^j']
      BY <1>1, <1>2, <1>8, <3>1, <3>4 DEF TableInv, FilledInOrder
    <3>6. i' = count' /\ 2^depth' # count' /\ j' <= depth' /\ ~(i' < count')
      BY <1>1, <1>2, <1>4, <1>8 DEF args
    <3> QED
      BY <1>7, <3>5, <3>6 DEF Merging
  <2>2. Arguments' /\ Branching'
    BY <1>4, <1>5, <1>8
  <2> QED
    BY <1>3, <1>6, <1>8, <2>1, <2>2 DEF IInv, MerkleInv, Copying, Extending,
       Results, RootCorrect, FullBranch, LeavesNeedNoTable
<1>9. CASE 2^depth = count /\ pc' = "extend" /\ j' = depth
  <2>1. Extending'
    <3>1. i \div 2^depth = 1
      <4> DEFINE p == 2^depth
      <4>1. i = 1 * p + 0 /\ p \in Nat
        BY <1>1, <1>4, <1>9
      <4>2. p >= 1
        BY <1>4, PowerPositive
      <4> HIDE DEF p
      <4>3. i \div p = 1
        BY <1>4, <4>1, <4>2, DivisionUnique
      <4> QED
        BY <4>3 DEF p
    <3>2. (i \div 2^depth) % 2 = 1 /\ i \div 2^depth - 1 = 0
      BY <3>1
    <3>3. tmp[depth] = Tree[depth][0]
      BY <1>1, <1>4, <3>2 DEF Pending
    <3> QED
      BY <1>1, <1>2, <1>4, <1>9, <3>3 DEF Extending, args
  <2>2. Arguments' /\ Branching'
    BY <1>4, <1>5, <1>9
  <2> QED
    BY <1>3, <1>6, <1>9, <2>1, <2>2 DEF IInv, MerkleInv, Copying, Merging,
       Results, RootCorrect, FullBranch, LeavesNeedNoTable
<1> QED
  BY <1>8, <1>9 DEF Complement

(***************************************************************************)
(* One iteration of merge.                                                 *)
(***************************************************************************)

\* What holds at every level of a merge.
LEMMA WhileMerging ==
  ASSUME IInv, pc = "merge"
  PROVE  /\ Working /\ Arguments /\ Quietness /\ TableInv /\ Pending /\ Branching /\ Merging
         /\ Sized /\ limitDepth \in Nat /\ count \in Nat /\ i \in Nat /\ depth \in 0..limitDepth
         /\ depth \in Nat /\ count <= 2^depth /\ 2^depth \in Nat /\ 2^limitDepth \in Nat
         /\ count <= 2^limitDepth
         /\ j \in 0..limitDepth /\ j \in Nat
         /\ i < 2^limitDepth
         /\ i = count => i < 2^depth
         /\ i <= count /\ i \in 0..count
         /\ tmp = [level \in 0..limitDepth |-> tmp[level]]
         /\ branch = [level \in 0..(limitDepth - 1) |-> branch[level]]
<1>1. Working /\ Arguments /\ Quietness /\ TableInv /\ Pending /\ Branching /\ Merging
  BY DEF IInv, MerkleInv, Working, Merging
<1>2. /\ Sized /\ limitDepth \in Nat /\ count \in Nat /\ i \in Nat /\ depth \in 0..limitDepth
      /\ depth \in Nat /\ count <= 2^depth /\ 2^depth \in Nat /\ 2^limitDepth \in Nat
      /\ count <= 2^limitDepth
  BY <1>1, WhileWorking
<1>3. /\ i \in 0..count /\ j \in 0..limitDepth
      /\ tmp = [level \in 0..limitDepth |-> tmp[level]]
      /\ branch = [level \in 0..(limitDepth - 1) |-> branch[level]]
  BY <1>1 DEF Arguments
<1>4. i <= count /\ j \in Nat
  BY <1>2, <1>3
<1>5. i = count => i < 2^depth /\ 2^depth <= 2^limitDepth
  BY <1>1, <1>2, PowerMonotone DEF Merging
<1>6. i < 2^limitDepth
  BY <1>2, <1>4, <1>5
<1> QED
  BY <1>1, <1>2, <1>3, <1>4, <1>5, <1>6

\* The node h, at the level merge is at, is entered when it is the sibling of the index
\* there: exactly when the last leaf below the sibling is the one merged in.
LEMMA SiblingMerged ==
  ASSUME IInv, pc = "merge", fn = "ConstructProof"
  PROVE  IsSibling(j) <=> (SiblingAt(j) + 1) * 2^j = i + 1
<1>1. j \in Nat /\ i \in Nat /\ index \in Nat
  BY WhileMerging, MaxLimitAssumption DEF Arguments
<1>2. i \div 2^j \in Nat /\ index \div 2^j \in Nat
  BY <1>1, LevelUp
<1>3. SiblingAt(j) \in Nat
  BY <1>2, SiblingBack DEF SiblingAt
<1>4. Sibling(i \div 2^j) = index \div 2^j <=> i \div 2^j = SiblingAt(j)
  BY <1>2, SiblingBack DEF SiblingAt
<1>5. (SiblingAt(j) + 1) * 2^j = i + 1 <=> i % 2^j = 2^j - 1 /\ i \div 2^j = SiblingAt(j)
  <2> DEFINE s == SiblingAt(j)
  <2>1. s \in Nat
    BY <1>3
  <2> HIDE DEF s
  <2>2. (s + 1) * 2^j = i + 1 <=> i % 2^j = 2^j - 1 /\ i \div 2^j = s
    BY <1>1, <2>1, LastOfSubtree
  <2> QED
    BY <2>2 DEF s
<1> QED
  BY <1>4, <1>5 DEF IsSibling

\* What one iteration of merge does to the branch: an entry is written exactly when the
\* last leaf below it is merged in, or in the padding.
LEMMA MergeBranch ==
  ASSUME IInv, MergeStep
  PROVE  /\ branch' = [level \in 0..(limitDepth - 1) |-> branch'[level]]
         /\ Branching'
<1>1. pc = "merge" /\ UNCHANGED <<quiet, args>>
      /\ branch' = (IF IsSibling(j) THEN [branch EXCEPT ![j] = h] ELSE branch)
  BY DEF MergeStep
<1>2. /\ Branching /\ Merging /\ limitDepth \in Nat /\ count \in Nat /\ i \in Nat /\ j \in Nat /\ i <= count
      /\ branch = [level \in 0..(limitDepth - 1) |-> branch[level]]
  BY <1>1, WhileMerging
<1>3. branch' = [level \in 0..(limitDepth - 1) |-> branch'[level]]
  BY <1>1, <1>2
<1>4. \A level \in 0..(limitDepth - 1) :
        branch'[level] = IF level = j /\ IsSibling(j) THEN h ELSE branch[level]
  BY <1>1, <1>2
<1>5. count' = count /\ fn' = fn /\ quiet' = quiet /\ limitDepth' = limitDepth /\ Tree' = Tree
      /\ \A level : SiblingAt(level)' = SiblingAt(level)
  BY <1>1, ArgsFixed, SiblingsFixed DEF args
<1> SUFFICES ASSUME fn = "ConstructProof", NEW level \in 0..(limitDepth - 1),
                    Entered(level)' \/ (quiet /\ SiblingAt(level) * 2^level >= count)
             PROVE  branch'[level] = Tree[level][SiblingAt(level)]
  BY <1>3, <1>5 DEF Branching
<1> DEFINE next == (SiblingAt(level) + 1) * 2^level
<1>6. next \in Nat /\ SiblingAt(level) \in Nat /\ level \in Nat
  <2>1. index \in Nat /\ level \in Nat
    BY <1>1, WhileMerging, MaxLimitAssumption DEF Arguments
  <2>2. index \div 2^level \in Nat
    BY <2>1, LevelUp
  <2>3. SiblingAt(level) \in Nat /\ 2^level \in Nat
    BY <2>1, <2>2, SiblingBack, PowerNat DEF SiblingAt
  <2> QED
    BY <2>1, <2>3
<1>7. IsSibling(j) <=> (SiblingAt(j) + 1) * 2^j = i + 1
  BY <1>1, SiblingMerged
<1>8. IsSibling(j) => SiblingAt(j) = i \div 2^j
  <2>1. index \in Nat
    BY <1>1, WhileMerging, MaxLimitAssumption DEF Arguments
  <2>2. i \div 2^j \in Nat /\ index \div 2^j \in Nat
    BY <1>2, <2>1, LevelUp
  <2> QED
    BY <2>2, SiblingBack DEF SiblingAt, IsSibling
<1>9. CASE level = j /\ IsSibling(j)
  <2>1. branch'[level] = h
    BY <1>4, <1>9
  <2>2. next = i + 1
    BY <1>7, <1>9
  <2>3. h = Tree[j][i \div 2^j]
    <3>1. CASE i < count
      BY <1>1, <1>2, <3>1 DEF Merging
    <3>2. CASE i = count
      <4>1. ~(Entered(level)')
        <5>1. i' = i
          BY <3>2, <1>2 DEF MergeStep
        <5>2. ~(next <= i') /\ ~(i' < count')
          BY <1>2, <1>5, <2>2, <3>2, <5>1
        <5> QED
          BY <1>5, <5>2 DEF Entered
      <4> QED
        BY <1>1, <1>2, <3>2, <4>1 DEF Merging
    <3> QED
      BY <1>2, <3>1, <3>2
  <2> QED
    BY <1>8, <1>9, <2>1, <2>3
<1>10. CASE ~(level = j /\ IsSibling(j))
  <2>1. branch'[level] = branch[level]
    BY <1>4, <1>10
  <2>2. ASSUME Entered(level)' PROVE Entered(level)
    <3>1. next <= i' \/ (pc' = "merge" /\ i' < count /\ level < j' /\ next = i' + 1)
      BY <1>5, <2>2 DEF Entered
    <3>2. level = j => next # i + 1
      BY <1>7, <1>10
    <3> HIDE DEF next
    <3>3. CASE i' = i /\ next <= i
      BY <3>3 DEF Entered, next
    <3>4. CASE i' = i /\ ~(next <= i)
      <4>1. i < count /\ level < j' /\ next = i + 1 /\ pc' = "merge"
        BY <3>1, <3>4
      <4>2. j' = j + 1
        BY <1>2, <4>1 DEF MergeStep
      <4>3. level < j
        BY <1>2, <1>6, <3>2, <4>1, <4>2
      <4> QED
        BY <1>1, <4>1, <4>3 DEF Entered, next
    <3>5. CASE i' # i
      <4>1. i' = i + 1 /\ i < count /\ LeftSide /\ pc' = "leaf"
        BY <3>5 DEF MergeStep
      <4>2. next <= i + 1
        BY <3>1, <4>1
      <4>3. CASE next <= i
        BY <4>3 DEF Entered, next
      <4>4. CASE next = i + 1
        <5>1. level <= j
          <6> SUFFICES ASSUME level > j PROVE FALSE
            BY <1>2, <1>6
          <6>1. i % 2^level # 2^level - 1
            BY <1>1, <1>2, <1>6, <4>1, Carry DEF Merging, LeftSide
          <6> QED
            BY <1>2, <1>6, <4>4, <6>1, LastOfSubtree DEF next
        <5>2. level < j
          BY <1>2, <1>6, <3>2, <4>4, <5>1
        <5> QED
          BY <1>1, <4>1, <4>4, <5>2 DEF Entered, next
      <4> QED
        BY <1>2, <1>6, <4>2, <4>3, <4>4
    <3> QED
      BY <3>3, <3>4, <3>5
  <2>3. Entered(level) \/ (quiet /\ SiblingAt(level) * 2^level >= count)
    BY <2>2
  <2> QED
    BY <1>1, <1>2, <2>1, <2>3 DEF Branching
<1> QED
  BY <1>9, <1>10

\* h merged with the zero hash right of it, in the padding.
LEMMA PadIsRight ==
  ASSUME IInv, pc = "merge", LeftSide, PadHere, quiet
  PROVE  Combi(hasher, h, ZeroRight(j)) = Tree[j + 1][i \div 2^(j + 1)]
<1>1. /\ Sized /\ TableInv /\ limitDepth \in Nat /\ count \in Nat /\ i \in Nat /\ j \in Nat
      /\ depth \in 0..limitDepth /\ i < 2^limitDepth /\ i = count /\ j < depth
      /\ h = Tree[j][i \div 2^j] /\ filling = "done" /\ hFn = hasher
  BY WhileMerging DEF Merging, Quietness, PadHere
<1>2. j \in 0..(limitDepth - 1) /\ j \in 0..limitDepth
  BY <1>1
<1> DEFINE m == i \div 2^j
           n == i \div 2^(j + 1)
           p == 2^j
           v == 2^(limitDepth - j - 1)
<1>3. m \in Nat /\ n = m \div 2 /\ m % 2 = 0 /\ n \in Nat
  BY <1>1, LevelUp DEF LeftSide
<1>4. limitDepth - j - 1 \in Nat /\ limitDepth - j = (limitDepth - j - 1) + 1
      /\ limitDepth - (j + 1) = limitDepth - j - 1
  BY <1>1, <1>2
<1>5. v \in Nat /\ 2^(limitDepth - j) = 2 * v /\ p \in Nat /\ p >= 1
  BY <1>1, <1>4, PowerNat, PowerStep, PowerPositive
<1>6. n < v
  <2>1. j + 1 \in Nat /\ j + 1 <= limitDepth
    BY <1>1, <1>2
  <2>2. n < 2^(limitDepth - (j + 1))
    BY <1>1, <2>1, InTree
  <2> QED
    BY <1>4, <2>2
<1>7. i = m * p + (i % p) /\ i % p \in 0..(p - 1)
  <2> HIDE DEF p
  <2> QED
    BY <1>1, <1>5, Division DEF m, p
<1>8. Tree[j + 1][n] = Combi(hasher, Tree[j][m], Tree[j][m + 1])
  BY <1>1, <1>2, <1>3, NodeAbove
<1> HIDE DEF m, n, p, v
<1>9. m + 1 \in 0..(2 * v - 1)
  BY <1>3, <1>5, <1>6
<1>10. (m + 1) * p >= i
  <2>1. (m + 1) * p = m * p + p /\ m * p \in Nat
    BY <1>3, <1>5
  <2> QED
    BY <1>1, <1>5, <1>7, <2>1
<1>11. Tree[j][m + 1] = Table[j]
  BY <1>1, <1>2, <1>5, <1>9, <1>10, ZeroSubtree DEF p
<1> QED
  BY <1>1, <1>8, <1>11 DEF ZeroRight, m, n

\* h merged with the node that waits left of it.
LEMMA MergeIsRight ==
  ASSUME IInv, pc = "merge", ~LeftSide
  PROVE  /\ j < limitDepth
         /\ i = count => j < depth
         /\ h = Tree[j][i \div 2^j] => MergeLeft = Tree[j + 1][i \div 2^(j + 1)]
<1>1. /\ Sized /\ limitDepth \in Nat /\ i \in Nat /\ j \in Nat /\ j \in 0..limitDepth /\ i < 2^limitDepth /\ Pending
      /\ depth \in Nat
      /\ i = count => i < 2^depth
  BY WhileMerging
<1>2. i \div 2^j \in Nat /\ (i \div 2^j) % 2 # 0
  BY <1>1, LevelUp DEF LeftSide
<1>3. j < limitDepth /\ (i = count => j < depth)
  <2>1. ASSUME NEW d \in Nat, i < 2^d PROVE j < d
    BY <1>1, <1>2, <2>1, BitInTree
  <2> QED
    BY <1>1, <2>1
<1>4. (i \div 2^j) % 2 = 1
  <2> DEFINE m == i \div 2^j
  <2> HIDE DEF m
  <2>1. m \in Nat /\ m % 2 # 0
    BY <1>2 DEF m
  <2>2. m % 2 = 1
    BY <2>1
  <2> QED
    BY <2>2 DEF m
<1>5. tmp[j] = Tree[j][i \div 2^j - 1]
  BY <1>1, <1>4 DEF Pending
<1>6. j \in 0..(limitDepth - 1)
  BY <1>1, <1>3
<1>7. Tree[j + 1][i \div 2^(j + 1)] = Combi(hasher, Tree[j][i \div 2^j - 1], Tree[j][i \div 2^j])
  BY <1>1, <1>2, <1>6, NodeAbove
<1> QED
  BY <1>3, <1>5, <1>7 DEF MergeLeft

\* The node of leaf i that is stored at level j completes what the next leaf finds.
LEMMA StoredIsPending ==
  ASSUME IInv, pc = "merge", LeftSide, i < count,
         tmp' = [tmp EXCEPT ![j] = h], i' = i + 1, UNCHANGED args
  PROVE  Pending'
<1>1. /\ limitDepth \in Nat /\ i \in Nat /\ j \in Nat /\ j \in 0..limitDepth /\ Pending
      /\ i % 2^j = 2^j - 1 /\ h = Tree[j][i \div 2^j]
      /\ tmp = [level \in 0..limitDepth |-> tmp[level]]
  BY WhileMerging DEF Merging
<1>2. /\ (i + 1) \div 2^j = i \div 2^j + 1
      /\ \A l \in 0..(j - 1) : ((i + 1) \div 2^l) % 2 = 0
      /\ \A l \in Nat : l > j => (i + 1) \div 2^l = i \div 2^l
  BY <1>1, Carry DEF LeftSide
<1>3. limitDepth' = limitDepth /\ Tree' = Tree
  BY ArgsFixed
<1>4. i \div 2^j \in Nat
  BY <1>1, LevelUp
<1> SUFFICES ASSUME NEW level \in 0..limitDepth, ((i + 1) \div 2^level) % 2 = 1
             PROVE  tmp'[level] = Tree[level][(i + 1) \div 2^level - 1]
  BY <1>3 DEF Pending
<1>5. CASE level < j
  <2>1. level \in 0..(j - 1)
    BY <1>1, <1>5
  <2> QED
    BY <1>2, <2>1
<1>6. CASE level = j
  <2>1. tmp'[level] = h
    BY <1>1, <1>6
  <2>2. (i + 1) \div 2^level - 1 = i \div 2^j
    BY <1>2, <1>4, <1>6
  <2> QED
    BY <1>1, <1>6, <2>1, <2>2
<1>7. CASE level > j
  <2>1. tmp'[level] = tmp[level] /\ level \in Nat
    BY <1>1, <1>7
  <2>2. (i + 1) \div 2^level = i \div 2^level
    BY <1>2, <1>7, <2>1
  <2> QED
    BY <1>1, <2>1, <2>2 DEF Pending
<1> QED
  BY <1>1, <1>5, <1>6, <1>7

\* One iteration of merge.
LEMMA MergeStepIInv == ASSUME IInv, MergeStep PROVE IInv'
<1>1. /\ pc = "merge" /\ UNCHANGED <<source, out, quiet>> /\ UNCHANGED args /\ UNCHANGED tableVars
  BY DEF MergeStep
<1>2. /\ Working /\ Arguments /\ Quietness /\ TableInv /\ Pending /\ Branching /\ Merging
      /\ Sized /\ limitDepth \in Nat /\ count \in Nat /\ i \in Nat /\ depth \in 0..limitDepth
      /\ depth \in Nat /\ count <= 2^depth
      /\ j \in 0..limitDepth /\ j \in Nat
      /\ i = count => i < 2^depth
      /\ i <= count /\ i \in 0..count
      /\ tmp = [level \in 0..limitDepth |-> tmp[level]]
  BY <1>1, WhileMerging
<1>3. /\ limitDepth' = limitDepth /\ depth' = depth /\ Tree' = Tree /\ Height' = Height /\ count' = count
  BY <1>1, ArgsFixed DEF args
<1>4. TableInv'
  BY <1>1, <1>2, TableKept
<1>5. Branching' /\ branch' = [level \in 0..(limitDepth - 1) |-> branch'[level]]
  BY MergeBranch
<1>6. ASSUME pc' \in {"merge", "leaf", "extend"}, i' \in 0..count, j' \in 0..limitDepth,
             tmp' = [level \in 0..limitDepth |-> tmp'[level]],
             Merging', Extending', pc' = "leaf" => Pending'
      PROVE  IInv'
  <2>1. Arguments'
    BY <1>1, <1>2, <1>5, <1>6, ArgumentsKept DEF Working
  <2>2. Quietness'
    BY <1>1, <1>2, <1>6 DEF Quietness, args, tableVars
  <2> QED
    BY <1>4, <1>5, <1>6, <2>1, <2>2 DEF IInv, MerkleInv, Copying,
       Results, RootCorrect, FullBranch, LeavesNeedNoTable
<1>7. CASE LeftSide /\ PadHere /\ h' = Combi(hasher, h, ZeroRight(j)) /\ j' = j + 1 /\ UNCHANGED <<i, tmp, pc>>
  <2>1. i = count /\ j < depth
    BY <1>7 DEF PadHere
  <2>2. Pending'
    BY <1>2, <1>3, <1>7 DEF Pending
  <2>3. quiet => h' = Tree[j + 1][i \div 2^(j + 1)]
    BY <1>1, <1>7, PadIsRight
  <2>4. Merging'
    <3>1. i' = count' /\ ~(i' < count') /\ j' <= depth' /\ 2^depth' # count'
      BY <1>1, <1>2, <1>3, <1>7, <2>1 DEF Merging
    <3>2. quiet' => h' = Tree'[j'][i' \div 2^j']
      BY <1>1, <1>3, <1>7, <2>3
    <3> QED
      BY <2>2, <3>1, <3>2 DEF Merging
  <2>5. i' \in 0..count /\ j' \in 0..limitDepth
    BY <1>2, <1>7, <2>1
  <2> QED
    BY <1>1, <1>2, <1>6, <1>7, <2>4, <2>5 DEF Extending
<1>8. CASE ~LeftSide /\ h' = MergeLeft /\ j' = j + 1 /\ UNCHANGED <<i, tmp, pc>>
  <2>1. j < limitDepth /\ (i = count => j < depth)
        /\ (h = Tree[j][i \div 2^j] => h' = Tree[j + 1][i \div 2^(j + 1)])
    BY <1>1, <1>8, MergeIsRight
  <2>2. Pending'
    BY <1>2, <1>3, <1>8 DEF Pending
  <2>3. i < count => i % 2^(j + 1) = 2^(j + 1) - 1
    <3> SUFFICES ASSUME i < count PROVE i % 2^(j + 1) = 2^(j + 1) - 1
      OBVIOUS
    <3> DEFINE p == 2^j
               m == i \div 2^j
    <3>1. i % 2^(j + 1) = (m % 2) * p + (p - 1) /\ 2^(j + 1) = 2 * p /\ p \in Nat /\ m \in Nat
      <4>1. i \in Nat /\ j \in Nat /\ i % p = p - 1
        BY <1>1, <1>2 DEF Merging
      <4>2. m \in Nat /\ i % 2^(j + 1) = (m % 2) * p + (i % p)
        BY <4>1, LevelUp
      <4>3. 2^(j + 1) = 2 * p /\ p \in Nat
        BY <4>1, PowerStep, PowerNat
      <4> HIDE DEF p, m
      <4> QED
        BY <4>1, <4>2, <4>3
    <3>2. m % 2 # 0
      BY <1>8 DEF LeftSide
    <3> HIDE DEF p, m
    <3>3. m % 2 = 1 /\ 1 * p = p
      BY <3>1, <3>2
    <3> QED
      BY <3>1, <3>3
  <2>4. Merging'
    <3>1. 2^depth' # count' \/ i' # count'
      BY <1>1, <1>2, <1>3, <1>8 DEF Merging
    <3>2. i' = count' => j' <= depth'
      BY <1>2, <1>3, <1>8, <2>1
    <3>3. h = Tree[j][i \div 2^j] => h' = Tree'[j'][i' \div 2^j']
      BY <1>3, <1>8, <2>1
    <3>4. i' < count' => i' % 2^j' = 2^j' - 1 /\ h' = Tree'[j'][i' \div 2^j']
      BY <1>1, <1>2, <1>3, <1>8, <2>3, <3>3 DEF Merging
    <3>5. i' = count' /\ quiet' => h' = Tree'[j'][i' \div 2^j']
      BY <1>1, <1>2, <1>3, <1>8, <3>3 DEF Merging
    <3> QED
      BY <2>2, <3>1, <3>2, <3>4, <3>5 DEF Merging
  <2>5. i' \in 0..count /\ j' \in 0..limitDepth
    BY <1>2, <1>8, <2>1
  <2> QED
    BY <1>1, <1>2, <1>6, <1>8, <2>4, <2>5 DEF Extending
<1>9. CASE LeftSide /\ ~PadHere /\ tmp' = [tmp EXCEPT ![j] = h] /\ i < count
           /\ pc' = "leaf" /\ i' = i + 1 /\ j' = j
  <2>1. Pending'
    BY <1>1, <1>9, StoredIsPending
  <2>2. i' \in 0..count /\ j' \in 0..limitDepth
    BY <1>2, <1>9
  <2>3. tmp' = [level \in 0..limitDepth |-> tmp'[level]]
    BY <1>2, <1>9
  <2> QED
    BY <1>6, <1>9, <2>1, <2>2, <2>3 DEF Merging, Extending
<1>10. CASE LeftSide /\ ~PadHere /\ tmp' = [tmp EXCEPT ![j] = h] /\ ~(i < count)
            /\ pc' = "extend" /\ j' = depth /\ i' = i
  <2>1. i = count /\ j = depth /\ 2^depth # count
    BY <1>1, <1>2, <1>10 DEF PadHere, Merging
  <2>2. i \div 2^depth = 0
    <3> DEFINE p == 2^depth
    <3>1. p \in Nat /\ p >= 1 /\ i < p
      BY <1>2, <2>1, PowerNat, PowerPositive
    <3> HIDE DEF p
    <3>2. i = 0 * p + i /\ i \in 0..(p - 1)
      BY <1>2, <3>1
    <3>3. i \div p = 0
      BY <1>2, <3>1, <3>2, DivisionUnique
    <3> QED
      BY <3>3 DEF p
  <2>3. tmp'[depth] = h
    BY <1>2, <1>10, <2>1
  <2>4. Extending'
    BY <1>1, <1>2, <1>3, <1>10, <2>1, <2>2, <2>3 DEF Merging, Extending
  <2>5. i' \in 0..count /\ j' \in 0..limitDepth /\ tmp' = [level \in 0..limitDepth |-> tmp'[level]]
    BY <1>2, <1>10
  <2> QED
    BY <1>6, <1>10, <2>4, <2>5 DEF Merging
<1> QED
  BY <1>7, <1>8, <1>9, <1>10 DEF MergeStep

(***************************************************************************)
(* The rest of the call, and InitZeroHashes at any time.                   *)
(***************************************************************************)

\* A level up with a zero hash, and the returns.
LEMMA ExtendIInv == ASSUME IInv, Extend PROVE IInv'
<1>1. /\ pc = "extend"
      /\ UNCHANGED <<i, source, branch, quiet>> /\ UNCHANGED args /\ UNCHANGED tableVars
      /\ Working /\ Arguments /\ Quietness /\ TableInv /\ Branching /\ Extending
  BY DEF Extend, IInv, MerkleInv, Working
<1>2. /\ limitDepth' = limitDepth /\ depth' = depth /\ Tree' = Tree /\ Height' = Height
      /\ count' = count /\ limit' = limit /\ fn' = fn /\ quiet' = quiet
  BY <1>1, ArgsFixed DEF args
<1>3. TableInv'
  BY <1>1, TableKept
<1>4. /\ Sized /\ limitDepth \in Nat /\ count \in Nat /\ i \in Nat /\ depth \in 0..limitDepth
      /\ depth \in Nat /\ count <= 2^depth /\ 2^depth \in Nat /\ 2^limitDepth \in Nat
      /\ count = 2^limitDepth => depth = limitDepth
      /\ Height = limitDepth /\ limit \in Nat /\ limit > 1
  BY <1>1, WhileWorking DEF Sized
<1>5. /\ i = count /\ depth <= j /\ j \in 0..limitDepth
      /\ quiet \/ (2^depth = count /\ j = depth) => tmp[j] = Tree[j][0]
      /\ tmp = [level \in 0..limitDepth |-> tmp[level]]
      /\ branch = [level \in 0..(limitDepth - 1) |-> branch[level]]
  BY <1>1 DEF Arguments, Extending
<1>6. CASE /\ fn = "Merkleize" /\ j < limitDepth
           /\ tmp' = [tmp EXCEPT ![j + 1] = Combi(hasher, tmp[j], ZeroRight(j))]
           /\ j' = j + 1 /\ UNCHANGED <<pc, out>>
  <2>1. pc' = "extend" /\ j' \in 0..limitDepth /\ j \in 0..(limitDepth - 1) /\ j \in Nat
        /\ j + 1 \in 0..limitDepth
    BY <1>1, <1>4, <1>5, <1>6
  <2>2. tmp' = [level \in 0..limitDepth |-> tmp'[level]]
        /\ branch' = [level \in 0..(limitDepth - 1) |-> branch'[level]]
    BY <1>1, <1>5, <1>6
  <2>3. Arguments'
    BY <1>1, <1>4, <1>5, <2>1, <2>2, ArgumentsKept DEF Working
  <2>4. Quietness'
    BY <1>1, <2>1 DEF Quietness, args, tableVars
  <2>5. Branching'
    BY <1>1, <1>4, <2>1, BranchKept
  <2>6. quiet => tmp'[j + 1] = Tree[j + 1][0]
    <3> SUFFICES ASSUME quiet PROVE tmp'[j + 1] = Tree[j + 1][0]
      OBVIOUS
    <3>1. tmp'[j + 1] = Combi(hasher, tmp[j], Table[j])
      BY <1>5, <1>6, <2>1 DEF ZeroRight
    <3>2. Tree[j][0] = tmp[j]
      BY <1>5
    <3> DEFINE v == 2^(limitDepth - j - 1)
               p == 2^j
    <3>3. limitDepth - j - 1 \in Nat /\ limitDepth - j = (limitDepth - j - 1) + 1
      BY <1>4, <2>1
    <3>4. v \in Nat /\ v >= 1 /\ 2^(limitDepth - j) = 2 * v /\ p \in Nat /\ count <= p
      <4>1. 2^depth <= 2^j /\ 2^j \in Nat
        BY <1>4, <1>5, <2>1, PowerMonotone, PowerNat
      <4> QED
        BY <1>4, <3>3, <4>1, PowerNat, PowerPositive, PowerStep
    <3> HIDE DEF v, p
    <3>5. 1 \in 0..(2 * v - 1) /\ 0 \in 0..(v - 1) /\ 1 * p >= count
      BY <1>4, <3>4
    <3>6. Tree[j][1] = Table[j]
      <4>1. filling = "done" /\ hFn = hasher
        BY <1>1 DEF Quietness
      <4>2. j \in 0..limitDepth
        BY <1>5
      <4>3. 1 \in 0..(2^(limitDepth - j) - 1) /\ 1 * 2^j >= count
        BY <3>4, <3>5 DEF p
      <4> QED
        BY <1>1, <1>4, <4>1, <4>2, <4>3, ZeroSubtree
    <3>7. Tree[j + 1][0] = Combi(hasher, Tree[j][2 * 0], Tree[j][2 * 0 + 1])
      BY <1>4, <2>1, <3>5, TreeLevels DEF v
    <3> QED
      BY <3>1, <3>2, <3>6, <3>7, 2 * 0 = 0, 2 * 0 + 1 = 1
  <2>7. Extending'
    <3>1. depth <= j + 1 /\ ~(j + 1 = depth)
      BY <1>4, <1>5
    <3> QED
      BY <1>1, <1>2, <1>5, <1>6, <2>6, <3>1 DEF Extending
  <2> QED
    BY <1>3, <2>1, <2>3, <2>4, <2>5, <2>7 DEF IInv, MerkleInv, Copying, Merging,
       Results, RootCorrect, FullBranch, LeavesNeedNoTable
<1>7. ASSUME pc' = "return", UNCHANGED <<tmp, j>>, Results'
      PROVE  IInv'
  <2>1. ~(Working') /\ i' = i /\ index' = index
    BY <1>1, <1>7 DEF Working, args
  <2>2. Arguments'
    BY <1>1, <1>2, <1>7, <2>1 DEF Arguments
  <2>3. Quietness'
    BY <1>1, <1>7 DEF Quietness, args, tableVars
  <2> QED
    BY <1>3, <1>7, <2>2, <2>3 DEF IInv, MerkleInv, Copying, Merging, Extending, Branching
<1>8. CASE fn = "Merkleize" /\ j >= limitDepth /\ out' = tmp[limitDepth] /\ pc' = "return"
           /\ UNCHANGED <<tmp, j>>
  <2>1. j = limitDepth
    BY <1>4, <1>5, <1>8
  <2>2. quiet => out' = Tree[limitDepth][0]
    BY <1>5, <1>8, <2>1
  <2>3. count = 2^limitDepth => out' = Tree[limitDepth][0]
    BY <1>4, <1>5, <1>8, <2>1
  <2>4. RootCorrect'
    <3>1. ~(limit' = 0)
      BY <1>2, <1>4
    <3> QED
      BY <1>2, <1>4, <2>2, <3>1 DEF RootCorrect
  <2>5. LeavesNeedNoTable' /\ FullBranch'
    BY <1>2, <1>4, <1>8, <2>3 DEF LeavesNeedNoTable, FullBranch
  <2> QED
    BY <1>7, <1>8, <2>4, <2>5 DEF Results
<1>9. CASE fn = "ConstructProof" /\ pc' = "return" /\ UNCHANGED <<tmp, j, out>>
  <2>1. ASSUME NEW level \in 0..(limitDepth - 1),
               (SiblingAt(level) + 1) * 2^level <= count
                 \/ (quiet /\ SiblingAt(level) * 2^level >= count)
        PROVE  branch'[level] = Tree'[level][SiblingAt(level)']
    <3>1. Entered(level) \/ (quiet /\ SiblingAt(level) * 2^level >= count)
      BY <1>5, <2>1 DEF Entered
    <3>2. branch[level] = Tree[level][SiblingAt(level)]
      BY <1>1, <1>9, <3>1 DEF Branching
    <3>3. SiblingAt(level)' = SiblingAt(level)
      BY <1>1, SiblingsFixed
    <3> QED
      BY <1>1, <1>2, <3>2, <3>3
  <2>2. \A level : SiblingAt(level)' = SiblingAt(level)
    BY <1>1, SiblingsFixed
  <2>3. RootCorrect'
    BY <1>2, <1>9 DEF RootCorrect
  <2>4. FullBranch'
    BY <1>2, <2>1, <2>2 DEF FullBranch
  <2>5. LeavesNeedNoTable'
    BY <1>2, <1>9, <2>1, <2>2 DEF LeavesNeedNoTable
  <2> QED
    BY <1>7, <1>9, <2>3, <2>4, <2>5 DEF Results
<1> QED
  BY <1>6, <1>8, <1>9 DEF Extend

\* A step of InitZeroHashes while a call runs leaves the call without a quiet table,
\* and what the leaves alone determine as it was.
LEMMA SetTableIInv == ASSUME IInv, SetTable PROVE IInv'
<1>1. /\ pc \notin {"return", "panic"} /\ UNCHANGED args
      /\ UNCHANGED <<i, j, h, tmp, source, branch, pc, out>>
      /\ quiet' = (quiet /\ filling' = "done")
      /\ TableInv /\ Arguments /\ Quietness
  BY DEF SetTable, IInv, MerkleInv
<1>2. TableInv'
  BY <1>1, FillInv, InitZeroHashesInv DEF SetTable
<1>3. /\ limitDepth' = limitDepth /\ depth' = depth /\ Tree' = Tree /\ Height' = Height
      /\ count' = count /\ limit' = limit /\ index' = index /\ fn' = fn
      /\ \A level : SiblingAt(level)' = SiblingAt(level)
  BY <1>1, ArgsFixed, SiblingsFixed DEF args
<1>4. pc # "idle" => ~quiet'
  <2>1. filling' = "done" => filling # "done"
    BY DEF SetTable, Fill, FillStart, FillEnd, FillDone, InitZeroHashes
  <2> QED
    BY <1>1, <2>1 DEF Quietness
<1>5. Arguments'
  BY <1>1, <1>3 DEF Arguments, Working
<1>6. Quietness'
  BY <1>1, <1>4 DEF Quietness
<1>7. Copying'
  BY <1>1, <1>3, <1>4 DEF IInv, MerkleInv, Copying
<1>8. pc \in {"leaf", "merge"} => Pending'
  BY <1>1, <1>3 DEF IInv, MerkleInv, Merging, Pending
<1>9. Merging'
  BY <1>1, <1>3, <1>4, <1>8 DEF IInv, MerkleInv, Merging
<1>10. Extending'
  BY <1>1, <1>3, <1>4 DEF IInv, MerkleInv, Extending
<1>11. Branching'
  BY <1>1, <1>3, <1>4 DEF IInv, MerkleInv, Branching, Entered
<1> QED
  BY <1>1, <1>2, <1>5, <1>6, <1>7, <1>8, <1>9, <1>10, <1>11 DEF IInv, MerkleInv,
     Results, RootCorrect, FullBranch, LeavesNeedNoTable

\* After the return.
LEMMA StutterIInv == ASSUME IInv, UNCHANGED vars PROVE IInv'
<1>1. UNCHANGED args /\ UNCHANGED tableVars /\ UNCHANGED <<i, j, h, tmp, source, branch, pc, out, quiet>>
  BY DEF vars
<1>2. TableInv' /\ Table' = Table
  BY <1>1, TableKept DEF IInv, tableVars, Table
<1>3. /\ limitDepth' = limitDepth /\ depth' = depth /\ Tree' = Tree /\ Height' = Height
      /\ hasher' = hasher /\ count' = count /\ limit' = limit /\ index' = index /\ fn' = fn
      /\ \A level : SiblingAt(level)' = SiblingAt(level)
  BY <1>1, ArgsFixed, SiblingsFixed DEF args
<1>4. Arguments' /\ Quietness' /\ Copying'
  BY <1>1, <1>2, <1>3 DEF IInv, MerkleInv, Arguments, Working, Quietness, Copying, tableVars
<1>5. Pending => Pending'
  BY <1>1, <1>3 DEF Pending
<1>6. (pc' = "leaf" => Pending') /\ Merging' /\ Extending'
  BY <1>1, <1>3, <1>5 DEF IInv, MerkleInv, Merging, Extending
<1>7. Branching'
  BY <1>1, <1>3 DEF IInv, MerkleInv, Branching, Entered
<1>8. Results'
  BY <1>1, <1>3 DEF IInv, MerkleInv, Results, RootCorrect, FullBranch, LeavesNeedNoTable
<1> QED
  BY <1>2, <1>4, <1>6, <1>7, <1>8 DEF IInv, MerkleInv

\* The invariant is inductive.
LEMMA NextIInv == IInv /\ [Next]_vars => IInv'
<1> SUFFICES ASSUME IInv, [Next]_vars PROVE IInv'
  OBVIOUS
<1>1. ASSUME NEW f \in HashFns, NEW fun \in Calls, NEW c \in 0..MaxLimit, NEW l \in 0..MaxLimit,
             NEW x \in (IF fun = "Merkleize" THEN {0} ELSE 0..MaxLimit), Call(f, fun, c, l, x)
      PROVE  IInv'
  <2>1. x \in 0..MaxLimit
    BY MaxLimitAssumption
  <2> QED
    BY <1>1, <2>1, CallIInv
<1>2. CASE Start
  BY <1>2, StartIInv
<1>3. CASE CopyZeroHash
  BY <1>3, CopyIInv
<1>4. CASE NextLeaf
  BY <1>4, NextLeafIInv
<1>5. CASE Complement
  BY <1>5, ComplementIInv
<1>6. CASE MergeStep
  BY <1>6, MergeStepIInv
<1>7. CASE Extend
  BY <1>7, ExtendIInv
<1>8. CASE SetTable
  BY <1>8, SetTableIInv
<1>9. CASE Returned \/ UNCHANGED vars
  BY <1>9, StutterIInv DEF Returned
<1> QED
  BY <1>1, <1>2, <1>3, <1>4, <1>5, <1>6, <1>7, <1>8, <1>9 DEF Next

(***************************************************************************)
(* The theorems.                                                           *)
(***************************************************************************)

\* The invariant holds of every state: Merkleize and ConstructProof with any arguments,
\* any hash functions, and InitZeroHashes at any time.
THEOREM Invariance == Spec => []IInv
  BY InitIInv, NextIInv, PTL DEF Spec

\* TypeOK: for every limit, Merkleize and ConstructProof index tmp, the branch and the
\* table of zero hashes inside their bounds.
THEOREM InBounds == Spec => []TypeOK
<1>1. IInv => TypeOK
  <2> SUFFICES ASSUME IInv PROVE TypeOK
    OBVIOUS
  <2>1. TableTypeOK
    <3>1. \E X : tables \in Seq(X)
      BY DEF IInv, TableInv, TableShape
    <3>2. Len(tables) \in Nat
      BY <3>1
    <3> QED
      BY <3>2 DEF IInv, TableInv, TableShape, TableTypeOK
  <2>2. Arguments
    BY DEF IInv, MerkleInv
  <2>3. Working => limitDepth <= zeroHashesLevels
    BY <2>2, WhileWorking
  <2>4. Working => DOMAIN tmp = 0..limitDepth /\ DOMAIN branch = 0..(limitDepth - 1) /\ j \in 0..limitDepth
    <3> SUFFICES ASSUME Working
                 PROVE  DOMAIN tmp = 0..limitDepth /\ DOMAIN branch = 0..(limitDepth - 1) /\ j \in 0..limitDepth
      OBVIOUS
    <3>1. /\ tmp = [level \in 0..limitDepth |-> tmp[level]]
          /\ branch = [level \in 0..(limitDepth - 1) |-> branch[level]]
          /\ j \in 0..limitDepth
      BY <2>2 DEF Arguments
    <3> QED
      BY <3>1
  <2> QED
    BY <2>1, <2>2, <2>3, <2>4 DEF TypeOK, Arguments, Working
<1> QED
  BY <1>1, Invariance, PTL

\* PendingSubtrees: before leaf i, tmp holds exactly the complete subtrees left of it,
\* one for each bit of i, whatever happens to the table of zero hashes meanwhile.
THEOREM SubtreesWait == Spec => []PendingSubtrees
<1>1. IInv => PendingSubtrees
  BY DEF IInv, MerkleInv, PendingSubtrees, Pending
<1> QED
  BY <1>1, Invariance, PTL

\* RootCorrect: for every count and limit, Merkleize returns the root of the balanced
\* tree, if the table is the one of its hash function and no InitZeroHashes runs
\* meanwhile.
THEOREM RootsCorrect == Spec => []RootCorrect
<1>1. IInv => RootCorrect
  BY DEF IInv, MerkleInv, Results
<1> QED
  BY <1>1, Invariance, PTL

\* LeavesNeedNoTable: the root of a full tree, and the entries of a branch whose leaves
\* all exist, are right even while InitZeroHashes changes the table.
THEOREM LeavesSuffice == Spec => []LeavesNeedNoTable
<1>1. IInv => LeavesNeedNoTable
  BY DEF IInv, MerkleInv, Results
<1> QED
  BY <1>1, Invariance, PTL

\* FullBranch: every entry of a branch whose subtree has all of its leaves, or none, is
\* that subtree.
THEOREM BranchesCorrect == Spec => []FullBranch
<1>1. IInv => FullBranch
  BY DEF IInv, MerkleInv, Results
<1> QED
  BY <1>1, Invariance, PTL

(***************************************************************************)
(* What a branch is for: whoever has the leaf at the index and its branch  *)
(* computes the root of the tree from them.                                *)
(***************************************************************************)
Up(below, level) ==
  IF (index \div 2^level) % 2 = 0 THEN Combi(hasher, below, branch[level])
  ELSE Combi(hasher, branch[level], below)

\* The node reached from the leaf with the branch.
Climbed ==
  LET up[l \in 0..limitDepth] == IF l = 0 THEN Tree[0][index] ELSE Up(up[l - 1], l - 1)
  IN  up[limitDepth]

IsClimb(f) == f = [l \in 0..limitDepth |-> IF l = 0 THEN Tree[0][index] ELSE Up(f[l - 1], l - 1)]

BranchIsRight == \A level \in 0..(limitDepth - 1) : branch[level] = Tree[level][SiblingAt(level)]

Indexed == Sized /\ index \in 0..MaxLimit /\ index < limit

\* The nodes over the leaf: each is made of the one below it and that one's sibling.
LEMMA NodesOver ==
  ASSUME Indexed
  PROVE  /\ limitDepth \in Nat \ {0} /\ index \in Nat
         /\ Tree[0][index \div 2^0] = Tree[0][index]
         /\ \A l \in 0..(limitDepth - 1) :
              Tree[l + 1][index \div 2^(l + 1)] =
                IF (index \div 2^l) % 2 = 0
                  THEN Combi(hasher, Tree[l][index \div 2^l], Tree[l][SiblingAt(l)])
                  ELSE Combi(hasher, Tree[l][SiblingAt(l)], Tree[l][index \div 2^l])
         /\ Tree[limitDepth][index \div 2^limitDepth] = Tree[Height][0]
<1>1. /\ Sized /\ limitDepth \in Nat \ {0} /\ index \in Nat /\ index < 2^limitDepth
      /\ Height = limitDepth /\ 2^limitDepth \in Nat
  <2>1. /\ Sized /\ limitDepth \in 1..zeroHashesLevels /\ limit <= 2^limitDepth /\ Height = limitDepth
    BY Depths DEF Indexed
  <2>2. limitDepth \in Nat \ {0} /\ index \in Nat /\ limit \in Nat /\ index < limit
    BY <2>1, LevelsAssumption, MaxLimitAssumption DEF Indexed, Sized
  <2>3. 2^limitDepth \in Nat
    BY <2>2, PowerNat
  <2> QED
    BY <2>1, <2>2, <2>3
<1>2. index \div 2^0 = index
  BY <1>1, PowerOfZero
<1>3. index \div 2^limitDepth = 0
  <2> DEFINE p == 2^limitDepth
  <2>1. index \in 0..(p - 1) /\ p \in Nat
    BY <1>1
  <2> HIDE DEF p
  <2>2. index = 0 * p + index /\ p >= 1
    BY <1>1, <2>1
  <2>3. index \div p = 0
    BY <1>1, <2>1, <2>2, DivisionUnique
  <2> QED
    BY <2>3 DEF p
<1>4. ASSUME NEW l \in 0..(limitDepth - 1)
      PROVE  Tree[l + 1][index \div 2^(l + 1)] =
               IF (index \div 2^l) % 2 = 0
                 THEN Combi(hasher, Tree[l][index \div 2^l], Tree[l][SiblingAt(l)])
                 ELSE Combi(hasher, Tree[l][SiblingAt(l)], Tree[l][index \div 2^l])
  <2>1. SiblingAt(l) = IF (index \div 2^l) % 2 = 0 THEN index \div 2^l + 1 ELSE index \div 2^l - 1
    BY DEF SiblingAt, Sibling
  <2>2. /\ (index \div 2^l) % 2 = 0 =>
             Tree[l + 1][index \div 2^(l + 1)] =
               Combi(hasher, Tree[l][index \div 2^l], Tree[l][index \div 2^l + 1])
        /\ (index \div 2^l) % 2 # 0 =>
             Tree[l + 1][index \div 2^(l + 1)] =
               Combi(hasher, Tree[l][index \div 2^l - 1], Tree[l][index \div 2^l])
    BY <1>1, NodeAbove
  <2> QED
    BY <2>1, <2>2
<1> QED
  BY <1>1, <1>2, <1>3, <1>4

\* There is one climb, and it takes a level at a time.
LEMMA Climbing ==
  ASSUME NEW f, IsClimb(f), limitDepth \in Nat
  PROVE  f[0] = Tree[0][index] /\ \A l \in 0..(limitDepth - 1) : f[l + 1] = Up(f[l], l)
<1>1. f = [l \in 0..limitDepth |-> IF l = 0 THEN Tree[0][index] ELSE Up(f[l - 1], l - 1)]
  BY DEF IsClimb
<1>2. f[0] = Tree[0][index]
  <2>1. 0 \in 0..limitDepth
    OBVIOUS
  <2> QED
    BY <1>1, <2>1
<1>3. ASSUME NEW l \in 0..(limitDepth - 1) PROVE f[l + 1] = Up(f[l], l)
  <2>1. l + 1 \in 0..limitDepth /\ l + 1 # 0 /\ (l + 1) - 1 = l
    OBVIOUS
  <2> QED
    BY <1>1, <2>1
<1> QED
  BY <1>2, <1>3

LEMMA ClimbExists ==
  ASSUME limitDepth \in Nat
  PROVE  \E f : IsClimb(f)
<1> DEFINE To(f, m) == f = [l \in 0..m |-> IF l = 0 THEN Tree[0][index] ELSE Up(f[l - 1], l - 1)]
           T == {m \in Nat : \E f : To(f, m)}
<1>1. 0 \in T
  <2> DEFINE f == [l \in 0..0 |-> Tree[0][index]]
  <2>1. To(f, 0)
    OBVIOUS
  <2> QED
    BY <2>1
<1>2. ASSUME NEW m \in Nat, m \in T PROVE m + 1 \in T
  <2>1. PICK f : To(f, m)
    BY <1>2
  <2> DEFINE last == Up(f[m], m)
             g == [l \in 0..(m + 1) |-> IF l = m + 1 THEN last ELSE f[l]]
  <2>2. \A l \in 0..m : g[l] = f[l]
    OBVIOUS
  <2>3. g[m + 1] = last /\ g = [l \in 0..(m + 1) |-> g[l]]
    OBVIOUS
  <2> HIDE DEF g
  <2>4. ASSUME NEW l \in 0..(m + 1)
        PROVE  g[l] = IF l = 0 THEN Tree[0][index] ELSE Up(g[l - 1], l - 1)
    <3>1. CASE l = m + 1
      <4>1. l # 0 /\ l - 1 = m /\ m \in 0..m
        BY <3>1
      <4> QED
        BY <2>2, <2>3, <3>1, <4>1
    <3>2. CASE l # m + 1
      <4>1. l \in 0..m /\ (l # 0 => l - 1 \in 0..m)
        BY <3>2
      <4>2. f[l] = IF l = 0 THEN Tree[0][index] ELSE Up(f[l - 1], l - 1)
        BY <2>1, <4>1
      <4> QED
        BY <2>2, <4>1, <4>2
    <3> QED
      BY <3>1, <3>2
  <2>5. To(g, m + 1)
    BY <2>3, <2>4
  <2> HIDE DEF To
  <2> QED
    BY <2>5
<1> HIDE DEF T
<1>3. limitDepth \in T
  BY <1>1, <1>2, SetInduction
<1> QED
  BY <1>3 DEF T, IsClimb

\* merkle/merkleize.go, ConstructProof: a leaf and its branch hash to the root of the tree
\* exactly when every entry of the branch is the sibling subtree. (Two nodes are the
\* same only if they are hashes of the same.)
THEOREM BranchProves ==
  ASSUME Indexed
  PROVE  Climbed = Tree[Height][0] <=> BranchIsRight
<1> DEFINE c == CHOOSE f : IsClimb(f)
           d == limitDepth
           node(l) == Tree[l][index \div 2^l]
<1>1. /\ d \in Nat \ {0}
      /\ node(0) = Tree[0][index]
      /\ \A l \in 0..(d - 1) :
           node(l + 1) = IF (index \div 2^l) % 2 = 0
                           THEN Combi(hasher, node(l), Tree[l][SiblingAt(l)])
                           ELSE Combi(hasher, Tree[l][SiblingAt(l)], node(l))
      /\ node(d) = Tree[Height][0]
  BY NodesOver
<1>2. Climbed = c[d]
  BY DEF Climbed, IsClimb
<1>3. IsClimb(c)
  <2>1. \E f : IsClimb(f)
    BY <1>1, ClimbExists
  <2> QED
    BY <2>1
<1> HIDE DEF c, node, d
<1>4. c[0] = node(0) /\ \A l \in 0..(d - 1) : c[l + 1] = Up(c[l], l)
  BY <1>1, <1>3, Climbing DEF d
<1>5. ASSUME NEW l \in 0..(d - 1)
      PROVE  c[l + 1] = node(l + 1) <=> c[l] = node(l) /\ branch[l] = Tree[l][SiblingAt(l)]
  <2>1. c[l + 1] = Up(c[l], l)
    BY <1>4
  <2>2. node(l + 1) = IF (index \div 2^l) % 2 = 0
                        THEN Combi(hasher, node(l), Tree[l][SiblingAt(l)])
                        ELSE Combi(hasher, Tree[l][SiblingAt(l)], node(l))
    BY <1>1
  <2>3. CASE (index \div 2^l) % 2 = 0
    BY <2>1, <2>2, <2>3 DEF Up, Combi
  <2>4. CASE (index \div 2^l) % 2 # 0
    BY <2>1, <2>2, <2>4 DEF Up, Combi
  <2> QED
    BY <2>3, <2>4
<1> DEFINE Right(l) == branch[l] = Tree[l][SiblingAt(l)]
           T == {m \in Nat : m <= d => (c[m] = node(m) <=> \A l \in 0..(m - 1) : Right(l))}
<1>6. 0 \in T
  BY <1>4
<1>7. ASSUME NEW m \in Nat, m \in T PROVE m + 1 \in T
  <2> SUFFICES ASSUME m + 1 <= d
               PROVE  c[m + 1] = node(m + 1) <=> \A l \in 0..((m + 1) - 1) : Right(l)
    OBVIOUS
  <2>1. m \in 0..(d - 1) /\ m <= d
    BY <1>1
  <2>2. c[m] = node(m) <=> \A l \in 0..(m - 1) : Right(l)
    BY <1>7, <2>1
  <2>3. c[m + 1] = node(m + 1) <=> c[m] = node(m) /\ Right(m)
    BY <1>5, <2>1
  <2>4. (\A l \in 0..((m + 1) - 1) : Right(l)) <=> (\A l \in 0..(m - 1) : Right(l)) /\ Right(m)
    <3>1. 0..((m + 1) - 1) = 0..(m - 1) \cup {m}
      OBVIOUS
    <3> HIDE DEF Right
    <3> QED
      BY <3>1
  <2> HIDE DEF Right
  <2> QED
    BY <2>2, <2>3, <2>4
<1>8. d \in T
  <2> HIDE DEF T
  <2> QED
    BY <1>1, <1>6, <1>7, SetInduction
<1>9. c[d] = node(d) <=> \A l \in 0..(d - 1) : Right(l)
  BY <1>1, <1>8
<1> QED
  BY <1>1, <1>2, <1>9 DEF BranchIsRight, d

\* A call that returns from a tree has passed its checks.
Checked ==
  pc = "return" /\ limit > 1 => Sized /\ (fn = "ConstructProof" => Indexed)

LEMMA CheckedKept ==
  ASSUME IInv, Checked, [Next]_vars
  PROVE  Checked'
<1>1. Arguments
  BY DEF IInv, MerkleInv
<1> SUFFICES ASSUME pc' = "return", limit' > 1 PROVE (Sized /\ (fn = "ConstructProof" => Indexed))'
  BY DEF Checked
<1>2. CASE pc = "return"
  <2>1. UNCHANGED args
    <3>1. CASE SetTable
      BY <1>2, <3>1 DEF SetTable
    <3>2. CASE Returned \/ UNCHANGED vars
      BY <3>2 DEF Returned, vars
    <3> QED
      BY <1>2, <3>1, <3>2 DEF Next, Call, Start, CopyZeroHash, NextLeaf, Complement, MergeStep, Extend
  <2>2. Sized /\ (fn = "ConstructProof" => Indexed)
    <3>1. limit > 1
      BY <2>1 DEF args
    <3> QED
      BY <1>2, <3>1 DEF Checked
  <2> QED
    BY <2>1, <2>2 DEF args, Sized, Indexed
<1>3. CASE pc # "return"
  <2>1. CASE Start
    <3>1. limit <= 1 /\ limit' = limit
      BY <2>1 DEF Start, args
    <3>2. limit \in Nat
      BY <1>1, MaxLimitAssumption DEF Arguments
    <3> QED
      BY <3>1, <3>2
  <2>2. CASE Extend
    <3>1. Working /\ UNCHANGED args
      BY <2>2 DEF Extend, Working
    <3> QED
      BY <1>1, <3>1 DEF Arguments, args, Sized, Indexed
  <2>3. CASE SetTable
    BY <1>3, <2>3 DEF SetTable
  <2>4. CASE Returned \/ UNCHANGED vars
    BY <1>3, <2>4 DEF Returned, vars
  <2> QED
    BY <2>1, <2>2, <2>3, <2>4 DEF Next, Call, CopyZeroHash, NextLeaf, Complement, MergeStep
<1> QED
  BY <1>2, <1>3

\* What a caller of ConstructProof relies on.
ProofVerifies ==
  pc = "return" /\ fn = "ConstructProof" /\ limit > 1 =>
    /\ Climbed = Tree[Height][0] <=> BranchIsRight
    /\ /\ quiet
       /\ \A level \in 0..(limitDepth - 1) :
            \/ (SiblingAt(level) + 1) * 2^level <= count
            \/ SiblingAt(level) * 2^level >= count
       => Climbed = Tree[Height][0]

\* merkle/merkleize.go, ConstructProof, in every run: what it returns proves the leaf
\* exactly when all of its entries are sibling subtrees, and it does so if the table is
\* quiet and no sibling subtree has only some of its leaves.
THEOREM ProofsVerify == Spec => []ProofVerifies
<1>1. Init => Checked
  BY DEF Init, Checked
<1>2. IInv /\ Checked /\ [Next]_vars => Checked'
  BY CheckedKept
<1>3. Spec => []Checked
  BY <1>1, <1>2, Invariance, PTL DEF Spec
<1>4. IInv /\ Checked => ProofVerifies
  <2> SUFFICES ASSUME IInv, Checked, pc = "return", fn = "ConstructProof", limit > 1
               PROVE  ProofVerifies
    BY DEF ProofVerifies
  <2>1. Climbed = Tree[Height][0] <=> BranchIsRight
    BY BranchProves DEF Checked
  <2>2. FullBranch
    BY DEF IInv, MerkleInv, Results
  <2> QED
    BY <2>1, <2>2 DEF ProofVerifies, FullBranch, BranchIsRight
<1> QED
  BY <1>3, <1>4, Invariance, PTL

(***************************************************************************)
(* What a root is for: it tells the leaves.                                *)
(***************************************************************************)
\* T has, level by level, the nodes over the leaves a.
IsTreeOver(T, f, a, height) ==
  /\ \A n \in 0..(2^height - 1) : T[0][n] = a[n]
  /\ \A l \in 0..(height - 1) : \A n \in 0..(2^(height - l - 1) - 1) :
       T[l + 1][n] = Combi(f, T[l][2 * n], T[l][2 * n + 1])

\* The reference tree is one.
LEMMA TreeIsTree ==
  ASSUME Sized
  PROVE  IsTreeOver(Tree, hasher, [n \in Nat |-> IF n < count THEN Leaf(n) ELSE ZeroChunk], Height)
<1>1. limitDepth \in Nat /\ Height = limitDepth /\ 2^limitDepth \in Nat
  BY Depths, PowerNat, LevelsAssumption
<1> HIDE DEF limitDepth, Tree, Height
<1>2. /\ \A n \in 0..(2^limitDepth - 1) : Tree[0][n] = IF n < count THEN Leaf(n) ELSE ZeroChunk
      /\ \A l \in 0..(limitDepth - 1) : \A n \in 0..(2^(limitDepth - l - 1) - 1) :
           Tree[l + 1][n] = Combi(hasher, Tree[l][2 * n], Tree[l][2 * n + 1])
  BY TreeLevels
<1> DEFINE a == [n \in Nat |-> IF n < count THEN Leaf(n) ELSE ZeroChunk]
<1>3. \A n \in 0..(2^limitDepth - 1) : a[n] = IF n < count THEN Leaf(n) ELSE ZeroChunk
  BY <1>1
<1> HIDE DEF a
<1>4. IsTreeOver(Tree, hasher, a, limitDepth)
  BY <1>2, <1>3 DEF IsTreeOver
<1> QED
  BY <1>1, <1>4 DEF a

Equal(S, T, l, height) == \A n \in 0..(2^(height - l) - 1) : S[l][n] = T[l][n]

\* Two rows are the same exactly when those below them are.
LEMMA EqualBelow ==
  ASSUME NEW height \in Nat, NEW f, NEW a, NEW b, NEW S, NEW T,
         IsTreeOver(S, f, a, height), IsTreeOver(T, f, b, height), NEW l \in 0..(height - 1)
  PROVE  Equal(S, T, l + 1, height) <=> Equal(S, T, l, height)
<1> DEFINE w == 2^(height - l - 1)
<1>1. height - (l + 1) = height - l - 1 /\ height - l - 1 \in Nat /\ height - l = (height - l - 1) + 1
  OBVIOUS
<1>2. w \in Nat /\ 2^(height - l) = 2 * w /\ 2^(height - (l + 1)) = w
  BY <1>1, PowerNat, PowerStep
<1>3. \A n \in 0..(w - 1) :
        /\ S[l + 1][n] = Combi(f, S[l][2 * n], S[l][2 * n + 1])
        /\ T[l + 1][n] = Combi(f, T[l][2 * n], T[l][2 * n + 1])
  BY DEF IsTreeOver
<1> HIDE DEF w
<1>4. ASSUME NEW n \in 0..(w - 1)
      PROVE  S[l + 1][n] = T[l + 1][n] <=> S[l][2 * n] = T[l][2 * n] /\ S[l][2 * n + 1] = T[l][2 * n + 1]
  BY <1>3 DEF Combi
<1>5. ASSUME Equal(S, T, l + 1, height), NEW m \in 0..(2 * w - 1) PROVE S[l][m] = T[l][m]
  <2> DEFINE n == m \div 2
  <2>1. n \in 0..(w - 1) /\ (m = 2 * n \/ m = 2 * n + 1)
    BY <1>2
  <2>2. S[l + 1][n] = T[l + 1][n]
    BY <1>2, <1>5, <2>1 DEF Equal
  <2> HIDE DEF n
  <2> QED
    BY <1>4, <2>1, <2>2
<1>6. ASSUME Equal(S, T, l, height), NEW n \in 0..(w - 1) PROVE S[l + 1][n] = T[l + 1][n]
  <2>1. 2 * n \in 0..(2 * w - 1) /\ 2 * n + 1 \in 0..(2 * w - 1)
    BY <1>2
  <2>2. S[l][2 * n] = T[l][2 * n] /\ S[l][2 * n + 1] = T[l][2 * n + 1]
    BY <1>2, <1>6, <2>1 DEF Equal
  <2> QED
    BY <1>4, <2>2
<1> QED
  BY <1>2, <1>5, <1>6 DEF Equal

\* merkle/merkleize.go: under the same limit, two series of leaves have the same root only
\* if they are the same, but for zero chunks at their end. (Those are why the length of a
\* list is mixed into its root.)
THEOREM RootsTellLeaves ==
  ASSUME NEW height \in Nat, NEW f, NEW a, NEW b, NEW S, NEW T,
         IsTreeOver(S, f, a, height), IsTreeOver(T, f, b, height)
  PROVE  S[height][0] = T[height][0] <=> \A n \in 0..(2^height - 1) : a[n] = b[n]
<1> DEFINE E == {l \in Nat : l <= height => (Equal(S, T, l, height) <=> Equal(S, T, 0, height))}
<1>1. 0 \in E
  OBVIOUS
<1>2. ASSUME NEW l \in Nat, l \in E PROVE l + 1 \in E
  <2> SUFFICES ASSUME l + 1 <= height
               PROVE  Equal(S, T, l + 1, height) <=> Equal(S, T, 0, height)
    OBVIOUS
  <2>1. l \in 0..(height - 1)
    OBVIOUS
  <2>2. Equal(S, T, l + 1, height) <=> Equal(S, T, l, height)
    BY <2>1, EqualBelow
  <2>3. Equal(S, T, l, height) <=> Equal(S, T, 0, height)
    BY <1>2
  <2> QED
    BY <2>2, <2>3
<1> HIDE DEF E
<1>3. height \in E
  BY <1>1, <1>2, SetInduction
<1>4. Equal(S, T, height, height) <=> Equal(S, T, 0, height)
  BY <1>3 DEF E
<1>5. Equal(S, T, height, height) <=> S[height][0] = T[height][0]
  <2>1. height - height = 0 /\ 2^(height - height) = 1
    BY PowerOfZero
  <2>2. \A n \in 0..(2^(height - height) - 1) : n = 0
    BY <2>1
  <2>3. 0 \in 0..(2^(height - height) - 1)
    BY <2>1
  <2> QED
    BY <2>2, <2>3 DEF Equal
<1>6. Equal(S, T, 0, height) <=> \A n \in 0..(2^height - 1) : a[n] = b[n]
  <2>1. height - 0 = height
    OBVIOUS
  <2>2. \A n \in 0..(2^height - 1) : S[0][n] = a[n] /\ T[0][n] = b[n]
    BY DEF IsTreeOver
  <2> QED
    BY <2>1, <2>2 DEF Equal
<1> QED
  BY <1>4, <1>5, <1>6
=============================================================================
