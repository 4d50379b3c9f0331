---------------------------- MODULE SharedLemmas ---------------------------
(***************************************************************************)
(* Lemmas that several components share: about the arithmetic of balanced  *)
(* binary trees and of bits (shifts are divisions by powers of two, and    *)
(* the bit at level j of x is x \div 2^j % 2), and about sequences put one *)
(* after the other.                                                        *)
(*                                                                         *)
(* Induction is by the least element that would be an exception, as a set: *)
(* WFMin says that there is one.                                           *)
(***************************************************************************)
EXTENDS Integers, SequencesExt, FiniteSetTheorems, WellFoundedInduction, TLAPS

\* Induction over a set.
LEMMA SetInduction ==
  ASSUME NEW S, 0 \in S, \A n \in Nat : n \in S => n + 1 \in S
  PROVE  \A n \in Nat : n \in S
<1> DEFINE Exceptions == Nat \ S
<1> SUFFICES ASSUME Exceptions # {} PROVE FALSE
  OBVIOUS
<1>1. PICK m \in Exceptions : \A y \in Exceptions : <<y, m>> \notin OpToRel(<, Nat)
  BY NatLessThanWellFounded, WFMin
<1>2. \A y \in Exceptions : ~(y < m)
  BY <1>1 DEF OpToRel
<1>3. m \in Nat /\ m \notin S /\ m # 0
  BY <1>1
<1>4. m - 1 \in Nat /\ (m - 1) + 1 = m
  BY <1>3
<1>5. m - 1 \notin S
  BY <1>3, <1>4
<1> QED
  BY <1>2, <1>4, <1>5

(***************************************************************************)
(* Powers.                                                                 *)
(***************************************************************************)
LEMMA PowerIsCardinality ==
  ASSUME NEW n \in Nat
  PROVE  2^n = Cardinality(SUBSET (1..n)) /\ IsFiniteSet(SUBSET (1..n))
<1>1. IsFiniteSet(1..n) /\ Cardinality(1..n) = n
  BY FS_Interval
<1> QED
  BY <1>1, FS_SUBSET

LEMMA PowerNat == \A n \in Nat : 2^n \in Nat
  BY PowerIsCardinality, FS_CardinalityType

LEMMA PowerOfZero == 2^0 = 1
  OBVIOUS

\* The subsets of 1..(n + 1) are those of 1..n, without and with n + 1.
LEMMA PowerStep ==
  ASSUME NEW n \in Nat
  PROVE  2^(n + 1) = 2 * 2^n
<1> DEFINE Without == SUBSET (1..n)
           With    == {s \cup {n + 1} : s \in Without}
           Add     == [s \in Without |-> s \cup {n + 1}]
<1>1. SUBSET (1..(n + 1)) = Without \cup With
  <2>1. ASSUME NEW s \in SUBSET (1..(n + 1)) PROVE s \in Without \cup With
    <3>1. CASE n + 1 \in s
      <4>1. s \ {n + 1} \in Without /\ s = (s \ {n + 1}) \cup {n + 1}
        BY <3>1
      <4> QED
        BY <4>1
    <3>2. CASE n + 1 \notin s
      BY <3>2
    <3> QED
      BY <3>1, <3>2
  <2>2. ASSUME NEW s \in Without PROVE s \in SUBSET (1..(n + 1)) /\ s \cup {n + 1} \in SUBSET (1..(n + 1))
    OBVIOUS
  <2>3. With \subseteq SUBSET (1..(n + 1)) /\ Without \subseteq SUBSET (1..(n + 1))
    <3>1. \A s \in Without : s \in SUBSET (1..(n + 1)) /\ s \cup {n + 1} \in SUBSET (1..(n + 1))
      BY <2>2
    <3> HIDE DEF Without
    <3>2. Without \subseteq SUBSET (1..(n + 1))
      BY <3>1
    <3>3. With \subseteq SUBSET (1..(n + 1))
      BY <3>1
    <3> QED
      BY <3>2, <3>3
  <2> HIDE DEF With, Without
  <2>4. SUBSET (1..(n + 1)) \subseteq Without \cup With
    BY <2>1
  <2> QED
    BY <2>3, <2>4
<1>2. Without \cap With = {}
  OBVIOUS
<1>3. Add \in Bijection(Without, With)
  <2>1. ASSUME NEW s \in Without, NEW t \in Without, Add[s] = Add[t] PROVE s = t
    <3>1. n + 1 \notin s /\ n + 1 \notin t /\ s \cup {n + 1} = t \cup {n + 1}
      BY <2>1
    <3> QED
      BY <3>1
  <2>2. Add \in [Without -> With]
    OBVIOUS
  <2>3. \A t \in With : \E s \in Without : Add[s] = t
    OBVIOUS
  <2> HIDE DEF Add, With, Without
  <2> QED
    BY <2>1, <2>2, <2>3 DEF Bijection, Injection, Surjection, IsInjective
<1>4. IsFiniteSet(Without) /\ Cardinality(Without) = 2^n
  BY PowerIsCardinality
<1>5. IsFiniteSet(With) /\ Cardinality(With) = 2^n
  BY <1>3, <1>4, FS_Bijection DEF ExistsBijection
<1> HIDE DEF With, Without, Add
<1>6. Cardinality(Without \cup With) = 2^n + 2^n - 0
  <2>1. Cardinality(Without \cup With) =
          Cardinality(Without) + Cardinality(With) - Cardinality(Without \cap With)
    BY <1>4, <1>5, FS_Union
  <2> QED
    BY <1>2, <1>4, <1>5, <2>1, FS_EmptySet
<1>7. 2^(n + 1) = Cardinality(SUBSET (1..(n + 1)))
  BY PowerIsCardinality
<1> QED
  <2>1. 2^(n + 1) = 2^n + 2^n - 0 /\ 2^n \in Nat
    BY <1>1, <1>6, <1>7, PowerNat
  <2> QED
    BY <2>1

LEMMA PowerPositive == \A n \in Nat : 2^n >= 1
<1> DEFINE S == {n \in Nat : 2^n >= 1}
<1>1. 0 \in S
  BY PowerOfZero
<1>2. ASSUME NEW n \in Nat, n \in S PROVE n + 1 \in S
  BY <1>2, PowerStep, PowerNat
<1> HIDE DEF S
<1>3. \A n \in Nat : n \in S
  BY <1>1, <1>2, SetInduction
<1> QED
  BY <1>3 DEF S

LEMMA PowerAboveExponent == \A n \in Nat : n < 2^n
<1> DEFINE S == {n \in Nat : n < 2^n}
<1>1. 0 \in S
  BY PowerOfZero
<1>2. ASSUME NEW n \in Nat, n \in S PROVE n + 1 \in S
  <2>1. n + 1 < 2 * 2^n
    BY <1>2, PowerNat
  <2> QED
    BY <2>1, PowerStep
<1> HIDE DEF S
<1>3. \A n \in Nat : n \in S
  BY <1>1, <1>2, SetInduction
<1> QED
  BY <1>3 DEF S

LEMMA PowerSum ==
  ASSUME NEW m \in Nat, NEW n \in Nat
  PROVE  2^(m + n) = 2^m * 2^n
<1> DEFINE S == {k \in Nat : 2^(m + k) = 2^m * 2^k}
<1>1. 0 \in S
  BY PowerOfZero, PowerNat
<1>2. ASSUME NEW k \in Nat, k \in S PROVE k + 1 \in S
  <2>1. 2^(m + (k + 1)) = 2 * 2^(m + k)
    <3>1. m + (k + 1) = (m + k) + 1 /\ m + k \in Nat
      OBVIOUS
    <3> QED
      BY <3>1, PowerStep
  <2>2. 2^(m + k) = 2^m * 2^k /\ 2^(k + 1) = 2 * 2^k
    BY <1>2, PowerStep
  <2>3. 2^m \in Nat /\ 2^k \in Nat
    BY PowerNat
  <2>4. \A p, q \in Nat : 2 * (p * q) = p * (2 * q)
    OBVIOUS
  <2> QED
    BY <2>1, <2>2, <2>3, <2>4
<1> HIDE DEF S
<1>3. \A k \in Nat : k \in S
  BY <1>1, <1>2, SetInduction
<1> QED
  BY <1>3 DEF S

LEMMA PowerMonotone ==
  ASSUME NEW m \in Nat, NEW n \in Nat, m <= n
  PROVE  2^m <= 2^n
<1>1. n - m \in Nat /\ n = m + (n - m)
  OBVIOUS
<1>2. 2^n = 2^m * 2^(n - m)
  BY <1>1, PowerSum
<1>3. 2^(n - m) >= 1 /\ 2^(n - m) \in Nat /\ 2^m \in Nat
  BY <1>1, PowerNat, PowerPositive
<1>4. \A p, q \in Nat : q >= 1 => p <= p * q
  OBVIOUS
<1> QED
  BY <1>2, <1>3, <1>4

LEMMA PowerStrict ==
  ASSUME NEW m \in Nat, NEW n \in Nat, m < n
  PROVE  2^m < 2^n
<1>1. 2^(m + 1) <= 2^n
  BY PowerMonotone
<1> QED
  BY <1>1, PowerStep, PowerNat, PowerPositive

LEMMA PowerOrder ==
  ASSUME NEW m \in Nat, NEW n \in Nat
  PROVE  (2^m < 2^n) <=> (m < n)
<1>1. CASE m < n
  BY <1>1, PowerStrict
<1>2. CASE n <= m
  BY <1>2, PowerMonotone, PowerNat
<1> QED
  BY <1>1, <1>2

(***************************************************************************)
(* Division with a remainder.                                              *)
(***************************************************************************)
LEMMA Division ==
  ASSUME NEW x \in Nat, NEW p \in Nat, p >= 1
  PROVE  /\ x = (x \div p) * p + (x % p)
         /\ x \div p \in Nat
         /\ x % p \in 0..(p - 1)
  OBVIOUS

LEMMA DivisionUnique ==
  ASSUME NEW x \in Nat, NEW p \in Nat, p >= 1, NEW q \in Nat, NEW r \in 0..(p - 1), x = q * p + r
  PROVE  x \div p = q /\ x % p = r
<1> DEFINE d == x \div p
<1>1. d \in Nat /\ x % p \in 0..(p - 1) /\ x = d * p + (x % p)
  BY Division
<1> HIDE DEF d
<1>2. ASSUME NEW a \in Nat, NEW b \in Nat, a < b, NEW s \in 0..(p - 1), NEW t \in 0..(p - 1)
      PROVE  a * p + s # b * p + t
  <2>1. \E k \in Nat : b = a + 1 + k
    <3>1. b - a - 1 \in Nat /\ b = a + 1 + (b - a - 1)
      BY <1>2
    <3> QED
      BY <3>1
  <2>2. PICK k \in Nat : b = a + 1 + k
    BY <2>1
  <2>3. b * p = a * p + p + k * p
    BY <2>2
  <2>4. k * p \in Nat /\ a * p \in Nat
    OBVIOUS
  <2> QED
    BY <2>3, <2>4
<1>3. d = q
  BY <1>1, <1>2
<1> QED
  BY <1>1, <1>3 DEF d

\* Shifting by one more bit.
LEMMA DivisionTwice ==
  ASSUME NEW x \in Nat, NEW p \in Nat, p >= 1
  PROVE  /\ x \div (2 * p) = (x \div p) \div 2
         /\ x % (2 * p) = ((x \div p) % 2) * p + (x % p)
<1> DEFINE q == x \div p
           r == x % p
           m == q \div 2
           b == q % 2
<1>1. x = q * p + r /\ q \in Nat /\ r \in 0..(p - 1)
  BY Division
<1>2. q = m * 2 + b /\ m \in Nat /\ b \in 0..1
  BY <1>1
<1> HIDE DEF q, r, m, b
<1>3. q * p = m * (2 * p) + b * p
  BY <1>2
<1>4. b * p + r \in 0..(2 * p - 1)
  BY <1>1, <1>2
<1>5. x = m * (2 * p) + (b * p + r)
  BY <1>1, <1>2, <1>3
<1>6. 2 * p \in Nat /\ 2 * p >= 1
  OBVIOUS
<1>7. x \div (2 * p) = m /\ x % (2 * p) = b * p + r
  BY <1>2, <1>4, <1>5, <1>6, DivisionUnique
<1> QED
  BY <1>7 DEF q, r, m, b

\* Shifting twice.
LEMMA DivisionByProduct ==
  ASSUME NEW x \in Nat, NEW p \in Nat, p >= 1, NEW q \in Nat, q >= 1
  PROVE  (x \div p) \div q = x \div (p * q)
<1> DEFINE y == x \div p
           r == x % p
           m == y \div q
           s == y % q
<1>1. x = y * p + r /\ y \in Nat /\ r \in 0..(p - 1)
  BY Division
<1>2. y = m * q + s /\ m \in Nat /\ s \in 0..(q - 1)
  <2> HIDE DEF y
  <2> QED
    BY <1>1, Division
<1> HIDE DEF y, r, m, s
<1>3. y * p = m * (p * q) + s * p
  <2>1. \A a, b, c, e \in Nat : (a * b + c) * e = a * (e * b) + c * e
    OBVIOUS
  <2> QED
    BY <1>2, <2>1
<1>4. s * p + r \in 0..(p * q - 1)
  <2>1. PICK k \in Nat : q = s + 1 + k
    <3>1. q - s - 1 \in Nat /\ q = s + 1 + (q - s - 1)
      BY <1>2
    <3> QED
      BY <3>1
  <2>2. p * q = s * p + p + p * k
    BY <1>2, <2>1
  <2>3. p * k \in Nat /\ s * p \in Nat /\ p * q \in Nat
    BY <1>2
  <2> QED
    BY <1>1, <2>2, <2>3
<1>5. x = m * (p * q) + (s * p + r)
  <2>1. y * p \in Nat /\ m * (p * q) \in Nat /\ s * p \in Nat
    BY <1>1, <1>2
  <2>2. x = (m * (p * q) + s * p) + r
    BY <1>1, <1>3
  <2>3. \A a, b, c \in Nat : (a + b) + c = a + (b + c)
    OBVIOUS
  <2> QED
    BY <1>1, <2>1, <2>2, <2>3
<1>6. p * q \in Nat /\ p * q >= 1
  OBVIOUS
<1>7. x \div (p * q) = m
  BY <1>2, <1>4, <1>5, <1>6, DivisionUnique
<1> QED
  BY <1>7 DEF y, m

\* The next number.
LEMMA DivisionOfNext ==
  ASSUME NEW x \in Nat, NEW p \in Nat, p >= 1
  PROVE  /\ x % p = p - 1 => (x + 1) \div p = x \div p + 1 /\ (x + 1) % p = 0
         /\ x % p # p - 1 => (x + 1) \div p = x \div p /\ (x + 1) % p = (x % p) + 1
<1> DEFINE q == x \div p
           r == x % p
<1>1. x = q * p + r /\ q \in Nat /\ r \in 0..(p - 1)
  BY Division
<1> HIDE DEF q, r
<1>2. CASE r = p - 1
  <2>1. x + 1 = (q + 1) * p + 0
    BY <1>1, <1>2
  <2>2. (x + 1) \div p = q + 1 /\ (x + 1) % p = 0
    BY <1>1, <2>1, DivisionUnique
  <2> QED
    BY <1>2, <2>2 DEF q, r
<1>3. CASE r # p - 1
  <2>1. x + 1 = q * p + (r + 1) /\ r + 1 \in 0..(p - 1)
    BY <1>1, <1>3
  <2>2. (x + 1) \div p = q /\ (x + 1) % p = r + 1
    BY <1>1, <2>1, DivisionUnique
  <2> QED
    BY <1>3, <2>2 DEF q, r
<1> QED
  BY <1>2, <1>3

(***************************************************************************)
(* Levels.                                                                 *)
(***************************************************************************)
\* The node a level up, and which side of it this one is.
LEMMA LevelUp ==
  ASSUME NEW x \in Nat, NEW j \in Nat
  PROVE  /\ x \div 2^j \in Nat
         /\ x \div 2^(j + 1) = (x \div 2^j) \div 2
         /\ x % 2^(j + 1) = ((x \div 2^j) % 2) * 2^j + (x % 2^j)
<1>1. 2^j \in Nat /\ 2^j >= 1 /\ 2^(j + 1) = 2 * 2^j
  BY PowerNat, PowerPositive, PowerStep
<1> DEFINE p == 2^j
<1>2. p \in Nat /\ p >= 1
  BY <1>1
<1> HIDE DEF p
<1>3. /\ x \div p \in Nat
      /\ x \div (2 * p) = (x \div p) \div 2
      /\ x % (2 * p) = ((x \div p) % 2) * p + (x % p)
  BY <1>2, Division, DivisionTwice
<1>4. 2^(j + 1) = 2 * p
  BY <1>1 DEF p
<1>5. /\ x \div 2^(j + 1) = (x \div p) \div 2
      /\ x % 2^(j + 1) = ((x \div p) % 2) * p + (x % p)
  BY <1>3, <1>4
<1> QED
  BY <1>3, <1>5 DEF p

\* A node lies in the tree.
LEMMA InTree ==
  ASSUME NEW x \in Nat, NEW j \in Nat, NEW d \in Nat, j <= d, x < 2^d
  PROVE  x \div 2^j < 2^(d - j)
<1>1. d - j \in Nat /\ d = j + (d - j)
  OBVIOUS
<1>2. 2^d = 2^j * 2^(d - j)
  BY <1>1, PowerSum
<1> DEFINE p == 2^j
           w == 2^(d - j)
           q == x \div p
           r == x % p
<1>3. p \in Nat /\ p >= 1 /\ w \in Nat
  BY <1>1, PowerNat, PowerPositive
<1>4. x = q * p + r /\ q \in Nat /\ r \in 0..(p - 1) /\ x < p * w
  BY <1>2, <1>3, Division
<1> HIDE DEF p, w, q, r
<1>5. q * p < p * w
  BY <1>3, <1>4
<1>6. ASSUME q >= w PROVE FALSE
  <2>1. PICK k \in Nat : q = w + k
    <3>1. q - w \in Nat /\ q = w + (q - w)
      BY <1>3, <1>4, <1>6
    <3> QED
      BY <3>1
  <2>2. q * p = p * w + k * p /\ k * p \in Nat /\ p * w \in Nat
    BY <1>3, <2>1
  <2> QED
    BY <1>5, <2>2
<1>7. q < w
  BY <1>3, <1>4, <1>6
<1> QED
  BY <1>7 DEF p, w, q

\* The last leaf of a subtree.
LEMMA LastOfSubtree ==
  ASSUME NEW x \in Nat, NEW l \in Nat, NEW s \in Nat
  PROVE  (s + 1) * 2^l = x + 1 <=> x % 2^l = 2^l - 1 /\ x \div 2^l = s
<1> DEFINE p == 2^l
<1>1. p \in Nat /\ p >= 1
  BY PowerNat, PowerPositive
<1> HIDE DEF p
<1>2. ASSUME (s + 1) * p = x + 1 PROVE x % p = p - 1 /\ x \div p = s
  <2>1. x = s * p + (p - 1) /\ p - 1 \in 0..(p - 1)
    BY <1>1, <1>2
  <2> QED
    BY <1>1, <2>1, DivisionUnique
<1>3. ASSUME x % p = p - 1, x \div p = s PROVE (s + 1) * p = x + 1
  <2>1. x = s * p + (p - 1)
    <3>1. x = (x \div p) * p + (x % p)
      BY <1>1, Division
    <3> QED
      BY <1>3, <3>1
  <2> QED
    BY <1>1, <2>1
<1> QED
  BY <1>2, <1>3 DEF p

\* It is the last of every smaller subtree it is in.
LEMMA LastBelow ==
  ASSUME NEW x \in Nat, NEW k \in Nat, NEW l \in Nat, k <= l, x % 2^l = 2^l - 1
  PROVE  x % 2^k = 2^k - 1
<1> DEFINE p == 2^k
           w == 2^(l - k)
           q == x \div 2^l
<1>1. l - k \in Nat /\ l = k + (l - k)
  OBVIOUS
<1>2. 2^l = p * w
  BY <1>1, PowerSum
<1>3. p \in Nat /\ p >= 1 /\ w \in Nat /\ w >= 1
  BY <1>1, PowerNat, PowerPositive
<1>4. 2^l \in Nat /\ 2^l >= 1
  BY PowerNat, PowerPositive
<1>5. x = q * 2^l + (2^l - 1) /\ q \in Nat
  <2>1. x = q * 2^l + (x % 2^l) /\ q \in Nat
    BY <1>4, Division
  <2> HIDE DEF q
  <2> QED
    BY <2>1
<1> HIDE DEF p, w, q
<1>6. x = q * (p * w) + (p * w - 1)
  BY <1>2, <1>5
<1>7. x = (q * w + (w - 1)) * p + (p - 1)
  <2>1. (q * w + (w - 1)) * p = q * (p * w) + p * w - p
    BY <1>3, <1>5
  <2>2. q * (p * w) \in Nat /\ p * w \in Nat
    BY <1>3, <1>5
  <2> QED
    BY <1>3, <1>6, <2>1, <2>2
<1>8. q * w + (w - 1) \in Nat /\ p - 1 \in 0..(p - 1)
  <2>1. q * w \in Nat
    BY <1>3, <1>5
  <2> QED
    BY <1>3, <2>1
<1>9. x % p = p - 1
  BY <1>3, <1>7, <1>8, DivisionUnique
<1> QED
  BY <1>9 DEF p

\* After the last leaf of a left subtree of 2^j leaves: the next one's bits below j
\* are zero, bit j is set, and those above are unchanged.
LEMMA Carry ==
  ASSUME NEW x \in Nat, NEW j \in Nat, x % 2^j = 2^j - 1, (x \div 2^j) % 2 = 0
  PROVE  /\ (x + 1) \div 2^j = x \div 2^j + 1
         /\ \A l \in 0..(j - 1) : ((x + 1) \div 2^l) % 2 = 0
         /\ \A l \in Nat : l > j => /\ (x + 1) \div 2^l = x \div 2^l
                                    /\ x % 2^l # 2^l - 1
<1> DEFINE m == (x + 1) \div 2^j
<1>1. 2^j \in Nat /\ 2^j >= 1
  BY PowerNat, PowerPositive
<1>2. m = x \div 2^j + 1 /\ (x + 1) % 2^j = 0
  BY <1>1, DivisionOfNext
<1>3. x + 1 = m * 2^j /\ m \in Nat
  <2>1. x + 1 \in Nat
    OBVIOUS
  <2>2. x + 1 = m * 2^j + ((x + 1) % 2^j) /\ m \in Nat
    BY <1>1, <2>1, Division
  <2> HIDE DEF m
  <2>3. m * 2^j \in Nat
    BY <1>1, <2>2
  <2> QED
    BY <1>2, <2>2, <2>3
<1>4. ASSUME NEW l \in 0..(j - 1) PROVE ((x + 1) \div 2^l) % 2 = 0
  <2> DEFINE p == 2^l
             w == 2^(j - l - 1)
  <2>1. j - l - 1 \in Nat /\ l \in Nat /\ l + 1 \in Nat /\ j = (l + 1) + (j - l - 1)
    OBVIOUS
  <2>2. 2^j = 2^(l + 1) * w /\ 2^(l + 1) = 2 * p
    BY <2>1, PowerSum, PowerStep
  <2>3. p \in Nat /\ p >= 1 /\ w \in Nat
    BY <2>1, PowerNat, PowerPositive
  <2> HIDE DEF p, w, m
  <2>4. x + 1 = m * ((2 * p) * w)
    BY <1>3, <2>2
  <2>5. x + 1 = (2 * (m * w)) * p + 0
    <3>1. \A a, b, c \in Nat : a * ((2 * b) * c) = (2 * (a * c)) * b + 0
      OBVIOUS
    <3> QED
      BY <1>3, <2>3, <2>4, <3>1
  <2>6. m * w \in Nat /\ 2 * (m * w) \in Nat /\ 0 \in 0..(p - 1) /\ x + 1 \in Nat
    BY <1>3, <2>3
  <2>7. (x + 1) \div p = 2 * (m * w)
    BY <2>3, <2>5, <2>6, DivisionUnique
  <2>8. (2 * (m * w)) % 2 = 0
    BY <2>6
  <2> QED
    BY <2>7, <2>8 DEF p
<1>5. ASSUME NEW l \in Nat, l > j PROVE (x + 1) \div 2^l = x \div 2^l /\ x % 2^l # 2^l - 1
  <2>1. x % 2^(j + 1) = 2^j - 1
    <3>1. x % 2^(j + 1) = ((x \div 2^j) % 2) * 2^j + (x % 2^j)
      BY LevelUp
    <3>2. 0 * 2^j = 0
      BY <1>1
    <3> QED
      BY <1>1, <3>1, <3>2
  <2>2. 2^(j + 1) # 2^j
    BY <1>1, PowerStep
  <2>3. x % 2^l # 2^l - 1
    <3> SUFFICES ASSUME x % 2^l = 2^l - 1 PROVE FALSE
      OBVIOUS
    <3>1. j + 1 \in Nat /\ j + 1 <= l
      BY <1>5
    <3>2. x % 2^(j + 1) = 2^(j + 1) - 1
      BY <3>1, LastBelow
    <3>3. 2^(j + 1) \in Nat
      BY <3>1, PowerNat
    <3> QED
      BY <1>1, <2>1, <2>2, <3>2, <3>3
  <2>4. 2^l \in Nat /\ 2^l >= 1
    BY PowerNat, PowerPositive
  <2> QED
    BY <2>3, <2>4, DivisionOfNext
<1> QED
  BY <1>2, <1>4, <1>5

\* A bit that is set is below the height of the tree.
LEMMA BitInTree ==
  ASSUME NEW x \in Nat, NEW j \in Nat, NEW d \in Nat, x < 2^d, (x \div 2^j) % 2 # 0
  PROVE  j < d
<1> SUFFICES ASSUME d <= j PROVE FALSE
  OBVIOUS
<1>1. 2^d <= 2^j /\ 2^j \in Nat /\ 2^d \in Nat /\ 2^j >= 1
  BY PowerMonotone, PowerNat, PowerPositive
<1>2. x = 0 * 2^j + x /\ x \in 0..(2^j - 1)
  <2>1. 0 * 2^j = 0
    BY <1>1
  <2> QED
    BY <1>1, <2>1
<1>3. x \div 2^j = 0
  BY <1>1, <1>2, DivisionUnique
<1> QED
  BY <1>3, 0 % 2 = 0

(***************************************************************************)
(* Sequences put one after the other, by the recursive function of         *)
(* FlattenSeq: f[i] is made of the first i of n.                           *)
(***************************************************************************)
LEMMA ConcatElements ==
  ASSUME NEW S, NEW a \in Seq(S), NEW b \in Seq(S)
  PROVE  /\ a \o b \in Seq(S)
         /\ Len(a \o b) = Len(a) + Len(b)
         /\ \A i \in 1..Len(a) : (a \o b)[i] = a[i]
         /\ \A j \in 1..Len(b) : (a \o b)[Len(a) + j] = b[j]
OBVIOUS

IsConcat(f, s, n, S) ==
  /\ f \in [1..n -> Seq(S)]
  /\ f[1] = s[1]
  /\ \A i \in 2..n : f[i] = f[i - 1] \o s[i]

LEMMA ConcatExists ==
  ASSUME NEW S, NEW n \in Nat \ {0}, NEW s \in [1..n -> Seq(S)]
  PROVE  \E f : IsConcat(f, s, n, S)
<1> DEFINE T == {m \in Nat : m < n => \E f : IsConcat(f, s, m + 1, S)}
<1>1. 0 \in T
  <2> DEFINE f == [i \in 1..1 |-> s[1]]
  <2>1. f \in [1..(0 + 1) -> Seq(S)] /\ f[1] = s[1] /\ \A i \in 2..(0 + 1) : FALSE
    OBVIOUS
  <2> HIDE DEF f
  <2>2. IsConcat(f, s, 0 + 1, S)
    BY <2>1 DEF IsConcat
  <2> QED
    BY <2>2
<1>2. ASSUME NEW m \in Nat, m \in T PROVE m + 1 \in T
  <2> SUFFICES ASSUME m + 1 < n PROVE \E f : IsConcat(f, s, (m + 1) + 1, S)
    OBVIOUS
  <2>1. PICK f : IsConcat(f, s, m + 1, S)
    BY <1>2
  <2>2. f \in [1..(m + 1) -> Seq(S)] /\ f[1] = s[1] /\ \A i \in 2..(m + 1) : f[i] = f[i - 1] \o s[i]
    BY <2>1 DEF IsConcat
  <2> DEFINE last == f[m + 1] \o s[m + 2]
             u    == [i \in 1..(m + 2) |-> IF i = m + 2 THEN last ELSE f[i]]
  <2>3. last \in Seq(S)
    <3>1. f[m + 1] \in Seq(S) /\ s[m + 2] \in Seq(S)
      BY <2>2
    <3> QED
      BY <3>1
  <2> HIDE DEF last
  <2>4. \A i \in 1..(m + 1) : u[i] = f[i] /\ f[i] \in Seq(S)
    BY <2>2
  <2>5. u[m + 2] = last
    OBVIOUS
  <2>6. u \in [1..(m + 2) -> Seq(S)]
    <3>1. \A i \in 1..(m + 2) : (IF i = m + 2 THEN last ELSE f[i]) \in Seq(S)
      BY <2>2, <2>3
    <3> QED
      BY <3>1
  <2> HIDE DEF u
  <2>7. ASSUME NEW i \in 2..(m + 2) PROVE u[i] = u[i - 1] \o s[i]
    <3>1. CASE i = m + 2
      <4>1. i - 1 = m + 1 /\ i - 1 \in 1..(m + 1)
        BY <3>1
      <4> QED
        BY <2>4, <2>5, <3>1, <4>1 DEF last
    <3>2. CASE i # m + 2
      <4>1. i \in 2..(m + 1) /\ i \in 1..(m + 1) /\ i - 1 \in 1..(m + 1)
        BY <3>2
      <4> QED
        BY <2>2, <2>4, <4>1
    <3> QED
      BY <3>1, <3>2
  <2>8. u[1] = s[1] /\ (m + 1) + 1 = m + 2
    BY <2>2, <2>4
  <2>9. IsConcat(u, s, (m + 1) + 1, S)
    BY <2>6, <2>7, <2>8 DEF IsConcat
  <2> QED
    BY <2>9
<1> HIDE DEF T
<1>3. \A m \in Nat : m \in T
  BY <1>1, <1>2, SetInduction
<1>4. n - 1 \in Nat /\ n - 1 < n /\ (n - 1) + 1 = n
  OBVIOUS
<1>5. n - 1 \in T
  BY <1>3, <1>4
<1> QED
  BY <1>4, <1>5 DEF T

SolvesConcat(f, s, n) == f = [i \in 1..n |-> IF i = 1 THEN s[i] ELSE f[i - 1] \o s[i]]

LEMMA ConcatSolves ==
  ASSUME NEW S, NEW n \in Nat \ {0}, NEW s \in [1..n -> Seq(S)]
  PROVE  \E f : SolvesConcat(f, s, n)
<1>1. PICK f : IsConcat(f, s, n, S)
  BY ConcatExists
<1>2. f \in [1..n -> Seq(S)] /\ f[1] = s[1] /\ \A i \in 2..n : f[i] = f[i - 1] \o s[i]
  BY <1>1 DEF IsConcat
<1>3. \A i \in 1..n : f[i] = IF i = 1 THEN s[i] ELSE f[i - 1] \o s[i]
  <2> TAKE i \in 1..n
  <2>1. i = 1 \/ i \in 2..n
    OBVIOUS
  <2> QED
    BY <1>2, <2>1
<1>4. f = [i \in 1..n |-> f[i]]
  BY <1>2
<1>5. f = [i \in 1..n |-> IF i = 1 THEN s[i] ELSE f[i - 1] \o s[i]]
  BY <1>3, <1>4
<1>6. SolvesConcat(f, s, n)
  BY <1>5 DEF SolvesConcat
<1> QED
  BY <1>6

LEMMA SolutionIsConcat ==
  ASSUME NEW S, NEW n \in Nat \ {0}, NEW s \in [1..n -> Seq(S)], NEW c, SolvesConcat(c, s, n)
  PROVE  IsConcat(c, s, n, S)
<1>0. c = [i \in 1..n |-> IF i = 1 THEN s[i] ELSE c[i - 1] \o s[i]]
  BY DEF SolvesConcat
<1>1. c[1] = s[1]
  BY <1>0
<1>2. ASSUME NEW i \in 2..n PROVE c[i] = c[i - 1] \o s[i]
  <2>1. i \in 1..n /\ i # 1
    OBVIOUS
  <2> QED
    BY <1>0, <2>1
<1> DEFINE T == {m \in Nat : m < n => c[m + 1] \in Seq(S)}
<1>3. 0 \in T
  <2>1. s[1] \in Seq(S)
    OBVIOUS
  <2> QED
    BY <1>1, <2>1
<1>4. ASSUME NEW m \in Nat, m \in T PROVE m + 1 \in T
  <2> SUFFICES ASSUME m + 1 < n PROVE c[(m + 1) + 1] \in Seq(S)
    OBVIOUS
  <2>1. (m + 1) + 1 = m + 2 /\ m + 2 \in 2..n /\ m + 2 \in 1..n /\ (m + 2) - 1 = m + 1
    OBVIOUS
  <2>2. c[m + 2] = c[m + 1] \o s[m + 2]
    BY <1>2, <2>1
  <2>3. c[m + 1] \in Seq(S) /\ s[m + 2] \in Seq(S)
    BY <1>4, <2>1
  <2>4. c[m + 1] \o s[m + 2] \in Seq(S)
    BY <2>3, ConcatElements
  <2> QED
    BY <2>1, <2>2, <2>4
<1>5. \A i \in 1..n : c[i] \in Seq(S)
  <2> HIDE DEF T
  <2>1. \A m \in Nat : m \in T
    BY <1>3, <1>4, SetInduction
  <2> TAKE i \in 1..n
  <2>2. i - 1 \in Nat /\ i - 1 < n /\ (i - 1) + 1 = i /\ i - 1 \in T
    BY <2>1
  <2>3. c[(i - 1) + 1] \in Seq(S)
    BY <2>2 DEF T
  <2> QED
    BY <2>2, <2>3
<1>6. c = [i \in 1..n |-> c[i]]
  BY <1>0
<1>7. c \in [1..n -> Seq(S)]
  BY <1>5, <1>6
<1> QED
  BY <1>1, <1>2, <1>7 DEF IsConcat

\* Sequences of one length: element j of sequence k is where it is expected.
IsFlat(r, s, n, w) ==
  /\ Len(r) = n * w
  /\ \A k \in 1..n : \A j \in 1..w : r[(k - 1) * w + j] = s[k][j]

LEMMA ConcatPlaces ==
  ASSUME NEW S, NEW n \in Nat \ {0}, NEW s \in [1..n -> Seq(S)], NEW f, IsConcat(f, s, n, S),
         NEW w \in Nat, \A k \in 1..n : Len(s[k]) = w
  PROVE  \A i \in 1..n : IsFlat(f[i], s, i, w)
<1> DEFINE P(i) == /\ Len(f[i]) = i * w
                   /\ \A k \in 1..i : \A j \in 1..w : f[i][(k - 1) * w + j] = s[k][j]
           T == {m \in Nat : m < n => P(m + 1)}
<1>1. f \in [1..n -> Seq(S)] /\ f[1] = s[1] /\ \A i \in 2..n : f[i] = f[i - 1] \o s[i]
  BY DEF IsConcat
<1>2. 0 \in T
  <2>1. Len(f[1]) = 1 * w
    BY <1>1
  <2>2. \A k \in 1..1 : \A j \in 1..w : f[1][(k - 1) * w + j] = s[k][j]
    <3> TAKE k \in 1..1
    <3> TAKE j \in 1..w
    <3>1. k = 1 /\ (k - 1) * w + j = j
      OBVIOUS
    <3> QED
      BY <1>1, <3>1
  <2>3. P(0 + 1)
    BY <2>1, <2>2
  <2> HIDE DEF P
  <2> QED
    BY <2>3
<1>3. ASSUME NEW m \in Nat, m \in T PROVE m + 1 \in T
  <2> SUFFICES ASSUME m + 1 < n PROVE P((m + 1) + 1)
    BY DEF T
  <2>1. P(m + 1)
    BY <1>3
  <2>2. (m + 1) + 1 = m + 2 /\ m + 2 \in 2..n /\ m + 2 \in 1..n /\ m + 1 \in 1..n /\ (m + 2) - 1 = m + 1
    OBVIOUS
  <2>3. f[m + 2] = f[m + 1] \o s[m + 2] /\ f[m + 1] \in Seq(S) /\ s[m + 2] \in Seq(S) /\ Len(s[m + 2]) = w
    BY <1>1, <2>2
  <2> DEFINE a == f[m + 1]
             b == s[m + 2]
             p == (m + 1) * w
  <2>4. Len(a) = p /\ p \in Nat
    BY <2>1 DEF a, p
  <2>5. (m + 2) * w = p + w /\ ((m + 2) - 1) * w = p
    OBVIOUS
  <2>6. /\ Len(a \o b) = Len(a) + w
        /\ \A i \in 1..Len(a) : (a \o b)[i] = a[i]
        /\ \A j \in 1..w : (a \o b)[Len(a) + j] = b[j]
    <3>1. a \in Seq(S) /\ b \in Seq(S) /\ Len(b) = w
      BY <2>3
    <3> HIDE DEF a, b, p, P, T
    <3>2. Len(a \o b) = Len(a) + Len(b)
      BY <3>1, ConcatElements
    <3>3. \A i \in 1..Len(a) : (a \o b)[i] = a[i]
      BY <3>1, ConcatElements
    <3>4. \A j \in 1..Len(b) : (a \o b)[Len(a) + j] = b[j]
      BY <3>1, ConcatElements
    <3> QED
      BY <3>1, <3>2, <3>3, <3>4
  <2>7. ASSUME NEW k \in 1..(m + 2), NEW j \in 1..w PROVE f[m + 2][(k - 1) * w + j] = s[k][j]
    <3>1. CASE k = m + 2
      <4>1. (k - 1) * w + j = p + j
        BY <2>5, <3>1
      <4> HIDE DEF a, b, p
      <4>2. (a \o b)[p + j] = b[j]
        BY <2>4, <2>6
      <4> QED
        BY <2>3, <3>1, <4>1, <4>2 DEF a, b
    <3>2. CASE k # m + 2
      <4>1. k \in 1..(m + 1)
        BY <3>2
      <4>2. a[(k - 1) * w + j] = s[k][j]
        BY <2>1, <4>1
      <4> DEFINE x == (k - 1) * w
      <4>3. x \in Nat /\ x + w <= p
        <5>1. x = k * w - w /\ k * w \in Nat
          OBVIOUS
        <5>2. k * w <= (m + 1) * w
          BY <4>1
        <5>3. k * w >= w
          OBVIOUS
        <5> HIDE DEF x
        <5> QED
          BY <5>1, <5>2, <5>3
      <4> HIDE DEF a, b, p, x
      <4>4. x + j \in 1..p
        BY <2>4, <4>3
      <4>5. (a \o b)[x + j] = a[x + j]
        BY <2>4, <2>6, <4>4
      <4> QED
        BY <2>3, <4>2, <4>5 DEF a, b, x
    <3> QED
      BY <3>1, <3>2
  <2>8. Len(f[m + 2]) = (m + 2) * w
    <3> HIDE DEF a, b, p
    <3>1. f[m + 2] = a \o b
      BY <2>3 DEF a, b
    <3> QED
      BY <2>4, <2>5, <2>6, <3>1
  <2>9. P(m + 2)
    BY <2>7, <2>8
  <2> HIDE DEF P
  <2> QED
    BY <2>2, <2>9
<1> HIDE DEF P, T
<1>4. \A m \in Nat : m \in T
  BY <1>2, <1>3, SetInduction
<1>5. ASSUME NEW i \in 1..n PROVE P(i)
  <2>1. i - 1 \in Nat /\ i - 1 < n /\ (i - 1) + 1 = i /\ i - 1 \in T
    BY <1>4
  <2>2. P((i - 1) + 1)
    BY <2>1 DEF T
  <2> QED
    BY <2>1, <2>2
<1> QED
  BY <1>5 DEF P, IsFlat

LEMMA FlattenIsConcat ==
  ASSUME NEW S, NEW n \in Nat \ {0}, NEW s \in [1..n -> Seq(S)]
  PROVE  \E f : IsConcat(f, s, n, S) /\ FlattenSeq(s) = f[n]
<1> DEFINE c == CHOOSE f : SolvesConcat(f, s, n)
<1>1. Len(s) = n
  OBVIOUS
<1>2. FlattenSeq(s) = c[n]
  <2> DEFINE Eq(f) == f = [i \in 1..Len(s) |-> IF i = 1 THEN s[i] ELSE f[i - 1] \o s[i]]
             d == CHOOSE f : Eq(f)
  <2>1. FlattenSeq(s) = d[Len(s)]
    BY <1>1 DEF FlattenSeq
  <2>2. d = CHOOSE f : SolvesConcat(f, s, Len(s))
    BY DEF SolvesConcat
  <2> HIDE DEF d
  <2> QED
    BY <1>1, <2>1, <2>2
<1>3. \E f : SolvesConcat(f, s, n)
  BY ConcatSolves
<1>4. SolvesConcat(c, s, n)
  BY <1>3
<1> HIDE DEF c
<1>5. IsConcat(c, s, n, S)
  BY <1>4, SolutionIsConcat
<1> QED
  BY <1>2, <1>5

LEMMA Flattened ==
  ASSUME NEW S, NEW n \in Nat, NEW s \in [1..n -> Seq(S)],
         NEW w \in Nat, \A k \in 1..n : Len(s[k]) = w
  PROVE  FlattenSeq(s) \in Seq(S) /\ IsFlat(FlattenSeq(s), s, n, w)
<1>1. CASE n = 0
  <2>1. FlattenSeq(s) = s /\ s = <<>>
    BY <1>1 DEF FlattenSeq
  <2>2. <<>> \in Seq(S) /\ Len(<<>>) = 0 * w
    OBVIOUS
  <2>3. \A k \in 1..0 : FALSE
    OBVIOUS
  <2> QED
    BY <1>1, <2>1, <2>2, <2>3 DEF IsFlat
<1>2. CASE n \in Nat \ {0}
  <2>1. PICK f : IsConcat(f, s, n, S) /\ FlattenSeq(s) = f[n]
    BY <1>2, FlattenIsConcat
  <2>2. f \in [1..n -> Seq(S)] /\ n \in 1..n
    BY <1>2, <2>1 DEF IsConcat
  <2>3. \A i \in 1..n : IsFlat(f[i], s, i, w)
    BY <1>2, <2>1, ConcatPlaces
  <2> QED
    BY <2>1, <2>2, <2>3
<1> QED
  BY <1>1, <1>2

\* Sequences of any lengths: what is in them is in the result and nothing else is, and
\* what is in the order R, in each and from each to those after it, is in it throughout.
IsInOrder(q, R) == \A i \in 1..Len(q) : \A j \in 1..Len(q) : i < j => <<q[i], q[j]>> \in R

AllOf(q, s, n) ==
  /\ \A i \in 1..Len(q) : \E k \in 1..n : \E m \in 1..Len(s[k]) : q[i] = s[k][m]
  /\ \A k \in 1..n : \A m \in 1..Len(s[k]) : \E i \in 1..Len(q) : q[i] = s[k][m]

LEMMA FlattenInOrder ==
  ASSUME NEW S, NEW n \in Nat, NEW s \in [1..n -> Seq(S)], NEW R,
         \A k \in 1..n : IsInOrder(s[k], R),
         \A k \in 1..n : \A l \in 1..n : k < l =>
           \A m \in 1..Len(s[k]) : \A p \in 1..Len(s[l]) : <<s[k][m], s[l][p]>> \in R
  PROVE  FlattenSeq(s) \in Seq(S) /\ AllOf(FlattenSeq(s), s, n) /\ IsInOrder(FlattenSeq(s), R)
<1>1. CASE n = 0
  <2>1. FlattenSeq(s) = <<>> /\ <<>> \in Seq(S) /\ Len(<<>>) = 0
    BY <1>1 DEF FlattenSeq
  <2> QED
    BY <1>1, <2>1 DEF AllOf, IsInOrder
<1>2. CASE n \in Nat \ {0}
  <2>1. PICK f : IsConcat(f, s, n, S) /\ FlattenSeq(s) = f[n]
    BY <1>2, FlattenIsConcat
  <2>2. f \in [1..n -> Seq(S)] /\ f[1] = s[1] /\ \A i \in 2..n : f[i] = f[i - 1] \o s[i]
    BY <2>1 DEF IsConcat
  <2> DEFINE P(i) == AllOf(f[i], s, i) /\ IsInOrder(f[i], R)
             T == {m \in Nat : m < n => P(m + 1)}
  <2>3. 0 \in T
    <3>1. AllOf(f[1], s, 1)
      <4>1. \A k \in 1..1 : k = 1
        OBVIOUS
      <4>2. 1 \in 1..1
        OBVIOUS
      <4> QED
        BY <2>2, <4>1, <4>2 DEF AllOf
    <3>2. IsInOrder(f[1], R)
      BY <1>2, <2>2
    <3>3. P(0 + 1)
      BY <3>1, <3>2
    <3> HIDE DEF P
    <3> QED
      BY <3>3
  <2>4. ASSUME NEW m \in Nat, m \in T PROVE m + 1 \in T
    <3> SUFFICES ASSUME m + 1 < n PROVE P((m + 1) + 1)
      BY DEF T
    <3> DEFINE k == m + 1
               l == m + 2
               a == f[k]
               b == s[l]
               c == f[l]
    <3>1. k \in 1..n /\ l \in 2..n /\ l \in 1..n /\ l - 1 = k /\ (m + 1) + 1 = l /\ k < l /\ l = k + 1
      BY <1>2
    <3>2. AllOf(a, s, k) /\ IsInOrder(a, R)
      BY <2>4
    <3> HIDE DEF k, l, P, T
    <3>3. a \in Seq(S) /\ b \in Seq(S) /\ c = a \o b /\ IsInOrder(b, R)
      BY <2>2, <3>1
    <3> HIDE DEF a, b, c
    <3>4. /\ Len(c) = Len(a) + Len(b) /\ Len(a) \in Nat /\ Len(b) \in Nat
          /\ \A i \in 1..Len(a) : c[i] = a[i]
          /\ \A j \in 1..Len(b) : c[Len(a) + j] = b[j]
      BY <3>3, ConcatElements
    <3>5. \A i \in 1..Len(c) : i \in 1..Len(a) \/ (i - Len(a) \in 1..Len(b) /\ i = Len(a) + (i - Len(a)))
      BY <3>4
    <3>6. \A i \in 1..Len(a) : \E q \in 1..k : \E p \in 1..Len(s[q]) : a[i] = s[q][p]
      BY <3>2 DEF AllOf
    <3>7. \A q \in 1..l : q \in 1..k \/ q = l
      BY <3>1
    <3>8. \A q \in 1..k : q \in 1..l /\ q \in 1..n /\ q < l
      BY <3>1
    <3>9. ASSUME NEW i \in 1..Len(c)
          PROVE  \E q \in 1..l : \E p \in 1..Len(s[q]) : c[i] = s[q][p]
      <4>1. CASE i \in 1..Len(a)
        <5>1. PICK q \in 1..k : \E p \in 1..Len(s[q]) : a[i] = s[q][p]
          BY <3>6, <4>1
        <5>2. q \in 1..l /\ c[i] = a[i]
          BY <3>4, <3>8, <4>1
        <5> QED
          BY <5>1, <5>2
      <4>2. CASE i - Len(a) \in 1..Len(b) /\ i = Len(a) + (i - Len(a))
        <5>0. l \in 1..l
          BY <3>1
        <5>1. c[i] = b[i - Len(a)]
          BY <3>4, <4>2
        <5>2. \E p \in 1..Len(b) : c[i] = b[p]
          BY <4>2, <5>1
        <5>3. \E p \in 1..Len(s[l]) : c[i] = s[l][p]
          BY <5>2 DEF b
        <5> QED
          BY <5>0, <5>3, Zenon
      <4> QED
        BY <3>5, <4>1, <4>2
    <3>10. ASSUME NEW q \in 1..l, NEW p \in 1..Len(s[q]) PROVE \E i \in 1..Len(c) : c[i] = s[q][p]
      <4>1. CASE q \in 1..k
        <5>1. PICK i \in 1..Len(a) : a[i] = s[q][p]
          BY <3>2, <4>1 DEF AllOf
        <5>2. i \in 1..Len(c)
          BY <3>4
        <5> QED
          BY <3>4, <5>1, <5>2
      <4>2. CASE q = l
        <5>1. p \in 1..Len(b) /\ Len(a) + p \in 1..Len(c)
          BY <3>4, <4>2 DEF b
        <5> QED
          BY <3>4, <4>2, <5>1 DEF b
      <4> QED
        BY <3>7, <4>1, <4>2
    <3>11. ASSUME NEW i \in 1..Len(c), NEW j \in 1..Len(c), i < j PROVE <<c[i], c[j]>> \in R
      <4>1. CASE j \in 1..Len(a)
        <5>1. i \in 1..Len(a)
          BY <3>4, <3>11, <4>1
        <5> QED
          BY <3>2, <3>4, <3>11, <4>1, <5>1 DEF IsInOrder
      <4>2. CASE i \in 1..Len(a) /\ j - Len(a) \in 1..Len(b) /\ j = Len(a) + (j - Len(a))
        <5>0. PICK q \in 1..k : \E p \in 1..Len(s[q]) : a[i] = s[q][p]
          BY <3>6, <4>2
        <5>1. PICK p \in 1..Len(s[q]) : a[i] = s[q][p]
          BY <5>0
        <5>2. c[i] = s[q][p] /\ c[j] = s[l][j - Len(a)] /\ j - Len(a) \in 1..Len(s[l])
          BY <3>4, <4>2, <5>1 DEF b
        <5> QED
          BY <3>1, <3>8, <5>1, <5>2
      <4>3. CASE i - Len(a) \in 1..Len(b) /\ i = Len(a) + (i - Len(a)) /\ j - Len(a) \in 1..Len(b) /\ j = Len(a) + (j - Len(a))
        <5>1. c[i] = b[i - Len(a)] /\ c[j] = b[j - Len(a)] /\ i - Len(a) < j - Len(a)
          BY <3>4, <3>11, <4>3
        <5> QED
          BY <3>3, <4>3, <5>1 DEF IsInOrder
      <4> QED
        BY <3>4, <3>5, <3>11, <4>1, <4>2, <4>3
    <3>12. AllOf(f[l], s, l) /\ IsInOrder(f[l], R)
      BY <3>9, <3>10, <3>11 DEF AllOf, IsInOrder, c
    <3> QED
      BY <3>1, <3>12 DEF P
  <2> HIDE DEF P, T
  <2>5. \A m \in Nat : m \in T
    BY <2>3, <2>4, SetInduction
  <2>6. n - 1 \in Nat /\ n - 1 < n /\ (n - 1) + 1 = n /\ n \in 1..n
    BY <1>2
  <2>7. P((n - 1) + 1)
    BY <2>5, <2>6 DEF T
  <2>8. P(n)
    BY <2>6, <2>7
  <2> QED
    BY <2>1, <2>2, <2>6, <2>8 DEF P
<1> QED
  BY <1>1, <1>2
=============================================================================
