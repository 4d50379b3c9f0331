---------------------------- MODULE Leaves_proofs -----------------------------
(***************************************************************************)
(* What the library makes of bits, of basic elements and of their bytes:   *)
(*                                                                         *)
(*  - bitfields/: SetBit changes one bit and keeps a bitlist's length, and *)
(*    the checks accept the bitfields whose bits they are meant to accept; *)
(*  - the leaves of a hash tree: values that differ have leaves that       *)
(*    differ, a bitlist's are its bits and nothing else, and exactly when  *)
(*    they are not;                                                        *)
(*  - basic elements: what is written is read back, in both directions, and*)
(*    on a big-endian machine the same as on a little-endian one.          *)
(*                                                                         *)
(* All of it for every length, every size of a chunk and of an element, and*)
(* bytes of ByteBits bits.                                                 *)
(***************************************************************************)
EXTENDS Leaves, SharedLemmas, SequenceTheorems, TLAPS

(***************************************************************************)
(* Bits of numbers.                                                        *)
(***************************************************************************)
\* A bit is 0 or 1.
LEMMA BitIsBit ==
  ASSUME NEW x \in Nat, NEW k \in Nat
  PROVE  BitOf(x, k) \in {0, 1} /\ x \div 2^k \in Nat
<1> DEFINE m == x \div 2^k
<1>1. m \in Nat
  BY LevelUp
<1> HIDE DEF m
<1>2. m % 2 \in {0, 1}
  BY <1>1
<1> QED
  BY <1>1, <1>2 DEF BitOf, m

\* The remainder by a power of two is the bits below it.
LEMMA RemainderUp ==
  ASSUME NEW x \in Nat, NEW n \in Nat
  PROVE  x % 2^(n + 1) = BitOf(x, n) * 2^n + (x % 2^n) /\ x % 2^n \in 0..(2^n - 1) /\ 2^n \in Nat
<1>1. 2^n \in Nat /\ 2^n >= 1
  BY PowerNat, PowerPositive
<1>2. x % 2^n \in 0..(2^n - 1)
  BY <1>1, Division
<1> QED
  BY <1>1, <1>2, LevelUp DEF BitOf

\* Two numbers agree below a power of two exactly when their bits do.
LEMMA SameBits ==
  ASSUME NEW x \in Nat, NEW y \in Nat
  PROVE  \A n \in Nat : x % 2^n = y % 2^n <=> \A k \in 0..(n - 1) : BitOf(x, k) = BitOf(y, k)
<1> DEFINE Same(n) == \A k \in 0..(n - 1) : BitOf(x, k) = BitOf(y, k)
           S == {n \in Nat : x % 2^n = y % 2^n <=> Same(n)}
<1>1. 0 \in S
  <2>1. x % 2^0 = 0 /\ y % 2^0 = 0
    <3>1. x = x * 1 + 0 /\ y = y * 1 + 0
      OBVIOUS
    <3> QED
      BY <3>1, DivisionUnique, PowerOfZero
  <2> QED
    BY <2>1
<1>2. ASSUME NEW n \in Nat, n \in S PROVE n + 1 \in S
  <2>1. x % 2^n = y % 2^n <=> Same(n)
    BY <1>2
  <2>2. Same(n + 1) <=> Same(n) /\ BitOf(x, n) = BitOf(y, n)
    <3>1. \A k : k \in 0..((n + 1) - 1) <=> k \in 0..(n - 1) \/ k = n
      OBVIOUS
    <3> QED
      BY <3>1
  <2> HIDE DEF Same
  <2> DEFINE p == 2^n
             a == x % p
             b == y % p
             c == BitOf(x, n)
             d == BitOf(y, n)
  <2>3. /\ x % 2^(n + 1) = c * p + a /\ y % 2^(n + 1) = d * p + b
        /\ a \in 0..(p - 1) /\ b \in 0..(p - 1) /\ p \in Nat
    BY RemainderUp
  <2>4. c \in {0, 1} /\ d \in {0, 1}
    BY BitIsBit
  <2>5. a = b <=> Same(n)
    BY <2>1
  <2> HIDE DEF p, a, b, c, d
  <2>6. c * p + a = d * p + b <=> c = d /\ a = b
    BY <2>3, <2>4
  <2>7. x % 2^(n + 1) = y % 2^(n + 1) <=> Same(n + 1)
    BY <2>2, <2>3, <2>5, <2>6 DEF c, d
  <2> QED
    BY <2>7
<1> HIDE DEF S
<1>3. \A n \in Nat : n \in S
  BY <1>1, <1>2, SetInduction
<1> QED
  BY <1>3 DEF S

\* No bit of zero is set.
LEMMA ZeroHasNoBit == \A k \in Nat : BitOf(0, k) = 0
<1> TAKE k \in Nat
<1> DEFINE p == 2^k
<1>1. p \in Nat /\ p >= 1
  BY PowerNat, PowerPositive
<1> HIDE DEF p
<1>2. 0 = 0 * p + 0
  BY <1>1
<1>3. 0 \div p = 0
  BY <1>1, <1>2, DivisionUnique
<1> QED
  BY <1>3, 0 % 2 = 0 DEF p, BitOf

\* Dividing a number by a larger one leaves the number.
LEMMA SmallRemainder ==
  ASSUME NEW p \in Nat, NEW x \in 0..(p - 1)
  PROVE  x % p = x /\ x \div p = 0
<1>1. x = 0 * p + x /\ p >= 1
  OBVIOUS
<1> QED
  BY <1>1, DivisionUnique

\* A number is zero when all of its bits are.
LEMMA ZeroBits ==
  ASSUME NEW n \in Nat, NEW x \in 0..(2^n - 1)
  PROVE  x = 0 <=> \A k \in 0..(n - 1) : BitOf(x, k) = 0
<1>1. 2^n \in Nat /\ x \in Nat /\ 2^n >= 1
  BY PowerNat, PowerPositive
<1>2. x % 2^n = x /\ 0 % 2^n = 0
  BY <1>1, SmallRemainder
<1>3. \A k \in 0..(n - 1) : BitOf(0, k) = 0
  BY ZeroHasNoBit
<1> QED
  BY <1>1, <1>2, <1>3, SameBits

\* The quotient by a power of two has the bits above it.
LEMMA BitAbove ==
  ASSUME NEW x \in Nat, NEW n \in Nat, NEW k \in Nat
  PROVE  BitOf(x, n + k) = BitOf(x \div 2^n, k)
<1> DEFINE p == 2^n
           q == 2^k
<1>1. 2^(n + k) = p * q /\ p \in Nat /\ p >= 1 /\ q \in Nat /\ q >= 1
  BY PowerSum, PowerNat, PowerPositive
<1> HIDE DEF p, q
<1>2. (x \div p) \div q = x \div (p * q)
  BY <1>1, DivisionByProduct
<1>3. (x \div p) \div q = x \div 2^(n + k)
  BY <1>1, <1>2
<1> QED
  BY <1>3 DEF BitOf, p, q

(***************************************************************************)
(* The highest bit.                                                        *)
(***************************************************************************)
\* A number other than zero has a highest bit.
LEMMA HighestExists ==
  \A n \in Nat : \A x \in 1..(2^n - 1) : \E k \in 0..(n - 1) : 2^k <= x /\ x < 2^(k + 1)
<1> DEFINE Has(n) == \A x \in 1..(2^n - 1) : \E k \in 0..(n - 1) : 2^k <= x /\ x < 2^(k + 1)
           S == {n \in Nat : Has(n)}
<1>1. 0 \in S
  BY PowerOfZero
<1>2. ASSUME NEW n \in Nat, n \in S PROVE n + 1 \in S
  <2> SUFFICES ASSUME NEW x \in 1..(2^(n + 1) - 1)
               PROVE  \E k \in 0..((n + 1) - 1) : 2^k <= x /\ x < 2^(k + 1)
    OBVIOUS
  <2>1. Has(n) /\ 2^n \in Nat /\ 2^(n + 1) \in Nat
    BY <1>2, PowerNat
  <2> HIDE DEF S
  <2>2. CASE x < 2^n
    <3>1. x \in 1..(2^n - 1)
      BY <2>1, <2>2
    <3>2. PICK k \in 0..(n - 1) : 2^k <= x /\ x < 2^(k + 1)
      BY <2>1, <3>1
    <3>3. k \in 0..((n + 1) - 1)
      OBVIOUS
    <3> QED
      BY <3>2, <3>3
  <2>3. CASE x >= 2^n
    <3>1. n \in 0..((n + 1) - 1) /\ 2^n <= x /\ x < 2^(n + 1)
      BY <2>1, <2>3
    <3> QED
      BY <3>1
  <2> QED
    BY <2>1, <2>2, <2>3
<1> HIDE DEF S
<1>3. \A n \in Nat : n \in S
  BY <1>1, <1>2, SetInduction
<1> QED
  BY <1>3 DEF S

\* The position of the highest bit, told by what is left when it is shifted down.
LEMMA HighestByShift ==
  ASSUME NEW x \in Nat, NEW k \in Nat
  PROVE  2^k <= x /\ x < 2^(k + 1) <=> x \div 2^k = 1
<1> DEFINE p == 2^k
           q == x \div p
           r == x % p
<1>1. p \in Nat /\ p >= 1 /\ 2^(k + 1) = 2 * p
  BY PowerNat, PowerPositive, PowerStep
<1>2. x = q * p + r /\ q \in Nat /\ r \in 0..(p - 1)
  <2> HIDE DEF p
  <2> QED
    BY <1>1, Division
<1> HIDE DEF p, q, r
<1>3. CASE q = 0
  <2>1. x = r
    BY <1>1, <1>2, <1>3
  <2> QED
    BY <1>1, <1>2, <1>3, <2>1 DEF p, q
<1>4. CASE q = 1
  <2>1. x = p + r
    BY <1>1, <1>2, <1>4
  <2> QED
    BY <1>1, <1>2, <1>4, <2>1 DEF p, q
<1>5. CASE q >= 2
  <2>1. q * p >= 2 * p
    <3>1. q = 2 + (q - 2) /\ q - 2 \in Nat
      BY <1>2, <1>5
    <3>2. q * p = 2 * p + (q - 2) * p /\ (q - 2) * p \in Nat
      BY <1>1, <3>1
    <3> QED
      BY <1>1, <3>2
  <2>2. q * p \in Nat
    BY <1>1, <1>2
  <2>3. ~(x < 2 * p) /\ q # 1
    BY <1>1, <1>2, <1>5, <2>1, <2>2
  <2> QED
    BY <1>1, <2>3 DEF p, q
<1> QED
  BY <1>2, <1>3, <1>4, <1>5

\* BitIndex finds the highest bit of a byte.
LEMMA BitIndexExact ==
  ASSUME NEW x \in 1..(2^ByteBits - 1)
  PROVE  /\ BitIndex(x) \in 0..(ByteBits - 1)
         /\ x \div 2^BitIndex(x) = 1
         /\ \A k \in Nat : x \div 2^k = 1 => k = BitIndex(x)
<1>1. ByteBits \in Nat /\ 2^ByteBits \in Nat /\ x \in Nat /\ x # 0
  BY ByteBitsAssumption, PowerNat
<1>2. \E k \in 0..(ByteBits - 1) : 2^k <= x /\ x < 2^(k + 1)
  BY <1>1, HighestExists
<1>3. BitIndex(x) \in 0..(ByteBits - 1) /\ 2^BitIndex(x) <= x /\ x < 2^(BitIndex(x) + 1)
  BY <1>1, <1>2 DEF BitIndex
<1>4. x \div 2^BitIndex(x) = 1
  BY <1>1, <1>3, HighestByShift
<1>5. ASSUME NEW k \in Nat, x \div 2^k = 1 PROVE k = BitIndex(x)
  <2> DEFINE l == BitIndex(x)
  <2>1. 2^k <= x /\ x < 2^(k + 1) /\ l \in Nat /\ 2^l <= x /\ x < 2^(l + 1)
    BY <1>1, <1>3, <1>5, HighestByShift
  <2> HIDE DEF l
  <2>2. 2^k \in Nat /\ 2^l \in Nat /\ 2^(k + 1) \in Nat /\ 2^(l + 1) \in Nat
    BY <2>1, PowerNat
  <2>3. 2^k < 2^(l + 1) /\ 2^l < 2^(k + 1)
    BY <1>1, <2>1, <2>2
  <2>4. k < l + 1 /\ l < k + 1
    BY <2>1, <2>3, PowerOrder
  <2> QED
    BY <2>1, <2>4 DEF l
<1> QED
  BY <1>3, <1>4, <1>5

\* It is the highest: all above it are zero, and it is not.
LEMMA BitsOfByte ==
  ASSUME NEW x \in 1..(2^ByteBits - 1)
  PROVE  /\ BitOf(x, BitIndex(x)) = 1
         /\ \A k \in Nat : k > BitIndex(x) => BitOf(x, k) = 0
<1> DEFINE t == BitIndex(x)
<1>1. t \in Nat /\ x \in Nat /\ x \div 2^t = 1
  <2>1. ByteBits \in Nat /\ 2^ByteBits \in Nat
    BY ByteBitsAssumption, PowerNat
  <2> QED
    BY <2>1, BitIndexExact
<1> HIDE DEF t
<1>2. BitOf(x, t) = 1
  BY <1>1, 1 % 2 = 1 DEF BitOf
<1>3. ASSUME NEW k \in Nat, k > t PROVE BitOf(x, k) = 0
  <2>1. k - t \in Nat /\ k = t + (k - t) /\ k - t >= 1
    BY <1>1, <1>3
  <2>2. BitOf(x, k) = BitOf(1, k - t)
    BY <1>1, <2>1, BitAbove
  <2>3. 1 < 2^(k - t) /\ 2^(k - t) \in Nat
    <3>1. 0 \in Nat /\ 0 < k - t
      BY <2>1
    <3>2. 2^0 < 2^(k - t)
      BY <2>1, <3>1, PowerStrict
    <3> QED
      BY <2>1, <3>2, PowerNat, PowerOfZero
  <2>4. 1 \div 2^(k - t) = 0
    BY <2>3, SmallRemainder
  <2> QED
    BY <2>2, <2>4, 0 % 2 = 0 DEF BitOf
<1> QED
  BY <1>2, <1>3 DEF t

(***************************************************************************)
(* Setting a bit.                                                          *)
(***************************************************************************)
\* What SetBit stores in a byte x for the bit v at position k.
Written(x, k, v) == x + 2^k * (v - BitOf(x, k))

\* y is x but for the bit at position k, which is v, and needs no more room.
IsWritten(y, x, k, v) ==
  /\ y \in Nat
  /\ BitOf(y, k) = v
  /\ \A l \in Nat : l # k => BitOf(y, l) = BitOf(x, l)
  /\ \A l \in Nat : l > k => y \div 2^l = x \div 2^l
  /\ \A n \in Nat : n > k /\ x < 2^n => y < 2^n

\* Adding the difference of two bits at position k replaces that bit and leaves the
\* others, and with them the room the number needs.
LEMMA BitWritten ==
  ASSUME NEW x \in Nat, NEW k \in Nat, NEW v \in {0, 1}
  PROVE  IsWritten(Written(x, k, v), x, k, v)
<1> DEFINE y == Written(x, k, v)
<1> DEFINE p == 2^k
           m == x \div p
           r == x % p
           q == m \div 2
           c == m % 2
<1>1. p \in Nat /\ p >= 1
  BY PowerNat, PowerPositive
<1>2. x = m * p + r /\ m \in Nat /\ r \in 0..(p - 1)
  <2> HIDE DEF p
  <2> QED
    BY <1>1, Division
<1>3. m = 2 * q + c /\ q \in Nat /\ c \in {0, 1} /\ BitOf(x, k) = c
  <2>1. BitOf(x, k) = c
    BY DEF BitOf
  <2> HIDE DEF m
  <2> QED
    BY <1>2, <2>1
<1>4. y = x + p * (v - c)
  BY <1>3 DEF y, Written
<1>5. x \div 2^(k + 1) = q
  BY LevelUp
<1> HIDE DEF p, m, r, q, c, y
<1>6. y = (2 * q + v) * p + r
  <2>1. x = (2 * q + c) * p + r
    BY <1>2, <1>3
  <2>2. CASE v = c
    BY <1>1, <1>2, <1>3, <1>4, <2>1, <2>2
  <2>3. CASE v = 1 /\ c = 0
    <3>1. p * (v - c) = p /\ (2 * q + 0) * p + p = (2 * q + 1) * p /\ (2 * q + 0) * p \in Nat
      BY <1>1, <1>3, <2>3
    <3> QED
      BY <1>1, <1>2, <1>4, <2>1, <2>3, <3>1
  <2>4. CASE v = 0 /\ c = 1
    <3> DEFINE h == (2 * q + 0) * p
    <3>1. h + p = (2 * q + 1) * p /\ h \in Nat
      BY <1>1, <1>3
    <3>2. p * (v - c) = 0 - p
      BY <1>1, <2>4
    <3>3. x = (h + p) + r
      BY <2>1, <2>4, <3>1
    <3> HIDE DEF h
    <3>4. y = h + r
      BY <1>1, <1>2, <1>4, <3>1, <3>2, <3>3
    <3> QED
      BY <2>4, <3>4 DEF h
  <2> QED
    BY <1>3, <2>2, <2>3, <2>4
<1>7. y \in Nat
  <2>1. (2 * q + v) * p \in Nat
    BY <1>1, <1>3
  <2> QED
    BY <1>1, <1>2, <1>6, <2>1
<1>8. y \div p = 2 * q + v /\ y % p = r
  <2>1. 2 * q + v \in Nat
    BY <1>3
  <2> QED
    BY <1>1, <1>2, <1>6, <1>7, <2>1, DivisionUnique
<1>9. BitOf(y, k) = v
  <2>1. (2 * q + v) % 2 = v
    BY <1>3
  <2> QED
    BY <1>8, <2>1 DEF p, BitOf
<1>10. y \div 2^(k + 1) = q
  <2>1. y \div 2^(k + 1) = (y \div 2^k) \div 2
    BY <1>7, LevelUp
  <2>2. (2 * q + v) \div 2 = q
    BY <1>3
  <2> QED
    BY <1>8, <2>1, <2>2 DEF p
<1>11. ASSUME NEW l \in Nat, l > k PROVE y \div 2^l = x \div 2^l
  <2>1. l - (k + 1) \in Nat /\ k + 1 \in Nat /\ l = (k + 1) + (l - (k + 1))
    BY <1>11
  <2>2. 2^l = 2^(k + 1) * 2^(l - (k + 1))
    BY <2>1, PowerSum
  <2>3. /\ 2^(k + 1) \in Nat /\ 2^(k + 1) >= 1
        /\ 2^(l - (k + 1)) \in Nat /\ 2^(l - (k + 1)) >= 1
    BY <2>1, PowerNat, PowerPositive
  <2>4. /\ y \div 2^l = (y \div 2^(k + 1)) \div 2^(l - (k + 1))
        /\ x \div 2^l = (x \div 2^(k + 1)) \div 2^(l - (k + 1))
    <3> DEFINE a == 2^(k + 1)
               e == 2^(l - (k + 1))
    <3>1. a \in Nat /\ a >= 1 /\ e \in Nat /\ e >= 1
      BY <2>3
    <3> HIDE DEF a, e
    <3>2. \A z \in Nat : (z \div a) \div e = z \div (a * e)
      BY <3>1, DivisionByProduct
    <3>3. 2^l = a * e
      BY <2>2 DEF a, e
    <3>4. (y \div a) \div e = y \div 2^l
      BY <1>7, <3>2, <3>3
    <3>5. (x \div a) \div e = x \div 2^l
      BY <3>2, <3>3
    <3> QED
      BY <3>4, <3>5 DEF a, e
  <2> QED
    BY <1>5, <1>10, <2>4
<1>12. ASSUME NEW l \in Nat, l < k PROVE BitOf(y, l) = BitOf(x, l)
  <2>1. x % 2^k = y % 2^k
    BY <1>8 DEF p, r
  <2>2. l \in 0..(k - 1)
    BY <1>12
  <2> QED
    BY <1>7, <2>1, <2>2, SameBits
<1>13. ASSUME NEW n \in Nat, n > k, x < 2^n PROVE y < 2^n
  <2> DEFINE w == 2^n
  <2>1. w \in Nat /\ w >= 1
    BY PowerNat, PowerPositive
  <2>2. y \div w = x \div w
    BY <1>11, <1>13
  <2> HIDE DEF w
  <2>3. x \div w = 0
    <3>1. x \in 0..(w - 1)
      BY <1>13, <2>1 DEF w
    <3> QED
      BY <2>1, <3>1, SmallRemainder
  <2>4. y = (y \div w) * w + (y % w) /\ y % w \in 0..(w - 1)
    BY <1>7, <2>1, Division
  <2>5. y = y % w
    BY <1>7, <2>1, <2>2, <2>3, <2>4
  <2> QED
    BY <2>1, <2>4, <2>5 DEF w
<1>14. ASSUME NEW l \in Nat, l # k PROVE BitOf(y, l) = BitOf(x, l)
  <2>1. CASE l < k
    BY <1>12, <2>1
  <2>2. CASE l > k
    BY <1>11, <2>2 DEF BitOf
  <2> QED
    BY <1>14, <2>1, <2>2
<1> QED
  BY <1>7, <1>9, <1>11, <1>13, <1>14 DEF y, IsWritten

\* Where a bit of the bitfield is.
LEMMA BitPlace ==
  ASSUME NEW n \in Nat, NEW i \in 0..(n * ByteBits - 1)
  PROVE  /\ ByteOf(i) \in 1..n /\ i % ByteBits \in 0..(ByteBits - 1)
         /\ i = (ByteOf(i) - 1) * ByteBits + (i % ByteBits)
<1>1. ByteBits \in Nat /\ ByteBits >= 1 /\ n * ByteBits \in Nat
  BY ByteBitsAssumption
<1> DEFINE q == i \div ByteBits
           r == i % ByteBits
<1>2. i \in Nat /\ i = q * ByteBits + r /\ q \in Nat /\ r \in 0..(ByteBits - 1)
  <2>1. i \in Nat
    BY <1>1
  <2> QED
    BY <1>1, <2>1, Division
<1>3. ByteOf(i) = q + 1
  BY DEF ByteOf
<1> HIDE DEF q, r
<1>4. q < n
  <2> SUFFICES ASSUME q >= n PROVE FALSE
    BY <1>2
  <2>1. q = n + (q - n) /\ q - n \in Nat
    BY <1>2
  <2>2. q * ByteBits = n * ByteBits + (q - n) * ByteBits /\ (q - n) * ByteBits \in Nat
    BY <1>1, <2>1
  <2> QED
    BY <1>1, <1>2, <2>2
<1>5. (q + 1) - 1 = q /\ q + 1 \in 1..n
  BY <1>2, <1>4
<1> QED
  BY <1>2, <1>3, <1>5 DEF r

\* The bit at position k of byte m.
LEMMA PlaceBit ==
  ASSUME NEW m \in Nat \ {0}, NEW k \in 0..(ByteBits - 1)
  PROVE  ByteOf((m - 1) * ByteBits + k) = m /\ ((m - 1) * ByteBits + k) % ByteBits = k
<1> DEFINE q == m - 1
           i == q * ByteBits + k
<1>1. ByteBits \in Nat /\ ByteBits >= 1 /\ q \in Nat /\ q + 1 = m
  BY ByteBitsAssumption
<1> HIDE DEF q
<1>2. q * ByteBits \in Nat
  BY <1>1
<1>3. i \in Nat /\ i = q * ByteBits + k
  BY <1>1, <1>2
<1> HIDE DEF i
<1>4. i \div ByteBits = q /\ i % ByteBits = k
  BY <1>1, <1>3, DivisionUnique
<1> QED
  BY <1>1, <1>4 DEF ByteOf, i, q

\* SetBit replaces one byte of a bitfield by one that differs in one bit.
LEMMA SetBitWrites ==
  ASSUME NEW b \in Seq(Byte), NEW i \in 0..(Len(b) * ByteBits - 1), NEW v \in BOOLEAN
  PROVE  /\ SetBit(b, i, v) \in Seq(Byte)
         /\ Len(SetBit(b, i, v)) = Len(b)
         /\ \A m \in 1..Len(b) : m # ByteOf(i) => SetBit(b, i, v)[m] = b[m]
         /\ IsWritten(SetBit(b, i, v)[ByteOf(i)], b[ByteOf(i)], i % ByteBits, IF v THEN 1 ELSE 0)
<1> DEFINE c == SetBit(b, i, v)
           n == ByteOf(i)
           k == i % ByteBits
           bit == IF v THEN 1 ELSE 0
           x == b[n]
           y == Written(x, k, bit)
<1>1. Len(b) \in Nat /\ ByteBits \in Nat /\ 2^ByteBits \in Nat
  BY ByteBitsAssumption, PowerNat
<1>2. n \in 1..Len(b) /\ k \in 0..(ByteBits - 1)
  BY <1>1, BitPlace
<1>3. c = [b EXCEPT ![n] = y]
  BY DEF SetBit, Written
<1>4. x \in Byte /\ bit \in {0, 1}
  BY <1>2
<1> HIDE DEF n, k, c, y, bit, x
<1>5. x \in Nat /\ x < 2^ByteBits /\ k \in Nat /\ ByteBits > k
  BY <1>1, <1>2, <1>4 DEF Byte
<1>6. IsWritten(y, x, k, bit)
  BY <1>4, <1>5, BitWritten DEF y
<1>7. y \in Byte
  <2>1. y \in Nat /\ \A w \in Nat : w > k /\ x < 2^w => y < 2^w
    BY <1>6 DEF IsWritten
  <2>2. y < 2^ByteBits
    BY <1>1, <1>5, <2>1
  <2> QED
    BY <1>1, <2>1, <2>2 DEF Byte
<1>8. c \in Seq(Byte) /\ Len(c) = Len(b)
  BY <1>2, <1>3, <1>7, ExceptSeq
<1>9. \A m \in 1..Len(b) : c[m] = IF m = n THEN y ELSE b[m]
  BY <1>3
<1>10. \A m \in 1..Len(b) : m # n => c[m] = b[m]
  BY <1>9
<1>11. c[n] = y
  BY <1>2, <1>9
<1>12. IsWritten(c[n], b[n], k, bit)
  BY <1>6, <1>11 DEF x
<1> QED
  BY <1>8, <1>10, <1>12 DEF c, n, k, bit

\* bitfields/bitfield.go, SetBit: bit i gets the value v, no other bit of the bitfield
\* changes, and every byte stays one.
THEOREM SetBitExact ==
  ASSUME NEW b \in Seq(Byte), NEW i \in 0..(Len(b) * ByteBits - 1), NEW v \in BOOLEAN
  PROVE  /\ SetBit(b, i, v) \in Seq(Byte)
         /\ Len(SetBit(b, i, v)) = Len(b)
         /\ \A j \in 0..(Len(b) * ByteBits - 1) :
              GetBit(SetBit(b, i, v), j) <=> IF j = i THEN v ELSE GetBit(b, j)
<1> DEFINE c == SetBit(b, i, v)
           n == ByteOf(i)
           k == i % ByteBits
           bit == IF v THEN 1 ELSE 0
<1>1. Len(b) \in Nat /\ ByteBits \in Nat
  BY ByteBitsAssumption
<1>2. c \in Seq(Byte) /\ Len(c) = Len(b) /\ \A m \in 1..Len(b) : m # n => c[m] = b[m]
  BY SetBitWrites
<1>3. BitOf(c[n], k) = bit /\ \A l \in Nat : l # k => BitOf(c[n], l) = BitOf(b[n], l)
  <2>1. IsWritten(c[n], b[n], k, bit)
    BY SetBitWrites
  <2> HIDE DEF c, n, k, bit
  <2> QED
    BY <2>1 DEF IsWritten
<1>4. k \in Nat /\ i = (n - 1) * ByteBits + k
  BY <1>1, BitPlace
<1> HIDE DEF c
<1>5. ASSUME NEW j \in 0..(Len(b) * ByteBits - 1)
      PROVE  GetBit(c, j) <=> IF j = i THEN v ELSE GetBit(b, j)
  <2> DEFINE m == ByteOf(j)
             l == j % ByteBits
  <2>1. m \in 1..Len(b) /\ l \in Nat /\ j = (m - 1) * ByteBits + l
    BY <1>1, BitPlace
  <2>2. /\ GetBit(c, j) <=> BitOf(c[m], l) = 1
        /\ GetBit(b, j) <=> BitOf(b[m], l) = 1
    BY DEF GetBit
  <2>3. j = i => m = n /\ l = k
    OBVIOUS
  <2> HIDE DEF m, l, n, k
  <2>4. CASE j = i
    <3>1. BitOf(c[m], l) = bit
      BY <1>3, <2>3, <2>4
    <3> QED
      BY <2>2, <2>4, <3>1
  <2>5. CASE j # i /\ m = n
    <3>1. l # k
      BY <1>4, <2>1, <2>5
    <3>2. BitOf(c[m], l) = BitOf(b[m], l)
      BY <1>3, <2>1, <2>5, <3>1
    <3> QED
      BY <2>2, <2>5, <3>2
  <2>6. CASE j # i /\ m # n
    <3>1. c[m] = b[m]
      BY <1>2, <2>1, <2>6
    <3> QED
      BY <2>2, <2>6, <3>1
  <2> QED
    BY <2>4, <2>5, <2>6
<1> QED
  BY <1>2, <1>5 DEF c

(***************************************************************************)
(* Bitlists: the highest bit of the last byte marks the length.            *)
(***************************************************************************)
Bitlists == {b \in Seq(Byte) : b # <<>> /\ b[Len(b)] # 0}

\* Its last byte is one that has a highest bit, and its bits are in its bytes.
LEMMA LastByte ==
  ASSUME NEW b \in Bitlists
  PROVE  /\ b \in Seq(Byte) /\ Len(b) \in Nat \ {0}
         /\ b[Len(b)] \in 1..(2^ByteBits - 1)
         /\ BitIndex(b[Len(b)]) \in 0..(ByteBits - 1)
         /\ BitlistLen(b) = (Len(b) - 1) * ByteBits + BitIndex(b[Len(b)])
         /\ BitlistLen(b) \in 0..(Len(b) * ByteBits - 1)
<1> DEFINE len == Len(b)
           last == b[len]
           t == BitIndex(last)
<1>1. b \in Seq(Byte) /\ b # <<>> /\ last # 0
  BY DEF Bitlists
<1>2. len \in Nat \ {0} /\ last \in Byte
  <2>1. len \in Nat \ {0} /\ len \in 1..len
    BY <1>1, EmptySeq
  <2> QED
    BY <1>1, <2>1
<1>3. ByteBits \in Nat /\ ByteBits >= 1 /\ 2^ByteBits \in Nat
  BY ByteBitsAssumption, PowerNat
<1>4. last \in 1..(2^ByteBits - 1)
  BY <1>1, <1>2, <1>3 DEF Byte
<1>5. t \in 0..(ByteBits - 1)
  <2> HIDE DEF last
  <2> QED
    BY <1>4, BitIndexExact
<1>6. BitlistLen(b) = (len - 1) * ByteBits + t
  BY <1>1 DEF BitlistLen
<1> HIDE DEF t, last, len
<1>7. (len - 1) * ByteBits + t \in 0..(len * ByteBits - 1)
  <2>1. (len - 1) * ByteBits \in Nat
    <3>1. len - 1 \in Nat
      BY <1>2
    <3> QED
      BY <1>3, <3>1
  <2>2. (len - 1) * ByteBits + ByteBits = len * ByteBits /\ len * ByteBits \in Nat
    BY <1>2, <1>3
  <2> QED
    BY <1>2, <1>3, <1>5, <2>1, <2>2
<1>8. BitlistLen(b) \in 0..(len * ByteBits - 1)
  BY <1>6, <1>7
<1> QED
  BY <1>1, <1>2, <1>4, <1>5, <1>6, <1>8 DEF t, last, len

\* SetBit below the length of a bitlist, in the byte of the delimiter too, keeps the
\* delimiter and with it the length.
THEOREM SetBitKeepsLength ==
  ASSUME NEW b \in Bitlists, NEW i \in 0..(BitlistLen(b) - 1), NEW v \in BOOLEAN
  PROVE  SetBit(b, i, v) \in Bitlists /\ BitlistLen(SetBit(b, i, v)) = BitlistLen(b)
<1> DEFINE c == SetBit(b, i, v)
           len == Len(b)
           n == ByteOf(i)
           k == i % ByteBits
           t == BitIndex(b[len])
<1>1. /\ b \in Seq(Byte) /\ len \in Nat \ {0} /\ b[len] \in 1..(2^ByteBits - 1)
      /\ t \in 0..(ByteBits - 1)
      /\ BitlistLen(b) = (len - 1) * ByteBits + t
      /\ BitlistLen(b) \in 0..(len * ByteBits - 1)
  BY LastByte
<1>2. ByteBits \in Nat /\ 2^ByteBits \in Nat /\ len * ByteBits \in Nat
  <2> HIDE DEF len
  <2> QED
    BY <1>1, ByteBitsAssumption, PowerNat
<1>3. i \in 0..(len * ByteBits - 1)
  <2> HIDE DEF len
  <2> QED
    BY <1>1, <1>2
<1>4. n \in 1..len /\ i = (n - 1) * ByteBits + k /\ k \in Nat
  BY <1>1, <1>2, <1>3, BitPlace
<1>5. c \in Seq(Byte) /\ Len(c) = len /\ \A m \in 1..len : m # n => c[m] = b[m]
  BY <1>1, <1>3, SetBitWrites
<1>6. \A l \in Nat : l > k => c[n] \div 2^l = b[n] \div 2^l
  <2>1. IsWritten(c[n], b[n], k, IF v THEN 1 ELSE 0)
    BY <1>1, <1>3, SetBitWrites
  <2> HIDE DEF c, n, k
  <2> QED
    BY <2>1 DEF IsWritten
<1> HIDE DEF c, n, k
<1>7. c[len] # 0 /\ BitIndex(c[len]) = t
  <2>1. CASE n # len
    <3>1. c[len] = b[len]
      BY <1>1, <1>5, <2>1
    <3> QED
      BY <1>1, <1>2, <3>1
  <2>2. CASE n = len
    <3> HIDE DEF len
    <3>1. t > k /\ t \in Nat
      <4> HIDE DEF t
      <4> QED
        BY <1>1, <1>2, <1>4, <2>2
    <3>2. c[len] \div 2^t = b[len] \div 2^t
      BY <1>6, <2>2, <3>1
    <3>3. b[len] \div 2^t = 1
      BY <1>1, BitIndexExact
    <3>4. c[len] \in Byte
      BY <1>1, <1>5
    <3>5. c[len] # 0
      <4> SUFFICES ASSUME c[len] = 0 PROVE FALSE
        OBVIOUS
      <4> HIDE DEF t
      <4>1. 2^t \in Nat /\ 2^t >= 1
        BY <3>1, PowerNat, PowerPositive
      <4>2. 0 \div 2^t = 0
        <5> DEFINE p == 2^t
        <5>1. p \in Nat /\ 0 \in 0..(p - 1)
          BY <4>1
        <5> HIDE DEF p
        <5>2. 0 \div p = 0
          BY <5>1, SmallRemainder
        <5> QED
          BY <5>2 DEF p
      <4> QED
        BY <3>2, <3>3, <4>2
    <3>6. c[len] \in 1..(2^ByteBits - 1)
      BY <1>2, <3>4, <3>5 DEF Byte
    <3>7. \A l \in Nat : c[len] \div 2^l = 1 => l = BitIndex(c[len])
      BY <3>6, BitIndexExact
    <3> QED
      BY <3>1, <3>2, <3>3, <3>5, <3>7
  <2> QED
    BY <2>1, <2>2
<1>8. c \in Bitlists
  <2> HIDE DEF len
  <2>1. c # <<>>
    BY <1>1, <1>5
  <2> QED
    BY <1>5, <1>7, <2>1 DEF Bitlists
<1>9. BitlistLen(c) = (Len(c) - 1) * ByteBits + BitIndex(c[Len(c)])
  BY <1>8, LastByte
<1> QED
  BY <1>1, <1>5, <1>7, <1>8, <1>9 DEF c

\* bitfields/bitlist.go, BitlistCheck: its two checks, of the number of bytes and of the
\* last byte, accept exactly the bitlists of at most limit bits.
THEOREM BitlistCheckExact ==
  ASSUME NEW b \in Seq(Byte), NEW limit \in Nat
  PROVE  BitlistCheck(b, limit) <=> b \in Bitlists /\ BitlistLen(b) <= limit
<1> DEFINE len == Len(b)
           t == BitIndex(b[len])
           q == limit \div ByteBits
           r == limit % ByteBits
<1>1. len \in Nat /\ (b = <<>> <=> len = 0)
  BY EmptySeq
<1>2. ByteBits \in Nat /\ ByteBits >= 1
  BY ByteBitsAssumption
<1>3. limit = q * ByteBits + r /\ q \in Nat /\ r \in 0..(ByteBits - 1)
  BY <1>2, Division
<1>4. BitlistCheck(b, limit) <=>
        len > 0 /\ len <= q + 1 /\ b[len] # 0 /\ t <= limit - (len - 1) * ByteBits
  BY DEF BitlistCheck, BitlistCheckByteLen, BitlistCheckLastByte
<1>5. CASE b \notin Bitlists
  BY <1>1, <1>4, <1>5 DEF Bitlists
<1>6. CASE b \in Bitlists
  <2>1. BitlistLen(b) = (len - 1) * ByteBits + t /\ t \in 0..(ByteBits - 1) /\ len \in Nat \ {0}
    BY <1>6, LastByte
  <2>2. b[len] # 0
    BY <1>6 DEF Bitlists
  <2> HIDE DEF len, t, q, r
  <2>3. (len - 1) * ByteBits \in Nat
    <3>1. len - 1 \in Nat
      BY <2>1
    <3> QED
      BY <1>2, <3>1
  <2>4. (len - 1) * ByteBits + t <= limit => len <= q + 1
    <3> SUFFICES ASSUME len > q + 1 PROVE (len - 1) * ByteBits > limit
      BY <1>3, <2>1, <2>3
    <3>1. len - 1 = (q + 1) + (len - (q + 2)) /\ len - (q + 2) \in Nat
      BY <1>3, <2>1
    <3>2. /\ (len - 1) * ByteBits = (q * ByteBits + ByteBits) + (len - (q + 2)) * ByteBits
          /\ (len - (q + 2)) * ByteBits \in Nat
      <4> DEFINE d == len - (q + 2)
      <4>1. len - 1 = (q + 1) + d /\ d \in Nat
        BY <3>1
      <4> HIDE DEF d
      <4>2. ((q + 1) + d) * ByteBits = (q * ByteBits + ByteBits) + d * ByteBits /\ d * ByteBits \in Nat
        BY <1>2, <1>3, <4>1
      <4> QED
        BY <4>1, <4>2 DEF d
    <3>3. q * ByteBits \in Nat
      BY <1>2, <1>3
    <3> QED
      BY <1>2, <1>3, <3>2, <3>3
  <2>5. t <= limit - (len - 1) * ByteBits <=> (len - 1) * ByteBits + t <= limit
    BY <2>1, <2>3
  <2> QED
    BY <1>4, <1>6, <2>1, <2>2, <2>4, <2>5
<1> QED
  BY <1>5, <1>6

\* bitfields/bitfield.go, IsZeroBitlist: for a bitlist, it tells whether all of its bits
\* are zero; the one that marks the length does not count.
THEOREM IsZeroBitlistExact ==
  ASSUME NEW b \in Bitlists
  PROVE  IsZeroBitlist(b) <=> \A i \in 0..(BitlistLen(b) - 1) : ~GetBit(b, i)
<1> DEFINE len == Len(b)
           last == b[len]
           t == BitIndex(last)
<1>1. /\ b \in Seq(Byte) /\ len \in Nat \ {0} /\ last \in 1..(2^ByteBits - 1)
      /\ t \in 0..(ByteBits - 1)
      /\ BitlistLen(b) = (len - 1) * ByteBits + t
      /\ BitlistLen(b) \in 0..(len * ByteBits - 1)
  BY LastByte
<1>2. ByteBits \in Nat /\ ByteBits >= 1 /\ 2^ByteBits \in Nat
  BY ByteBitsAssumption, PowerNat
<1>3. \A m \in 1..len : b[m] \in Byte /\ b[m] \in Nat
  <2>1. \A m \in 1..len : b[m] \in Byte
    BY <1>1
  <2>2. Byte \subseteq Nat
    BY <1>2 DEF Byte
  <2> QED
    BY <2>1, <2>2
<1>4. IsZeroBitlist(b) <=> (\A m \in 1..(len - 1) : b[m] = 0) /\ last = 2^t
  <2>1. b # <<>> /\ last # 0
    BY DEF Bitlists
  <2> QED
    BY <2>1 DEF IsZeroBitlist
<1>5. last = 2^t <=> \A k \in 0..(t - 1) : BitOf(last, k) = 0
  <2>1. last \div 2^t = 1
    <3> HIDE DEF last
    <3> QED
      BY <1>1, BitIndexExact
  <2> HIDE DEF t, last
  <2>2. t \in Nat /\ last \in Nat /\ 2^t \in Nat /\ 2^t >= 1
    BY <1>1, <1>2, PowerNat, PowerPositive
  <2>3. last = 1 * 2^t + (last % 2^t) /\ last % 2^t \in 0..(2^t - 1)
    <3>1. last = (last \div 2^t) * 2^t + (last % 2^t) /\ last % 2^t \in 0..(2^t - 1)
      BY <2>2, Division
    <3> QED
      BY <2>1, <3>1
  <2>4. last = 2^t <=> last % 2^t = 0
    BY <2>2, <2>3
  <2>5. 0 % 2^t = 0
    BY <2>2, SmallRemainder
  <2>6. \A k \in 0..(t - 1) : BitOf(0, k) = 0
    BY <2>2, ZeroHasNoBit
  <2>7. last % 2^t = 0 % 2^t <=> \A k \in 0..(t - 1) : BitOf(last, k) = BitOf(0, k)
    BY <2>2, SameBits
  <2> QED
    BY <2>4, <2>5, <2>6, <2>7
<1> HIDE DEF t, last
<1>6. ASSUME NEW m \in 1..len, NEW k \in 0..(ByteBits - 1)
      PROVE  GetBit(b, (m - 1) * ByteBits + k) <=> ~(BitOf(b[m], k) = 0)
  <2>1. ByteOf((m - 1) * ByteBits + k) = m /\ ((m - 1) * ByteBits + k) % ByteBits = k
    BY <1>1, PlaceBit
  <2>2. BitOf(b[m], k) \in {0, 1}
    <3>1. b[m] \in Nat /\ k \in Nat
      BY <1>2, <1>3
    <3> QED
      BY <3>1, BitIsBit
  <2> QED
    BY <2>1, <2>2 DEF GetBit
<1>7. ASSUME IsZeroBitlist(b), NEW i \in 0..(BitlistLen(b) - 1) PROVE ~GetBit(b, i)
  <2> DEFINE m == ByteOf(i)
             k == i % ByteBits
  <2>1. i \in 0..(len * ByteBits - 1)
    <3> HIDE DEF len
    <3>1. len * ByteBits \in Nat
      BY <1>1, <1>2
    <3> QED
      BY <1>1, <3>1
  <2>2. m \in 1..len /\ k \in 0..(ByteBits - 1) /\ i = (m - 1) * ByteBits + k
    BY <1>1, <2>1, BitPlace
  <2> HIDE DEF m, k
  <2>3. BitOf(b[m], k) = 0
    <3>1. CASE m = len
      <4>1. k < t /\ k \in Nat
        <5> HIDE DEF len
        <5> QED
          BY <1>1, <1>2, <2>2, <3>1
      <4>2. k \in 0..(t - 1)
        BY <1>1, <1>2, <4>1
      <4> QED
        BY <1>4, <1>5, <1>7, <3>1, <4>2 DEF last
    <3>2. CASE m # len
      <4>1. m \in 1..(len - 1)
        BY <1>1, <2>2, <3>2
      <4>2. b[m] = 0 /\ k \in Nat
        BY <1>2, <1>4, <1>7, <2>2, <4>1
      <4> QED
        BY <4>2, ZeroHasNoBit
    <3> QED
      BY <3>1, <3>2
  <2>4. ~GetBit(b, (m - 1) * ByteBits + k)
    BY <1>6, <2>2, <2>3
  <2> QED
    BY <2>2, <2>4
<1>8. ASSUME \A i \in 0..(BitlistLen(b) - 1) : ~GetBit(b, i) PROVE IsZeroBitlist(b)
  <2>1. ASSUME NEW m \in 1..(len - 1) PROVE b[m] = 0
    <3>1. m \in 1..len /\ b[m] \in 0..(2^ByteBits - 1)
      BY <1>1, <1>3, <2>1 DEF Byte
    <3>2. ASSUME NEW k \in 0..(ByteBits - 1) PROVE BitOf(b[m], k) = 0
      <4>1. (m - 1) * ByteBits + k \in 0..(BitlistLen(b) - 1)
        <5> DEFINE d == (len - 1) - m
        <5>1. m \in Nat /\ m - 1 \in Nat /\ d \in Nat /\ len - 1 = m + d /\ m = (m - 1) + 1
          BY <1>1
        <5> HIDE DEF d, len
        <5>2. (len - 1) * ByteBits = m * ByteBits + d * ByteBits /\ d * ByteBits \in Nat
          BY <1>2, <5>1
        <5>3. (m - 1) * ByteBits + ByteBits = m * ByteBits /\ (m - 1) * ByteBits \in Nat
          BY <1>2, <5>1
        <5> QED
          BY <1>1, <1>2, <5>2, <5>3
      <4> QED
        BY <1>6, <1>8, <3>1, <4>1
    <3> QED
      BY <1>2, <3>1, <3>2, ZeroBits
  <2>2. ASSUME NEW k \in 0..(t - 1) PROVE BitOf(last, k) = 0
    <3>1. k \in 0..(ByteBits - 1) /\ len \in 1..len
      BY <1>1, <1>2
    <3>2. (len - 1) * ByteBits + k \in 0..(BitlistLen(b) - 1)
      <4> HIDE DEF len
      <4>1. (len - 1) * ByteBits \in Nat
        <5>1. len - 1 \in Nat
          BY <1>1
        <5> QED
          BY <1>2, <5>1
      <4> QED
        BY <1>1, <1>2, <4>1
    <3> QED
      BY <1>6, <1>8, <3>1, <3>2 DEF last
  <2> QED
    BY <1>4, <1>5, <2>1, <2>2
<1> QED
  BY <1>7, <1>8

(***************************************************************************)
(* Bitvectors.                                                             *)
(***************************************************************************)
\* A number of w bits is below 2^n when its bits from n on are zero.
LEMMA BelowPower ==
  ASSUME NEW w \in Nat, NEW n \in 0..w, NEW x \in 0..(2^w - 1)
  PROVE  x < 2^n <=> \A k \in n..(w - 1) : BitOf(x, k) = 0
<1> DEFINE p == 2^n
           d == w - n
           h == x \div p
<1>1. n \in Nat /\ d \in Nat /\ n + d = w
  OBVIOUS
<1>2. p \in Nat /\ p >= 1 /\ 2^d \in Nat /\ 2^w = p * 2^d
  <2> HIDE DEF d
  <2> QED
    BY <1>1, PowerNat, PowerPositive, PowerSum
<1>3. x \in Nat
  <2>1. 2^w \in Nat
    BY PowerNat
  <2> QED
    BY <2>1
<1>4. x = h * p + (x % p) /\ h \in Nat /\ x % p \in 0..(p - 1)
  <2> HIDE DEF p
  <2> QED
    BY <1>2, <1>3, Division
<1>5. \A k \in Nat : BitOf(x, n + k) = BitOf(h, k)
  BY <1>1, <1>3, BitAbove
<1>6. x < 2^w
  <2>1. 2^w \in Nat
    BY PowerNat
  <2> QED
    BY <2>1
<1> HIDE DEF p, h, d
<1>7. h \in 0..(2^d - 1)
  <2> DEFINE s == 2^d
  <2>1. s \in Nat /\ x < p * s
    BY <1>2, <1>6
  <2> HIDE DEF s
  <2>2. h < s
    <3> SUFFICES ASSUME h >= s PROVE FALSE
      BY <1>4, <2>1
    <3>1. h = s + (h - s) /\ h - s \in Nat
      BY <1>4, <2>1
    <3> DEFINE e == h - s
    <3>2. h = s + e /\ e \in Nat
      BY <3>1
    <3> HIDE DEF e
    <3>3. h * p = p * s + e * p /\ e * p \in Nat /\ p * s \in Nat
      BY <1>2, <2>1, <3>2
    <3> QED
      BY <1>2, <1>4, <2>1, <3>3
  <2> QED
    BY <1>4, <2>1, <2>2 DEF s
<1>8. h = 0 <=> \A k \in 0..(d - 1) : BitOf(h, k) = 0
  BY <1>1, <1>7, ZeroBits
<1>9. x < p <=> h = 0
  <2>1. CASE h = 0
    BY <1>2, <1>3, <1>4, <2>1
  <2>2. CASE h >= 1
    <3>1. h * p >= p /\ h * p \in Nat
      <4>1. h - 1 \in Nat /\ h = (h - 1) + 1
        BY <1>4, <2>2
      <4>2. (h - 1) * p \in Nat /\ h * p = (h - 1) * p + p
        BY <1>2, <4>1
      <4> QED
        BY <1>2, <4>2
    <3> QED
      BY <1>2, <1>3, <1>4, <2>2, <3>1
  <2> QED
    BY <1>4, <2>1, <2>2
<1>10. (\A k \in 0..(d - 1) : BitOf(h, k) = 0) <=> \A k \in n..(w - 1) : BitOf(x, k) = 0
  <2>1. ASSUME \A k \in 0..(d - 1) : BitOf(h, k) = 0, NEW k \in n..(w - 1) PROVE BitOf(x, k) = 0
    <3>1. k - n \in 0..(d - 1) /\ k - n \in Nat /\ n + (k - n) = k
      BY <1>1
    <3>2. BitOf(x, n + (k - n)) = BitOf(h, k - n)
      BY <1>5, <3>1
    <3> QED
      BY <2>1, <3>1, <3>2
  <2>2. ASSUME \A k \in n..(w - 1) : BitOf(x, k) = 0, NEW k \in 0..(d - 1) PROVE BitOf(h, k) = 0
    <3>1. n + k \in n..(w - 1) /\ k \in Nat
      BY <1>1
    <3> QED
      BY <1>5, <2>2, <3>1
  <2> QED
    BY <2>1, <2>2
<1> QED
  BY <1>8, <1>9, <1>10 DEF p

\* The bytes that n bits need.
LEMMA BytesNeeded ==
  ASSUME NEW n \in Nat
  PROVE  RoundUp(n, ByteBits) = n \div ByteBits + (IF n % ByteBits = 0 THEN 0 ELSE 1)
<1> DEFINE q == n \div ByteBits
           r == n % ByteBits
<1>1. ByteBits \in Nat /\ ByteBits >= 1
  BY ByteBitsAssumption
<1>2. n = q * ByteBits + r /\ q \in Nat /\ r \in 0..(ByteBits - 1)
  BY <1>1, Division
<1>3. RoundUp(n, ByteBits) = (n + ByteBits - 1) \div ByteBits
  BY DEF RoundUp
<1> HIDE DEF q, r
<1>4. q * ByteBits \in Nat /\ (q + 1) * ByteBits = q * ByteBits + ByteBits
  BY <1>1, <1>2
<1>5. n + ByteBits - 1 \in Nat
  BY <1>1
<1>6. CASE r = 0
  <2>1. n + ByteBits - 1 = q * ByteBits + (ByteBits - 1) /\ ByteBits - 1 \in 0..(ByteBits - 1)
    BY <1>1, <1>2, <1>4, <1>6
  <2>2. (n + ByteBits - 1) \div ByteBits = q
    BY <1>1, <1>2, <1>5, <2>1, DivisionUnique
  <2> QED
    BY <1>2, <1>3, <1>6, <2>2 DEF q, r
<1>7. CASE r # 0
  <2>1. n + ByteBits - 1 = (q + 1) * ByteBits + (r - 1) /\ r - 1 \in 0..(ByteBits - 1) /\ q + 1 \in Nat
    BY <1>1, <1>2, <1>4, <1>7
  <2>2. (n + ByteBits - 1) \div ByteBits = q + 1
    BY <1>1, <1>2, <1>5, <2>1, DivisionUnique
  <2> QED
    BY <1>2, <1>3, <1>7, <2>2 DEF q, r
<1> QED
  BY <1>6, <1>7

\* bitfields/bitvector.go, BitvectorCheck: accepts exactly the bitfields of as many bytes
\* as n bits need that have no bit set from n on.
THEOREM BitvectorCheckExact ==
  ASSUME NEW b \in Seq(Byte), NEW n \in Nat
  PROVE  BitvectorCheck(b, n) <=>
           Len(b) = RoundUp(n, ByteBits) /\ \A i \in n..(Len(b) * ByteBits - 1) : ~GetBit(b, i)
<1> DEFINE len == Len(b)
           last == b[len]
           q == n \div ByteBits
           r == n % ByteBits
<1>1. len \in Nat /\ (b = <<>> <=> len = 0) /\ ByteBits \in Nat /\ ByteBits >= 1 /\ 2^ByteBits \in Nat
  BY EmptySeq, ByteBitsAssumption, PowerNat
<1>2. n = q * ByteBits + r /\ q \in Nat /\ r \in 0..(ByteBits - 1)
  <2> HIDE DEF len
  <2> QED
    BY <1>1, Division
<1>3. BitvectorCheck(b, n) <=>
        len = RoundUp(n, ByteBits) /\ (b = <<>> \/ (n # 0 /\ (r = 0 \/ last < 2^r)))
  BY DEF BitvectorCheck, BitvectorCheckByteLen, BitvectorCheckLastByte
<1>4. RoundUp(n, ByteBits) = IF r = 0 THEN q ELSE q + 1
  <2>1. RoundUp(n, ByteBits) = q + (IF r = 0 THEN 0 ELSE 1)
    BY BytesNeeded
  <2> HIDE DEF q, r
  <2> QED
    BY <1>2, <2>1
<1> HIDE DEF q, r
<1>5. CASE len # RoundUp(n, ByteBits)
  BY <1>3, <1>5
<1>6. CASE len = RoundUp(n, ByteBits) /\ r = 0
  <2> HIDE DEF len
  <2>1. n = len * ByteBits
    BY <1>1, <1>2, <1>4, <1>6
  <2>2. n # 0 \/ b = <<>>
    <3>1. len # 0 => n # 0
      BY <1>1, <2>1
    <3> QED
      BY <1>1, <3>1
  <2>3. n..(len * ByteBits - 1) = {}
    BY <2>1
  <2> QED
    BY <1>3, <1>6, <2>2, <2>3 DEF len
<1>7. CASE len = RoundUp(n, ByteBits) /\ r # 0
  <2>1. len = q + 1 /\ len - 1 = q /\ len \in Nat \ {0} /\ n # 0 /\ b # <<>>
    <3> HIDE DEF len
    <3>1. q * ByteBits \in Nat
      BY <1>1, <1>2
    <3> QED
      BY <1>1, <1>2, <1>4, <1>7, <3>1
  <2>2. last \in Byte /\ last \in 0..(2^ByteBits - 1)
    <3>1. len \in 1..len
      BY <2>1
    <3>2. last \in Byte
      BY <3>1
    <3> HIDE DEF last
    <3> QED
      BY <3>2 DEF Byte
  <2>3. last < 2^r <=> \A k \in r..(ByteBits - 1) : BitOf(last, k) = 0
    <3> HIDE DEF last
    <3>1. r \in 0..ByteBits
      BY <1>1, <1>2
    <3> QED
      BY <1>1, <2>2, <3>1, BelowPower
  <2>4. ASSUME NEW k \in 0..(ByteBits - 1)
        PROVE  GetBit(b, (len - 1) * ByteBits + k) <=> ~(BitOf(last, k) = 0)
    <3> HIDE DEF len, last
    <3>1. ByteOf((len - 1) * ByteBits + k) = len /\ ((len - 1) * ByteBits + k) % ByteBits = k
      BY <2>1, PlaceBit
    <3>2. last \in Nat /\ k \in Nat
      BY <1>1, <2>2
    <3>3. BitOf(last, k) \in {0, 1}
      BY <3>2, BitIsBit
    <3> QED
      BY <3>1, <3>3 DEF GetBit, last
  <2> HIDE DEF len, last
  <2>5. q * ByteBits \in Nat /\ len * ByteBits = q * ByteBits + ByteBits
    BY <1>1, <1>2, <2>1
  <2>6. ASSUME \A k \in r..(ByteBits - 1) : BitOf(last, k) = 0, NEW i \in n..(len * ByteBits - 1)
        PROVE  ~GetBit(b, i)
    <3> DEFINE k == i - q * ByteBits
    <3>1. k \in r..(ByteBits - 1) /\ k \in 0..(ByteBits - 1) /\ i = q * ByteBits + k
      BY <1>1, <1>2, <2>5
    <3> HIDE DEF k
    <3>2. ~GetBit(b, (len - 1) * ByteBits + k)
      BY <2>4, <2>6, <3>1
    <3> QED
      BY <2>1, <3>1, <3>2
  <2>7. ASSUME \A i \in n..(len * ByteBits - 1) : ~GetBit(b, i), NEW k \in r..(ByteBits - 1)
        PROVE  BitOf(last, k) = 0
    <3>1. k \in 0..(ByteBits - 1) /\ q * ByteBits + k \in n..(len * ByteBits - 1)
      BY <1>1, <1>2, <2>5
    <3>2. ~GetBit(b, q * ByteBits + k)
      BY <2>7, <3>1
    <3> QED
      BY <2>1, <2>4, <3>1, <3>2
  <2> QED
    BY <1>3, <1>7, <2>1, <2>3, <2>6, <2>7 DEF len
<1> QED
  BY <1>5, <1>6, <1>7

(***************************************************************************)
(* One encoding per bitlist.                                               *)
(***************************************************************************)
\* Two bitlists of the same length (BitlistLen) with the same bits (GetBit) are the same
\* bytes: what the checks accept is the only encoding of its bits.
THEOREM BitlistsAreTheirBits ==
  ASSUME NEW a \in Bitlists, NEW b \in Bitlists, BitlistLen(a) = BitlistLen(b),
         \A i \in 0..(BitlistLen(a) - 1) : GetBit(a, i) <=> GetBit(b, i)
  PROVE  a = b
<1> DEFINE len == Len(a)
           t == BitIndex(a[len])
<1>1. /\ a \in Seq(Byte) /\ len \in Nat \ {0} /\ a[len] \in 1..(2^ByteBits - 1)
      /\ t \in 0..(ByteBits - 1)
      /\ BitlistLen(a) = (len - 1) * ByteBits + t
  BY LastByte
<1>2. /\ b \in Seq(Byte) /\ Len(b) \in Nat \ {0} /\ b[Len(b)] \in 1..(2^ByteBits - 1)
      /\ BitIndex(b[Len(b)]) \in 0..(ByteBits - 1)
      /\ BitlistLen(b) = (Len(b) - 1) * ByteBits + BitIndex(b[Len(b)])
  BY LastByte
<1>3. ByteBits \in Nat /\ ByteBits >= 1 /\ 2^ByteBits \in Nat
  BY ByteBitsAssumption, PowerNat
<1>4. Len(b) = len /\ BitIndex(b[len]) = t
  <2> DEFINE u == BitIndex(b[Len(b)])
             lenB == Len(b)
             total == BitlistLen(a)
  <2>1. /\ total = (len - 1) * ByteBits + t /\ total = (lenB - 1) * ByteBits + u
        /\ t \in 0..(ByteBits - 1) /\ u \in 0..(ByteBits - 1)
        /\ len - 1 \in Nat /\ lenB - 1 \in Nat /\ len \in Nat /\ lenB \in Nat
    <3>1. total = (len - 1) * ByteBits + t /\ t \in 0..(ByteBits - 1) /\ len \in Nat \ {0}
      BY <1>1
    <3>2. total = (lenB - 1) * ByteBits + u /\ u \in 0..(ByteBits - 1) /\ lenB \in Nat \ {0}
      BY <1>2
    <3> HIDE DEF t, u, len, lenB, total
    <3> QED
      BY <3>1, <3>2
  <2> HIDE DEF t, u, len, lenB, total
  <2>2. total \in Nat
    <3>1. (len - 1) * ByteBits \in Nat
      BY <1>3, <2>1
    <3> QED
      BY <1>3, <2>1, <3>1
  <2>3. total \div ByteBits = len - 1 /\ total % ByteBits = t
    BY <1>3, <2>1, <2>2, DivisionUnique
  <2>4. total \div ByteBits = lenB - 1 /\ total % ByteBits = u
    BY <1>3, <2>1, <2>2, DivisionUnique
  <2>5. len = lenB /\ t = u
    BY <2>1, <2>3, <2>4
  <2> QED
    BY <2>5 DEF u, lenB
<1>5. ASSUME NEW m \in 1..len, NEW k \in 0..(ByteBits - 1), (m - 1) * ByteBits + k < BitlistLen(a)
      PROVE  BitOf(a[m], k) = BitOf(b[m], k)
  <2> DEFINE i == (m - 1) * ByteBits + k
  <2>1. ByteOf(i) = m /\ i % ByteBits = k
    BY <1>1, PlaceBit
  <2>2. i \in 0..(BitlistLen(a) - 1)
    <3>1. (m - 1) * ByteBits \in Nat
      <4>1. m - 1 \in Nat
        BY <1>1
      <4> QED
        BY <1>3, <4>1
    <3>2. (len - 1) * ByteBits \in Nat
      <4> HIDE DEF len
      <4>1. len - 1 \in Nat
        BY <1>1
      <4> QED
        BY <1>3, <4>1
    <3> HIDE DEF len, t
    <3> QED
      BY <1>1, <1>3, <1>5, <3>1, <3>2
  <2> HIDE DEF i
  <2>3. BitOf(a[m], k) = 1 <=> BitOf(b[m], k) = 1
    BY <2>1, <2>2 DEF GetBit
  <2>4. a[m] \in Nat /\ b[m] \in Nat /\ k \in Nat
    <3>1. a[m] \in Byte /\ b[m] \in Byte
      BY <1>1, <1>2, <1>4
    <3> QED
      BY <1>3, <3>1 DEF Byte
  <2>5. BitOf(a[m], k) \in {0, 1} /\ BitOf(b[m], k) \in {0, 1}
    BY <2>4, BitIsBit
  <2> QED
    BY <2>3, <2>5
<1>6. ASSUME NEW m \in 1..len, m # len PROVE a[m] = b[m]
  <2>1. a[m] \in Byte /\ b[m] \in Byte
    BY <1>1, <1>2, <1>4
  <2>2. ASSUME NEW k \in 0..(ByteBits - 1) PROVE BitOf(a[m], k) = BitOf(b[m], k)
    <3>1. (m - 1) * ByteBits + k < BitlistLen(a)
      <4> DEFINE d == (len - 1) - m
      <4>1. m \in Nat /\ m - 1 \in Nat /\ d \in Nat /\ len - 1 = m + d
        BY <1>1, <1>6
      <4> HIDE DEF d, len
      <4>2. (len - 1) * ByteBits = m * ByteBits + d * ByteBits /\ d * ByteBits \in Nat
        BY <1>3, <4>1
      <4>3. (m - 1) * ByteBits + ByteBits = m * ByteBits /\ (m - 1) * ByteBits \in Nat
        BY <1>3, <4>1
      <4> HIDE DEF t
      <4> QED
        BY <1>1, <1>3, <4>2, <4>3
    <3> QED
      BY <1>5, <3>1
  <2> DEFINE x == a[m]
             y == b[m]
  <2>3. x \in 0..(2^ByteBits - 1) /\ y \in 0..(2^ByteBits - 1) /\ x \in Nat /\ y \in Nat
    BY <1>3, <2>1 DEF Byte
  <2>4. \A k \in 0..(ByteBits - 1) : BitOf(x, k) = BitOf(y, k)
    BY <2>2
  <2> HIDE DEF x, y
  <2>5. x % 2^ByteBits = y % 2^ByteBits
    BY <1>3, <2>3, <2>4, SameBits
  <2>6. x % 2^ByteBits = x /\ y % 2^ByteBits = y
    BY <1>3, <2>3, SmallRemainder
  <2> QED
    BY <2>5, <2>6 DEF x, y
<1>7. a[len] = b[len]
  <2> DEFINE x == a[len]
             y == b[len]
  <2>1. x \in 1..(2^ByteBits - 1) /\ y \in 1..(2^ByteBits - 1) /\ BitIndex(x) = t /\ BitIndex(y) = t
    BY <1>1, <1>2, <1>4
  <2>2. ASSUME NEW k \in 0..(t - 1) PROVE BitOf(x, k) = BitOf(y, k)
    <3> HIDE DEF t
    <3>1. k \in 0..(ByteBits - 1) /\ len \in 1..len
      BY <1>1, <1>3
    <3>2. (len - 1) * ByteBits + k < BitlistLen(a)
      <4> HIDE DEF len
      <4>1. (len - 1) * ByteBits \in Nat
        <5>1. len - 1 \in Nat
          BY <1>1
        <5> QED
          BY <1>3, <5>1
      <4> QED
        BY <1>1, <1>3, <4>1
    <3> QED
      BY <1>5, <3>1, <3>2
  <2> HIDE DEF x, y
  <2>3. x \div 2^t = 1 /\ y \div 2^t = 1
    BY <2>1, BitIndexExact
  <2> HIDE DEF t
  <2>4. t \in Nat /\ 2^t \in Nat /\ 2^t >= 1 /\ x \in Nat /\ y \in Nat
    BY <1>1, <1>3, <2>1, PowerNat, PowerPositive
  <2>5. x % 2^t = y % 2^t
    BY <2>2, <2>4, SameBits
  <2>6. x = 1 * 2^t + (x % 2^t) /\ y = 1 * 2^t + (y % 2^t)
    BY <2>3, <2>4, Division
  <2> QED
    BY <2>5, <2>6 DEF x, y
<1>8. \A m \in 1..len : a[m] = b[m]
  BY <1>6, <1>7
<1> QED
  BY <1>1, <1>2, <1>4, <1>8, SeqEqual

(***************************************************************************)
(* Roundings.                                                              *)
(***************************************************************************)
LEMMA TimesMonotone ==
  ASSUME NEW p \in Nat, NEW q \in Nat, p <= q, NEW u \in Nat
  PROVE  p * u <= q * u /\ p * u \in Nat /\ q * u \in Nat
<1>1. q = p + (q - p) /\ q - p \in Nat
  OBVIOUS
<1> DEFINE d == q - p
<1>2. q = p + d /\ d \in Nat
  BY <1>1
<1> HIDE DEF d
<1>3. q * u = p * u + d * u /\ d * u \in Nat /\ p * u \in Nat
  BY <1>2
<1> QED
  BY <1>3

LEMMA RoundUpExact ==
  ASSUME NEW n \in Nat, NEW u \in Nat \ {0}
  PROVE  /\ RoundUp(n, u) \in Nat
         /\ n <= RoundUp(n, u) * u
         /\ RoundUp(n, u) * u < n + u
<1> DEFINE x == n + u - 1
           q == x \div u
           r == x % u
<1>1. x \in Nat /\ u >= 1
  OBVIOUS
<1>2. x = q * u + r /\ q \in Nat /\ r \in 0..(u - 1)
  <2> HIDE DEF x
  <2> QED
    BY <1>1, Division
<1>3. RoundUp(n, u) = q
  BY DEF RoundUp
<1> DEFINE p == q * u
<1>4. p \in Nat /\ n + u - 1 = p + r
  BY <1>2
<1> HIDE DEF q, r, p
<1>5. n <= p /\ p < n + u
  BY <1>2, <1>4
<1> QED
  BY <1>2, <1>3, <1>5 DEF p

\* More bytes need no fewer chunks.
LEMMA RoundUpMonotone ==
  ASSUME NEW m \in Nat, NEW n \in Nat, m <= n, NEW u \in Nat \ {0}
  PROVE  RoundUp(m, u) <= RoundUp(n, u)
<1> DEFINE p == RoundUp(m, u)
           q == RoundUp(n, u)
<1>1. /\ p \in Nat /\ p * u < m + u
      /\ q \in Nat /\ n <= q * u
  BY RoundUpExact
<1> HIDE DEF p, q
<1>2. ASSUME q + 1 <= p PROVE FALSE
  <2>1. (q + 1) * u <= p * u /\ p * u \in Nat /\ q * u \in Nat
    BY <1>1, <1>2, TimesMonotone
  <2>2. (q + 1) * u = q * u + u
    BY <1>1
  <2> QED
    BY <1>1, <2>1, <2>2
<1>3. p <= q
  BY <1>1, <1>2
<1> QED
  BY <1>3 DEF p, q

(***************************************************************************)
(* Chunks.                                                                 *)
(***************************************************************************)
\* Where byte i of n bytes is.
LEMMA ChunkPlace ==
  ASSUME NEW n \in Nat, NEW i \in 1..n, NEW u \in Nat \ {0}
  PROVE  \E k \in 1..RoundUp(n, u) : \E j \in 1..u : i = (k - 1) * u + j
<1> DEFINE q == (i - 1) \div u
           r == (i - 1) % u
           c == RoundUp(n, u)
<1>1. i - 1 = q * u + r /\ q \in Nat /\ r \in 0..(u - 1)
  <2>1. i - 1 \in Nat /\ u >= 1
    OBVIOUS
  <2> QED
    BY <2>1, Division
<1>2. c \in Nat /\ n <= c * u
  BY RoundUpExact
<1> HIDE DEF q, r, c
<1>3. ASSUME c <= q PROVE FALSE
  <2>1. c * u <= q * u /\ c * u \in Nat /\ q * u \in Nat
    BY <1>1, <1>2, <1>3, TimesMonotone
  <2> QED
    BY <1>1, <1>2, <2>1
<1>4. q + 1 \in 1..c /\ r + 1 \in 1..u
  BY <1>1, <1>2, <1>3
<1>5. i = ((q + 1) - 1) * u + (r + 1)
  <2>1. (q + 1) - 1 = q
    BY <1>1
  <2>2. q * u \in Nat
    BY <1>1
  <2> QED
    BY <1>1, <2>1, <2>2
<1>6. \E k \in 1..c : \E j \in 1..u : i = (k - 1) * u + j
  BY <1>4, <1>5
<1> QED
  BY <1>6 DEF c

\* What is cut out of a sequence.
LEMMA Cut ==
  ASSUME NEW S, NEW b \in Seq(S), NEW a \in Nat, NEW z \in Nat, a <= z, z <= Len(b)
  PROVE  /\ SubSeq(b, a + 1, z) \in Seq(S)
         /\ Len(SubSeq(b, a + 1, z)) = z - a
         /\ \A j \in 1..(z - a) : SubSeq(b, a + 1, z)[j] = b[a + j]
<1>1. \A i \in (a + 1)..z : i \in 1..Len(b)
  OBVIOUS
<1> QED
  BY <1>1

\* Bytes, padded with zeros.
Padded(b, i) == IF i <= Len(b) THEN b[i] ELSE 0

\* A chunk starts where there are bytes, and is as long as it can be.
LEMMA ChunkOfExact ==
  ASSUME NEW S, NEW b \in Seq(S), NEW k \in 1..RoundUp(Len(b), ChunkLen)
  PROVE  /\ (k - 1) * ChunkLen \in Nat
         /\ (k - 1) * ChunkLen < Len(b)
         /\ ChunkOf(b, k) \in Seq(S)
         /\ Len(ChunkOf(b, k)) \in 1..ChunkLen
         /\ Len(ChunkOf(b, k)) = Least((k - 1) * ChunkLen + ChunkLen, Len(b)) - (k - 1) * ChunkLen
         /\ \A j \in 1..Len(ChunkOf(b, k)) : ChunkOf(b, k)[j] = b[(k - 1) * ChunkLen + j]
<1> DEFINE u == ChunkLen
           n == Len(b)
           c == RoundUp(n, u)
           s == (k - 1) * u
           e == Least(k * u, n)
           x == ChunkOf(b, k)
<1>1. u \in Nat \ {0} /\ n \in Nat
  BY ChunkLenAssumption
<1>2. c \in Nat /\ c * u < n + u
  BY <1>1, RoundUpExact
<1>3. k \in Nat /\ k - 1 \in Nat /\ k <= c
  BY <1>2
<1>4. k * u <= c * u /\ k * u \in Nat /\ c * u \in Nat
  BY <1>1, <1>2, <1>3, TimesMonotone
<1>5. s \in Nat /\ k * u = s + u
  BY <1>1, <1>3
<1> HIDE DEF u, n, c, s
<1>6. s < n
  BY <1>1, <1>2, <1>4, <1>5
<1>7. e \in Nat /\ s < e /\ e <= n /\ e <= s + u /\ e = Least(s + u, n)
  BY <1>1, <1>5, <1>6 DEF Least
<1> HIDE DEF e
<1>8. x = SubSeq(b, s + 1, e)
  BY DEF ChunkOf, s, e, u, n
<1>9. x \in Seq(S) /\ Len(x) = e - s /\ \A j \in 1..(e - s) : x[j] = b[s + j]
  <2>1. e <= Len(b) /\ s <= e
    BY <1>1, <1>5, <1>7 DEF n
  <2> QED
    BY <1>5, <1>7, <1>8, <2>1, Cut
<1>10. Len(x) \in 1..u
  BY <1>1, <1>5, <1>7, <1>9
<1> HIDE DEF x
<1> QED
  BY <1>5, <1>6, <1>7, <1>9, <1>10 DEF x, s, u, n

LEMMA ChunkRow ==
  ASSUME NEW S, NEW b \in Seq(S), NEW k \in 1..RoundUp(Len(b), ChunkLen)
  PROVE  Chunk(ChunkOf(b, k)) =
           [chunk |-> [j \in 1..ChunkLen |-> Padded(b, (k - 1) * ChunkLen + j)]]
<1> DEFINE x == ChunkOf(b, k)
           s == (k - 1) * ChunkLen
<1>1. /\ s \in Nat /\ s < Len(b) /\ Len(x) \in 1..ChunkLen /\ ChunkLen \in Nat /\ Len(b) \in Nat
      /\ Len(x) = Least(s + ChunkLen, Len(b)) - s
      /\ \A j \in 1..Len(x) : x[j] = b[s + j]
  BY ChunkOfExact, ChunkLenAssumption
<1> HIDE DEF x, s
<1>2. ASSUME NEW j \in 1..ChunkLen
      PROVE  (IF j <= Len(x) THEN x[j] ELSE 0) = Padded(b, s + j)
  <2>1. j <= Len(x) <=> s + j <= Len(b)
    BY <1>1 DEF Least
  <2> QED
    BY <1>1, <2>1 DEF Padded
<1>3. Chunk(x) = [chunk |-> [j \in 1..ChunkLen |-> IF j <= Len(x) THEN x[j] ELSE 0]]
  BY DEF Chunk, Each
<1> QED
  BY <1>2, <1>3 DEF x, s

\* types/ssz_bytes.go, types/basic_series.go: byte series of one length whose leaves are
\* the same, are the same.  (The padding does not tell <<1>> from <<1, 0>>: it is the
\* length that HashTreeRoot mixes in that does.)
THEOREM ChunksDistinguish ==
  ASSUME NEW S, NEW a \in Seq(S), NEW b \in Seq(S), Len(a) = Len(b), Chunks(a) = Chunks(b)
  PROVE  a = b
<1> DEFINE n == Len(a)
<1>1. n \in Nat /\ Len(b) = n /\ ChunkLen \in Nat \ {0}
  BY ChunkLenAssumption
<1>2. ASSUME NEW i \in 1..n PROVE a[i] = b[i]
  <2>1. PICK k \in 1..RoundUp(n, ChunkLen), j \in 1..ChunkLen : i = (k - 1) * ChunkLen + j
    BY <1>1, ChunkPlace
  <2>2. Chunks(a)[k] = Chunk(ChunkOf(a, k)) /\ Chunks(b)[k] = Chunk(ChunkOf(b, k))
    BY <1>1 DEF Chunks, Each
  <2>3. /\ Chunk(ChunkOf(a, k)).chunk[j] = Padded(a, i)
        /\ Chunk(ChunkOf(b, k)).chunk[j] = Padded(b, i)
    BY <1>1, <2>1, ChunkRow
  <2>4. Padded(a, i) = Padded(b, i)
    BY <2>2, <2>3
  <2> QED
    BY <1>1, <2>4 DEF Padded
<1> QED
  BY <1>1, <1>2

(***************************************************************************)
(* The leaves of bitlists.                                                 *)
(***************************************************************************)
Delimiter(b) == BitIndex(b[Len(b)])

\* The bytes without the delimiter: one fewer, when it has a byte of its own.
LEMMA BitlistData ==
  ASSUME NEW b \in Bitlists
  PROVE  /\ BitlistLen(b) % ByteBits = Delimiter(b)
         /\ DataLen(b) = IF Delimiter(b) = 0 THEN Len(b) - 1 ELSE Len(b)
         /\ DataLen(b) \in 0..Len(b)
<1> DEFINE len == Len(b)
           t == Delimiter(b)
           u == ByteBits
<1>1. /\ len \in Nat \ {0} /\ t \in 0..(u - 1) /\ u \in Nat \ {0}
      /\ BitlistLen(b) = (len - 1) * u + t
      /\ BitlistLen(b) \in Nat
  BY LastByte, ByteBitsAssumption DEF Delimiter
<1>2. DataLen(b) = (((len - 1) * u + t) + u - 1) \div u
  BY <1>1 DEF DataLen, RoundUp
<1> HIDE DEF len, t, u
<1>3. BitlistLen(b) % u = t
  <2>1. u >= 1 /\ len - 1 \in Nat
    BY <1>1
  <2> QED
    BY <1>1, <2>1, DivisionUnique
<1>4. CASE t = 0
  <2>1. ((len - 1) * u + t) + u - 1 = (len - 1) * u + (u - 1)
    BY <1>1, <1>4
  <2>2. (len - 1) * u + (u - 1) \in Nat /\ len - 1 \in Nat /\ u >= 1 /\ u - 1 \in 0..(u - 1)
    BY <1>1
  <2>3. ((len - 1) * u + (u - 1)) \div u = len - 1
    BY <1>1, <2>2, DivisionUnique
  <2>4. DataLen(b) = len - 1
    BY <1>2, <2>1, <2>3
  <2> QED
    BY <1>1, <1>3, <1>4, <2>4 DEF len, t, u
<1>5. CASE t # 0
  <2>1. ((len - 1) * u + t) + u - 1 = len * u + (t - 1)
    BY <1>1
  <2>2. len * u + (t - 1) \in Nat /\ len \in Nat /\ u >= 1 /\ t - 1 \in 0..(u - 1)
    <3>1. len * u \in Nat
      BY <1>1
    <3> QED
      BY <1>1, <1>5, <3>1
  <2>3. (len * u + (t - 1)) \div u = len
    BY <1>1, <2>2, DivisionUnique
  <2>4. DataLen(b) = len
    BY <1>2, <2>1, <2>3
  <2> QED
    BY <1>1, <1>3, <1>5, <2>4 DEF len, t, u
<1> QED
  BY <1>4, <1>5

\* What is left of the bytes.
LEMMA BitsOfBitlist ==
  ASSUME NEW b \in Bitlists
  PROVE  /\ Bits(b) \in Seq(Int) /\ Len(Bits(b)) = DataLen(b)
         /\ \A i \in 1..DataLen(b) :
              Bits(b)[i] = IF i = Len(b) THEN b[i] - 2^Delimiter(b) ELSE b[i]
         /\ 2^Delimiter(b) \in Nat \ {0}
<1> DEFINE c == [b EXCEPT ![Len(b)] = ClearBit(@)]
<1>1. b \in Seq(Byte) /\ Len(b) \in Nat \ {0} /\ Delimiter(b) \in Nat
  BY LastByte DEF Delimiter
<1>2. 2^Delimiter(b) \in Nat \ {0}
  BY <1>1, PowerNat, PowerPositive
<1>3. \A i \in 1..Len(b) : c[i] = IF i = Len(b) THEN b[i] - 2^Delimiter(b) ELSE b[i]
  BY <1>1 DEF ClearBit, Delimiter
<1>4. \A x \in Byte : x \in Int
  BY ByteBitsAssumption, PowerNat DEF Byte
<1>5. \A i \in 1..Len(b) : c[i] \in Int
  <2> TAKE i \in 1..Len(b)
  <2>1. b[i] \in Byte
    BY <1>1
  <2> QED
    BY <1>2, <1>3, <1>4, <2>1
<1>6. c \in Seq(Int) /\ Len(c) = Len(b)
  <2>1. c = [i \in 1..Len(b) |-> c[i]]
    BY <1>1
  <2> HIDE DEF c
  <2>2. c \in [1..Len(b) -> Int]
    BY <1>5, <2>1
  <2> QED
    BY <1>1, <2>2
<1>7. Bits(b) = SubSeq(c, 1, DataLen(b)) /\ DataLen(b) \in 0..Len(b)
  BY BitlistData DEF Bits
<1> HIDE DEF c
<1>8. /\ Bits(b) \in Seq(Int) /\ Len(Bits(b)) = DataLen(b)
      /\ \A i \in 1..DataLen(b) : Bits(b)[i] = c[i]
  BY <1>1, <1>6, <1>7
<1> QED
  BY <1>2, <1>3, <1>7, <1>8

\* The bytes that the leaves are made of.
DataOf(b) == SubSeq(b, 1, DataLen(b))

LEMMA DataOfBitlist ==
  ASSUME NEW b \in Bitlists
  PROVE  /\ DataOf(b) \in Seq(Byte) /\ Len(DataOf(b)) = DataLen(b)
         /\ \A i \in 1..DataLen(b) : DataOf(b)[i] = b[i]
         /\ Delimiter(b) = 0 => DataOf(b) = Bits(b)
         /\ Delimiter(b) # 0 => DataOf(b) = b
<1>1. b \in Seq(Byte) /\ Len(b) \in Nat \ {0} /\ DataLen(b) \in 0..Len(b)
  BY LastByte, BitlistData
<1>2. /\ DataOf(b) \in Seq(Byte) /\ Len(DataOf(b)) = DataLen(b)
      /\ \A i \in 1..DataLen(b) : DataOf(b)[i] = b[i]
  BY <1>1 DEF DataOf
<1>3. ASSUME Delimiter(b) = 0 PROVE DataOf(b) = Bits(b)
  <2>1. DataLen(b) = Len(b) - 1
    BY <1>3, BitlistData
  <2>2. /\ Bits(b) \in Seq(Int) /\ Len(Bits(b)) = DataLen(b)
        /\ \A i \in 1..DataLen(b) : Bits(b)[i] = IF i = Len(b) THEN b[i] - 2^Delimiter(b) ELSE b[i]
    BY BitsOfBitlist
  <2>3. \A i \in 1..DataLen(b) : Bits(b)[i] = DataOf(b)[i]
    BY <1>1, <1>2, <2>1, <2>2
  <2> QED
    BY <1>2, <2>2, <2>3
<1>4. ASSUME Delimiter(b) # 0 PROVE DataOf(b) = b
  <2>1. DataLen(b) = Len(b)
    BY <1>4, BitlistData
  <2> QED
    BY <1>1, <1>2, <2>1
<1> QED
  BY <1>2, <1>3, <1>4

\* A leaf that is not padded, and one that is.
LEMMA LeafOfBitlist ==
  ASSUME NEW b \in Bitlists, NEW k \in 1..RoundUp(DataLen(b), ChunkLen)
  PROVE  /\ k * ChunkLen <= DataLen(b) \/ Delimiter(b) = 0
              => BitlistLeaf(b, k) = Chunk(ChunkOf(DataOf(b), k))
         /\ k * ChunkLen > DataLen(b) /\ Delimiter(b) # 0
              => BitlistLeaf(b, k) = Chunk(ChunkOf(Bits(b), k))
<1> DEFINE n == DataLen(b)
           u == ChunkLen
           s == (k - 1) * u
           x == ChunkOf(DataOf(b), k)
           y == ChunkOf(Bits(b), k)
           at == ((n - 1) % u) + 1
<1>1. /\ u \in Nat \ {0} /\ n \in 0..Len(b) /\ Len(b) \in Nat \ {0}
      /\ BitlistLen(b) % ByteBits = Delimiter(b)
  BY ChunkLenAssumption, BitlistData, LastByte
<1>2. /\ DataOf(b) \in Seq(Byte) /\ Len(DataOf(b)) = n
      /\ \A i \in 1..n : DataOf(b)[i] = b[i]
  BY DataOfBitlist
<1>3. /\ Bits(b) \in Seq(Int) /\ Len(Bits(b)) = n
      /\ \A i \in 1..n : Bits(b)[i] = IF i = Len(b) THEN b[i] - 2^Delimiter(b) ELSE b[i]
  BY BitsOfBitlist
<1>4. /\ s \in Nat /\ s < n /\ x \in Seq(Byte)
      /\ Len(x) \in 1..u /\ Len(x) = Least(s + u, n) - s
      /\ \A j \in 1..Len(x) : x[j] = DataOf(b)[s + j]
  <2>1. DataOf(b) \in Seq(Byte) /\ k \in 1..RoundUp(Len(DataOf(b)), ChunkLen)
    BY <1>2
  <2> QED
    BY <1>2, <2>1, ChunkOfExact
<1>5. /\ y \in Seq(Int) /\ Len(y) \in 1..u /\ Len(y) = Least(s + u, n) - s
      /\ \A j \in 1..Len(y) : y[j] = Bits(b)[s + j]
  <2>1. Bits(b) \in Seq(Int) /\ k \in 1..RoundUp(Len(Bits(b)), ChunkLen)
    BY <1>3
  <2> QED
    BY <1>3, <2>1, ChunkOfExact
<1>6. k * u = s + u /\ k \in Nat
  <2>1. k \in Nat
    BY <1>1, RoundUpExact
  <2> QED
    BY <1>1, <2>1
<1>7. ToBeCleared(b) <=> Delimiter(b) # 0 /\ n # 0
  BY <1>1 DEF ToBeCleared
<1>8. BitlistLeaf(b, k) = IF k * u > n /\ ToBeCleared(b) THEN Chunk([x EXCEPT ![at] = ClearBit(@)])
                          ELSE Chunk(x)
  BY DEF BitlistLeaf, DataOf
<1> HIDE DEF n, u, s, x, y
<1>9. ASSUME k * u <= n \/ Delimiter(b) = 0 PROVE BitlistLeaf(b, k) = Chunk(x)
  <2>1. ~(k * u > n /\ ToBeCleared(b))
    BY <1>1, <1>4, <1>6, <1>7, <1>9
  <2> QED
    BY <1>8, <2>1
<1>10. ASSUME k * u > n, Delimiter(b) # 0 PROVE BitlistLeaf(b, k) = Chunk(y)
  <2>1. n = Len(b) /\ Len(x) = n - s /\ Len(y) = n - s
    BY <1>1, <1>4, <1>5, <1>6, <1>10, BitlistData DEF Least, n
  <2>2. at = n - s
    <3>1. n - 1 = (k - 1) * u + (n - 1 - s) /\ n - 1 \in Nat /\ n - 1 - s \in 0..(u - 1)
      BY <1>1, <1>4, <1>6, <1>10 DEF s
    <3>2. k - 1 \in Nat /\ u >= 1
      BY <1>1
    <3>3. (n - 1) % u = n - 1 - s
      BY <1>1, <3>1, <3>2, DivisionUnique
    <3>4. at = (n - 1 - s) + 1
      BY <3>3
    <3>5. n \in Int /\ s \in Int
      BY <1>1, <1>4
    <3> HIDE DEF at
    <3> QED
      BY <3>4, <3>5
  <2> HIDE DEF at
  <2>3. at \in 1..Len(x) /\ s + at = Len(b)
    BY <1>1, <1>4, <2>1, <2>2
  <2>4. ASSUME NEW j \in 1..Len(x) PROVE [x EXCEPT ![at] = ClearBit(@)][j] = y[j]
    <3>1. s + j \in 1..n /\ x[j] = b[s + j] /\ y[j] = Bits(b)[s + j]
      <4>1. s + j \in 1..n /\ j \in 1..Len(y)
        BY <1>1, <1>4, <2>1
      <4> QED
        BY <1>2, <1>4, <1>5, <4>1
    <3>2. CASE j = at
      <4>1. x[j] = b[Len(b)] /\ y[j] = b[Len(b)] - 2^Delimiter(b)
        BY <1>3, <2>3, <3>1, <3>2
      <4> QED
        BY <1>4, <3>2, <4>1 DEF ClearBit, Delimiter
    <3>3. CASE j # at
      <4>1. s + j # Len(b)
        BY <1>1, <1>4, <2>3, <3>3
      <4>2. y[j] = x[j]
        BY <1>3, <3>1, <4>1
      <4> QED
        BY <1>4, <3>3, <4>2
    <3> QED
      BY <3>2, <3>3
  <2>5. [x EXCEPT ![at] = ClearBit(@)] = y
    <3> DEFINE z == [x EXCEPT ![at] = ClearBit(@)]
    <3>1. DOMAIN x = 1..Len(x) /\ Len(x) \in Nat /\ Len(y) = Len(x)
      BY <1>4, <2>1
    <3>2. z = [j \in 1..Len(x) |-> z[j]]
      BY <3>1
    <3>3. y = [j \in 1..Len(x) |-> y[j]]
      BY <1>5, <3>1
    <3> QED
      BY <2>4, <3>2, <3>3
  <2>6. k * u > n /\ ToBeCleared(b)
    BY <1>1, <1>4, <1>7, <1>10
  <2> QED
    BY <1>8, <2>5, <2>6
<1> QED
  BY <1>9, <1>10 DEF n, u, x, y

\* The leaf of a bitlist whose last chunk is full keeps the delimiter.
LEMMA LeavesOfBitlist ==
  ASSUME NEW b \in Bitlists
  PROVE  /\ DataLen(b) % ChunkLen # 0 \/ Delimiter(b) = 0 => BitlistLeaves(b) = Chunks(Bits(b))
         /\ DataLen(b) % ChunkLen = 0 => BitlistLeaves(b) = Chunks(DataOf(b))
<1> DEFINE n == DataLen(b)
           u == ChunkLen
           c == RoundUp(n, u)
<1>1. /\ u \in Nat \ {0} /\ n \in 0..Len(b) /\ Len(b) \in Nat \ {0}
      /\ Delimiter(b) # 0 => n = Len(b)
  BY ChunkLenAssumption, BitlistData, LastByte
<1>2. /\ DataOf(b) \in Seq(Byte) /\ Len(DataOf(b)) = n /\ \A i \in 1..n : DataOf(b)[i] = b[i]
      /\ Delimiter(b) = 0 => DataOf(b) = Bits(b)
  BY DataOfBitlist
<1>3. /\ Bits(b) \in Seq(Int) /\ Len(Bits(b)) = n
      /\ \A i \in 1..n : Bits(b)[i] = IF i = Len(b) THEN b[i] - 2^Delimiter(b) ELSE b[i]
  BY BitsOfBitlist
<1>4. /\ BitlistLeaves(b) = [k \in 1..c |-> BitlistLeaf(b, k)]
      /\ Chunks(Bits(b)) = [k \in 1..c |-> Chunk(ChunkOf(Bits(b), k))]
      /\ Chunks(DataOf(b)) = [k \in 1..c |-> Chunk(ChunkOf(DataOf(b), k))]
  BY <1>2, <1>3 DEF BitlistLeaves, Chunks, Each
<1>5. ASSUME n % u # 0 \/ Delimiter(b) = 0, NEW k \in 1..c
      PROVE  BitlistLeaf(b, k) = Chunk(ChunkOf(Bits(b), k))
  <2>1. CASE Delimiter(b) = 0
    BY <1>2, <2>1, LeafOfBitlist
  <2>2. CASE Delimiter(b) # 0 /\ k * u > n
    BY <2>2, LeafOfBitlist
  <2>3. CASE Delimiter(b) # 0 /\ k * u <= n
    <3>1. BitlistLeaf(b, k) = Chunk(ChunkOf(DataOf(b), k))
      BY <2>3, LeafOfBitlist
    <3>2. k \in Nat
      BY <1>1, RoundUpExact
    <3>3. k * u # n
      <4>1. ASSUME k * u = n PROVE n % u = 0
        <5>1. n = k * u + 0 /\ 0 \in 0..(u - 1) /\ n \in Nat /\ u >= 1
          BY <1>1, <3>2, <4>1
        <5> HIDE DEF n, u
        <5> QED
          BY <1>1, <3>2, <5>1, DivisionUnique
      <4> QED
        BY <1>5, <2>3, <4>1
    <3>4. ASSUME NEW j \in 1..u PROVE Padded(DataOf(b), (k - 1) * u + j) = Padded(Bits(b), (k - 1) * u + j)
      <4> DEFINE s == (k - 1) * u
      <4>1. s \in Nat /\ k * u = s + u
        BY <1>1, <3>2
      <4> HIDE DEF s, n, u
      <4>2. s + j \in 1..n /\ s + j # Len(b)
        BY <1>1, <2>3, <3>3, <4>1
      <4> QED
        BY <1>2, <1>3, <4>2 DEF Padded, s
    <3>5. /\ Chunk(ChunkOf(DataOf(b), k)) = [chunk |-> [j \in 1..u |-> Padded(DataOf(b), (k - 1) * u + j)]]
          /\ Chunk(ChunkOf(Bits(b), k)) = [chunk |-> [j \in 1..u |-> Padded(Bits(b), (k - 1) * u + j)]]
      BY <1>2, <1>3, ChunkRow
    <3> HIDE DEF n, u
    <3>6. Chunk(ChunkOf(DataOf(b), k)) = Chunk(ChunkOf(Bits(b), k))
      BY <3>4, <3>5
    <3> QED
      BY <3>1, <3>6
  <2> HIDE DEF n, u
  <2> QED
    BY <1>1, <2>1, <2>2, <2>3, RoundUpExact
<1>6. ASSUME n % u = 0, NEW k \in 1..c
      PROVE  BitlistLeaf(b, k) = Chunk(ChunkOf(DataOf(b), k))
  <2>1. c \in Nat /\ c * u < n + u /\ k \in Nat
    <3>1. n \in Nat
      BY <1>1
    <3> HIDE DEF n, u
    <3>2. c \in Nat /\ c * u < n + u
      BY <1>1, <3>1, RoundUpExact
    <3> QED
      BY <3>2
  <2>2. PICK q \in Nat : n = q * u
    <3>1. n \in Nat /\ u >= 1
      BY <1>1
    <3> HIDE DEF n, u
    <3>2. n = (n \div u) * u + (n % u) /\ n \div u \in Nat
      BY <1>1, <3>1, Division
    <3> DEFINE q == n \div u
    <3>3. q \in Nat /\ n = q * u + 0
      BY <1>6, <3>2
    <3> HIDE DEF q
    <3>4. n = q * u
      BY <1>1, <3>3
    <3> QED
      BY <3>3, <3>4
  <2>3. k <= q
    <3> HIDE DEF n, u, c
    <3>1. ASSUME q + 1 <= k PROVE FALSE
      <4>1. q + 1 <= c
        BY <2>1, <2>2, <3>1
      <4>2. (q + 1) * u <= c * u /\ c * u \in Nat /\ q * u \in Nat
        BY <1>1, <2>1, <2>2, <4>1, TimesMonotone
      <4>3. (q + 1) * u = q * u + u
        BY <1>1, <2>2
      <4> QED
        BY <1>1, <2>1, <2>2, <4>2, <4>3
    <3> QED
      BY <2>1, <2>2, <3>1
  <2>4. k * u <= n
    <3> HIDE DEF n, u, c
    <3> QED
      BY <1>1, <2>1, <2>2, <2>3, TimesMonotone
  <2> QED
    BY <2>4, LeafOfBitlist
<1> HIDE DEF n, u, c
<1>7. ASSUME n % u # 0 \/ Delimiter(b) = 0 PROVE BitlistLeaves(b) = Chunks(Bits(b))
  BY <1>4, <1>5, <1>7
<1>8. ASSUME n % u = 0 PROVE BitlistLeaves(b) = Chunks(DataOf(b))
  BY <1>4, <1>6, <1>8
<1> QED
  BY <1>7, <1>8 DEF n, u

\* types/ssz_bitlist.go, HashTreeRoot: the leaves are made of the bits alone, without
\* the bit that marks the length, exactly when the last chunk is padded, or when that
\* bit has a byte of its own.  Otherwise it is left in the last chunk.
THEOREM BitlistLeavesExact ==
  ASSUME NEW b \in Bitlists
  PROVE  BitlistLeaves(b) = Chunks(Bits(b)) <=>
           DataLen(b) % ChunkLen # 0 \/ BitlistLen(b) % ByteBits = 0
<1>1. BitlistLen(b) % ByteBits = Delimiter(b)
  BY BitlistData
<1>2. ASSUME DataLen(b) % ChunkLen = 0, Delimiter(b) # 0, BitlistLeaves(b) = Chunks(Bits(b))
      PROVE  FALSE
  <2>1. b \in Seq(Byte) /\ Len(b) \in Nat \ {0} /\ DataLen(b) = Len(b) /\ DataOf(b) = b
    BY <1>2, LastByte, BitlistData, DataOfBitlist
  <2>2. /\ Bits(b) \in Seq(Int) /\ Len(Bits(b)) = Len(b)
        /\ Bits(b)[Len(b)] = b[Len(b)] - 2^Delimiter(b)
        /\ 2^Delimiter(b) \in Nat \ {0}
    BY <2>1, BitsOfBitlist
  <2>3. b \in Seq(Int)
    <3>1. Byte \subseteq Int
      BY ByteBitsAssumption, PowerNat DEF Byte
    <3>2. \A i \in 1..Len(b) : b[i] \in Int
      <4> TAKE i \in 1..Len(b)
      <4>1. b[i] \in Byte
        BY <2>1
      <4> QED
        BY <3>1, <4>1
    <3> QED
      BY <2>1, <3>2
  <2>4. Chunks(b) = Chunks(Bits(b))
    BY <1>2, <2>1, LeavesOfBitlist
  <2>5. b = Bits(b)
    BY <2>2, <2>3, <2>4, ChunksDistinguish
  <2>6. b[Len(b)] \in Int
    BY <2>1, <2>3
  <2> QED
    BY <2>2, <2>5, <2>6
<1>3. ASSUME DataLen(b) % ChunkLen # 0 \/ Delimiter(b) = 0 PROVE BitlistLeaves(b) = Chunks(Bits(b))
  BY <1>3, LeavesOfBitlist
<1> QED
  BY <1>1, <1>2, <1>3

\* bitfields.BitlistCheck, types/ssz_bitlist.go: what the check lets through has a leaf for
\* every chunk of data, and no more of them than the tree for the limit has room for:
\* Merkleize does not panic.
THEOREM BitlistFits ==
  ASSUME NEW b \in Seq(Byte), NEW limit \in Nat, BitlistCheck(b, limit)
  PROVE  /\ DataLen(b) = Len(DataOf(b))
         /\ DOMAIN BitlistLeaves(b) = 1..RoundUp(DataLen(b), ChunkLen)
         /\ RoundUp(DataLen(b), ChunkLen) <= RoundUp(RoundUp(limit, ByteBits), ChunkLen)
<1>1. b \in Bitlists /\ BitlistLen(b) <= limit
  BY BitlistCheckExact
<1>2. BitlistLen(b) \in Nat
  BY <1>1, LastByte, ByteBitsAssumption
<1>3. DataLen(b) = RoundUp(BitlistLen(b), ByteBits)
  BY DEF DataLen
<1>4. DataLen(b) <= RoundUp(limit, ByteBits) /\ DataLen(b) \in Nat /\ RoundUp(limit, ByteBits) \in Nat
  BY <1>1, <1>2, <1>3, RoundUpMonotone, RoundUpExact, ByteBitsAssumption
<1>5. RoundUp(DataLen(b), ChunkLen) <= RoundUp(RoundUp(limit, ByteBits), ChunkLen)
  BY <1>4, RoundUpMonotone, ChunkLenAssumption
<1>6. DOMAIN BitlistLeaves(b) = 1..RoundUp(DataLen(b), ChunkLen)
  BY DEF BitlistLeaves, Each
<1>7. Len(DataOf(b)) = DataLen(b)
  BY <1>1, DataOfBitlist
<1> QED
  BY <1>5, <1>6, <1>7

\* Bitlists of one length have their delimiters in one place.
LEMMA SameLength ==
  ASSUME NEW a \in Bitlists, NEW b \in Bitlists, BitlistLen(a) = BitlistLen(b)
  PROVE  /\ Len(a) = Len(b) /\ Delimiter(a) = Delimiter(b) /\ DataLen(a) = DataLen(b)
         /\ Delimiter(a) = 0 => a[Len(a)] = 1 /\ b[Len(b)] = 1
<1>1. \A c \in Bitlists :
        /\ BitlistLen(c) \in Nat /\ Len(c) - 1 \in Nat /\ Delimiter(c) \in 0..(ByteBits - 1)
        /\ BitlistLen(c) = (Len(c) - 1) * ByteBits + Delimiter(c)
  BY LastByte, ByteBitsAssumption DEF Delimiter
<1>2. \A c \in Bitlists :
        BitlistLen(c) \div ByteBits = Len(c) - 1 /\ BitlistLen(c) % ByteBits = Delimiter(c)
  <2> TAKE c \in Bitlists
  <2> DEFINE x == BitlistLen(c)
             q == Len(c) - 1
             r == Delimiter(c)
  <2>1. ByteBits \in Nat /\ ByteBits >= 1
    BY ByteBitsAssumption
  <2>2. x \in Nat /\ q \in Nat /\ r \in 0..(ByteBits - 1) /\ x = q * ByteBits + r
    BY <1>1
  <2> HIDE DEF x, q, r
  <2>3. x \div ByteBits = q /\ x % ByteBits = r
    BY <2>1, <2>2, DivisionUnique
  <2> QED
    BY <2>3 DEF x, q, r
<1>3. Len(a) = Len(b) /\ Delimiter(a) = Delimiter(b)
  <2>1. Len(a) - 1 = Len(b) - 1 /\ Delimiter(a) = Delimiter(b)
    BY <1>2
  <2>2. Len(a) \in Int /\ Len(b) \in Int
    BY LastByte
  <2> QED
    BY <2>1, <2>2
<1>4. \A c \in Bitlists : Delimiter(c) = 0 => c[Len(c)] = 1
  <2> TAKE c \in Bitlists
  <2> HAVE Delimiter(c) = 0
  <2> DEFINE x == c[Len(c)]
  <2>1. x \in 1..(2^ByteBits - 1) /\ BitIndex(x) = 0
    BY LastByte DEF Delimiter
  <2> HIDE DEF x
  <2>2. x \div 2^0 = 1
    BY <2>1, BitIndexExact
  <2>3. x \in Nat
    BY <2>1, ByteBitsAssumption, PowerNat
  <2>4. x \div 1 = 1
    BY <2>2, PowerOfZero
  <2>5. x = 1
    BY <2>3, <2>4
  <2> QED
    BY <2>5 DEF x
<1> QED
  BY <1>3, <1>4 DEF DataLen

\* types/ssz_bitlist.go, HashTreeRoot: bitlists of one length with the same leaves are the
\* same, where the delimiter is cleared, and where it is left in the last chunk.  (The
\* length is mixed into the root.)
THEOREM BitlistLeavesDistinguish ==
  ASSUME NEW a \in Bitlists, NEW b \in Bitlists,
         BitlistLen(a) = BitlistLen(b), BitlistLeaves(a) = BitlistLeaves(b)
  PROVE  a = b
<1> DEFINE n == DataLen(a)
           t == Delimiter(a)
<1>1. /\ a \in Seq(Byte) /\ b \in Seq(Byte) /\ Len(a) \in Nat \ {0} /\ Len(a) = Len(b)
      /\ n \in 0..Len(a) /\ n = IF t = 0 THEN Len(a) - 1 ELSE Len(a)
      /\ t = Delimiter(b) /\ n = DataLen(b)
      /\ t = 0 => a[Len(a)] = 1 /\ b[Len(a)] = 1
  BY LastByte, BitlistData, SameLength
<1>2. /\ Bits(a) \in Seq(Int) /\ Len(Bits(a)) = n
      /\ \A i \in 1..n : Bits(a)[i] = IF i = Len(a) THEN a[i] - 2^t ELSE a[i]
      /\ Bits(b) \in Seq(Int) /\ Len(Bits(b)) = n
      /\ \A i \in 1..n : Bits(b)[i] = IF i = Len(a) THEN b[i] - 2^t ELSE b[i]
      /\ 2^t \in Nat
  BY <1>1, BitsOfBitlist
<1>3. \A i \in 1..Len(a) : a[i] \in Int /\ b[i] \in Int
  <2>1. Byte \subseteq Int
    BY ByteBitsAssumption, PowerNat DEF Byte
  <2> TAKE i \in 1..Len(a)
  <2>2. a[i] \in Byte /\ b[i] \in Byte
    BY <1>1
  <2> QED
    BY <2>1, <2>2
<1>4. CASE n % ChunkLen # 0 \/ t = 0
  <2>1. Chunks(Bits(a)) = Chunks(Bits(b))
    BY <1>1, <1>4, LeavesOfBitlist
  <2>2. Bits(a) = Bits(b)
    BY <1>2, <2>1, ChunksDistinguish
  <2>3. ASSUME NEW i \in 1..Len(a) PROVE a[i] = b[i]
    <3>1. CASE i \in 1..n
      <4>1. (IF i = Len(a) THEN a[i] - 2^t ELSE a[i]) = (IF i = Len(a) THEN b[i] - 2^t ELSE b[i])
        BY <1>2, <2>2, <3>1
      <4>2. a[i] \in Int /\ b[i] \in Int /\ 2^t \in Int
        BY <1>2, <1>3
      <4> QED
        BY <4>1, <4>2
    <3>2. CASE i \notin 1..n
      <4>1. t = 0 /\ i = Len(a)
        BY <1>1, <3>2
      <4> QED
        BY <1>1, <4>1
    <3> QED
      BY <3>1, <3>2
  <2> QED
    BY <1>1, <2>3
<1>5. CASE n % ChunkLen = 0 /\ t # 0
  <2>1. DataOf(a) = a /\ DataOf(b) = b
    BY <1>1, <1>5, DataOfBitlist
  <2>2. Chunks(a) = Chunks(b)
    BY <1>1, <1>5, <2>1, LeavesOfBitlist
  <2> QED
    BY <1>1, <2>2, ChunksDistinguish
<1> QED
  BY <1>4, <1>5

(***************************************************************************)
(* Numbers and their bytes.                                                *)
(***************************************************************************)
LEMMA ToBytesAreBytes ==
  ASSUME NEW x \in Nat, NEW n \in Nat
  PROVE  /\ ToBytes(x, n) \in Seq(Byte) /\ Len(ToBytes(x, n)) = n
         /\ \A k \in 1..n : ToBytes(x, n)[k] = (x \div 2^(ByteBits * (k - 1))) % 2^ByteBits
<1>1. ToBytes(x, n) = [k \in 1..n |-> (x \div 2^(ByteBits * (k - 1))) % 2^ByteBits]
  BY DEF ToBytes, Each
<1>2. ASSUME NEW k \in 1..n PROVE (x \div 2^(ByteBits * (k - 1))) % 2^ByteBits \in Byte
  <2> DEFINE e == ByteBits * (k - 1)
             p == 2^e
             q == 2^ByteBits
  <2>1. e \in Nat /\ ByteBits \in Nat
    <3>1. ByteBits \in Nat /\ k - 1 \in Nat
      BY ByteBitsAssumption
    <3> QED
      BY <3>1
  <2>2. p \in Nat /\ p >= 1 /\ q \in Nat /\ q >= 1
    <3> HIDE DEF e
    <3> QED
      BY <2>1, PowerNat, PowerPositive
  <2> HIDE DEF p, q, e
  <2>3. x \div p \in Nat
    BY <2>2, Division
  <2>4. (x \div p) % q \in 0..(q - 1)
    BY <2>2, <2>3
  <2> QED
    BY <2>4 DEF p, q, e, Byte
<1> QED
  BY <1>1, <1>2

\* The number of values of k bytes.
BytePower(k) == 2^(ByteBits * k)

LEMMA BytePowers ==
  ASSUME NEW k \in Nat
  PROVE  /\ BytePower(k) \in Nat \ {0}
         /\ BytePower(0) = 1
         /\ BytePower(k + 1) = 2^ByteBits * BytePower(k)
         /\ 2^ByteBits \in Nat \ {0}
<1> DEFINE e == ByteBits * k
<1>1. ByteBits \in Nat /\ e \in Nat /\ ByteBits * 0 = 0 /\ ByteBits * (k + 1) = ByteBits + e
  BY ByteBitsAssumption
<1> HIDE DEF e
<1>2. 2^e \in Nat \ {0} /\ 2^ByteBits \in Nat \ {0}
  BY <1>1, PowerNat, PowerPositive
<1>3. 2^(ByteBits + e) = 2^ByteBits * 2^e
  BY <1>1, PowerSum
<1>4. BytePower(0) = 1
  BY <1>1, PowerOfZero DEF BytePower
<1>5. BytePower(k) = 2^e /\ BytePower(k + 1) = 2^(ByteBits + e)
  BY <1>1 DEF BytePower, e
<1> QED
  BY <1>2, <1>3, <1>4, <1>5

\* The first byte, and those above it.
LEMMA RemainderByProduct ==
  ASSUME NEW y \in Nat, NEW w \in Nat \ {0}, NEW p \in Nat \ {0}
  PROVE  y % (w * p) = (y % w) + w * ((y \div w) % p)
<1> DEFINE q == y \div w
           r == y % w
           m == q \div p
           t == q % p
           z == w * p
           v == y % z
<1>1. y = q * w + r /\ q \in Nat /\ r \in Nat
  BY Division
<1>2. q = m * p + t /\ m \in Nat /\ t \in Nat
  <2> HIDE DEF q
  <2>1. p \in Nat /\ p >= 1
    OBVIOUS
  <2>2. q = (q \div p) * p + (q % p) /\ q \div p \in Nat /\ q % p \in 0..(p - 1)
    BY <1>1, <2>1, Division
  <2> QED
    BY <2>1, <2>2
<1>3. y \div z = m
  BY DivisionByProduct
<1>4. z \in Nat /\ z >= 1
  OBVIOUS
<1>5. y = m * z + v /\ v \in Nat
  <2> HIDE DEF z, m
  <2>1. y = (y \div z) * z + v /\ v \in Int /\ v >= 0
    BY <1>4, Division
  <2> QED
    BY <1>3, <2>1
<1>6. q * w = m * z + w * t
  <2> HIDE DEF q, m, t, r, v
  <2> QED
    BY <1>2
<1> DEFINE a == m * z
           c == w * t
           d == q * w
<1>7. a \in Nat /\ c \in Nat /\ d \in Nat /\ d = a + c
  <2> HIDE DEF q, m, t, z
  <2> QED
    BY <1>1, <1>2, <1>4, <1>6
<1> HIDE DEF q, m, t, r, v, z, a, c, d
<1>8. y = a + v /\ y = d + r
  BY <1>1, <1>5 DEF a, d
<1>9. v = r + c
  BY <1>1, <1>5, <1>7, <1>8
<1> QED
  BY <1>9 DEF v, r, c, z, t, q

\* The equation of FromBytes, and that it has one solution at most.
ReadsFrom(f, b) == f = [k \in 0..Len(b) |-> IF k = Len(b) THEN 0 ELSE b[k + 1] + 2^ByteBits * f[k + 1]]

LEMMA ReadOnce ==
  ASSUME NEW S, NEW b \in Seq(S), NEW f, ReadsFrom(f, b), NEW g, ReadsFrom(g, b)
  PROVE  f[0] = g[0]
<1> DEFINE n == Len(b)
           T == {m \in Nat : m <= n => f[n - m] = g[n - m]}
<1>1. n \in Nat
  OBVIOUS
<1>2. /\ \A k \in 0..n : f[k] = IF k = n THEN 0 ELSE b[k + 1] + 2^ByteBits * f[k + 1]
      /\ \A k \in 0..n : g[k] = IF k = n THEN 0 ELSE b[k + 1] + 2^ByteBits * g[k + 1]
  <2>1. \A k \in 0..n : f[k] = IF k = n THEN 0 ELSE b[k + 1] + 2^ByteBits * f[k + 1]
    <3>1. f = [k \in 0..n |-> IF k = n THEN 0 ELSE b[k + 1] + 2^ByteBits * f[k + 1]]
      BY DEF ReadsFrom
    <3> HIDE DEF n
    <3> QED
      BY <3>1
  <2>2. \A k \in 0..n : g[k] = IF k = n THEN 0 ELSE b[k + 1] + 2^ByteBits * g[k + 1]
    <3>1. g = [k \in 0..n |-> IF k = n THEN 0 ELSE b[k + 1] + 2^ByteBits * g[k + 1]]
      BY DEF ReadsFrom
    <3> HIDE DEF n
    <3> QED
      BY <3>1
  <2> QED
    BY <2>1, <2>2
<1> HIDE DEF n
<1>3. 0 \in T
  <2>1. n - 0 = n /\ n \in 0..n
    BY <1>1
  <2>2. f[n - 0] = g[n - 0]
    BY <1>2, <2>1
  <2> QED
    BY <2>2
<1>4. ASSUME NEW m \in Nat, m \in T PROVE m + 1 \in T
  <2> SUFFICES ASSUME m + 1 <= n PROVE f[n - (m + 1)] = g[n - (m + 1)]
    OBVIOUS
  <2> DEFINE k == n - (m + 1)
  <2>1. k \in 0..n /\ k # n /\ k + 1 = n - m
    BY <1>1
  <2>2. f[n - m] = g[n - m]
    BY <1>1, <1>4
  <2> HIDE DEF k
  <2>3. f[k] = b[k + 1] + 2^ByteBits * f[k + 1] /\ g[k] = b[k + 1] + 2^ByteBits * g[k + 1]
    BY <1>2, <2>1
  <2>4. f[k + 1] = g[k + 1]
    BY <2>1, <2>2
  <2> QED
    BY <2>3, <2>4 DEF k
<1>5. n \in T
  <2> HIDE DEF T
  <2> QED
    BY <1>1, <1>3, <1>4, SetInduction
<1>6. n - n = 0 /\ n <= n
  BY <1>1
<1>7. f[n - n] = g[n - n]
  BY <1>5, <1>6
<1> QED
  BY <1>6, <1>7

\* types/ssz_basic.go (WriteUint and ReadUint): a number is read back from its bytes,
\* modulo the number of values that they have.
THEOREM NumberReadBack ==
  ASSUME NEW x \in Nat, NEW n \in Nat
  PROVE  FromBytes(ToBytes(x, n)) = x % 2^(ByteBits * n)
<1> DEFINE b == ToBytes(x, n)
           g == [k \in 0..n |-> (x \div BytePower(k)) % BytePower(n - k)]
<1>1. Len(b) = n /\ b \in Seq(Byte)
      /\ \A k \in 1..n : b[k] = (x \div 2^(ByteBits * (k - 1))) % 2^ByteBits
  BY ToBytesAreBytes
<1> HIDE DEF b
<1>2. ASSUME NEW k \in 0..n
      PROVE  g[k] = IF k = n THEN 0 ELSE b[k + 1] + 2^ByteBits * g[k + 1]
  <2>1. CASE k = n
    <3>1. n - k = 0 /\ BytePower(0) = 1 /\ BytePower(k) \in Nat /\ BytePower(k) >= 1
      BY <2>1, BytePowers
    <3>2. x \div BytePower(k) \in Nat
      BY <3>1, Division
    <3>3. (x \div BytePower(k)) % 1 = 0
      BY <3>2
    <3>4. g[k] = 0
      BY <3>1, <3>3
    <3> QED
      BY <2>1, <3>4
  <2>2. CASE k # n
    <3> DEFINE y == x \div BytePower(k)
               w == 2^ByteBits
               j == n - (k + 1)
               p == BytePower(j)
    <3>1. k \in Nat /\ k + 1 \in 1..n /\ k + 1 \in 0..n /\ j \in Nat /\ n - k = j + 1 /\ (k + 1) - 1 = k
      BY <2>2
    <3>2. /\ BytePower(k) \in Nat \ {0} /\ BytePower(k + 1) = w * BytePower(k) /\ w \in Nat \ {0}
          /\ p \in Nat \ {0} /\ BytePower(j + 1) = w * p
      BY <3>1, BytePowers
    <3>3. y \in Nat
      <4>1. BytePower(k) \in Nat /\ BytePower(k) >= 1
        BY <3>2
      <4> QED
        BY <4>1, Division
    <3>4. y \div w = x \div BytePower(k + 1)
      <4> DEFINE o == BytePower(k)
      <4>1. o \in Nat /\ o >= 1 /\ w \in Nat /\ w >= 1
        BY <3>2
      <4> HIDE DEF o, w
      <4>2. (x \div o) \div w = x \div (o * w)
        BY <4>1, DivisionByProduct
      <4>3. o * w = w * o
        BY <4>1
      <4> QED
        BY <3>2, <4>2, <4>3 DEF o
    <3>5. g[k] = y % (w * p)
      BY <3>1, <3>2
    <3>6. b[k + 1] = y % w
      BY <1>1, <3>1 DEF BytePower
    <3>7. g[k + 1] = (y \div w) % p
      BY <3>1, <3>4
    <3> HIDE DEF y, w, p, g
    <3>8. y % (w * p) = (y % w) + w * ((y \div w) % p)
      BY <3>2, <3>3, RemainderByProduct
    <3>9. g[k] = b[k + 1] + w * g[k + 1]
      BY <3>5, <3>6, <3>7, <3>8
    <3> QED
      BY <2>2, <3>9 DEF w
  <2> QED
    BY <2>1, <2>2
<1>3. ReadsFrom(g, b)
  <2>1. g = [k \in 0..n |-> g[k]]
    OBVIOUS
  <2> HIDE DEF g
  <2>2. g = [k \in 0..n |-> IF k = n THEN 0 ELSE b[k + 1] + 2^ByteBits * g[k + 1]]
    BY <1>2, <2>1
  <2> QED
    BY <1>1, <2>2 DEF ReadsFrom
<1> DEFINE c == CHOOSE f : ReadsFrom(f, b)
<1>4. FromBytes(b) = c[0]
  BY DEF FromBytes, ReadsFrom
<1>5. ReadsFrom(c, b)
  <2> HIDE DEF g
  <2> QED
    BY <1>3
<1>6. c[0] = g[0]
  <2> HIDE DEF c, g
  <2> QED
    BY <1>1, <1>3, <1>5, ReadOnce
<1>7. g[0] = x % BytePower(n)
  <2>1. 0 \in 0..n /\ BytePower(0) = 1 /\ n - 0 = n /\ x \div 1 = x
    BY BytePowers
  <2> QED
    BY <2>1
<1> QED
  BY <1>4, <1>6, <1>7 DEF b, BytePower

\* There is a number for all bytes.
LEMMA NumberExists ==
  \A n \in Nat : \A b \in [1..n -> Byte] : \E x \in 0..(BytePower(n) - 1) : b = ToBytes(x, n)
<1> DEFINE All(n) == \A b \in [1..n -> Byte] : \E x \in 0..(BytePower(n) - 1) : b = ToBytes(x, n)
           T == {n \in Nat : All(n)}
<1>1. 0 \in T
  <2> SUFFICES ASSUME NEW b \in [1..0 -> Byte] PROVE \E x \in 0..(BytePower(0) - 1) : b = ToBytes(x, 0)
    OBVIOUS
  <2>1. 0 \in 0..(BytePower(0) - 1)
    BY BytePowers
  <2>2. ToBytes(0, 0) \in Seq(Byte) /\ Len(ToBytes(0, 0)) = 0
    BY ToBytesAreBytes
  <2>3. b = ToBytes(0, 0)
    BY <2>2
  <2> QED
    BY <2>1, <2>3
<1>2. ASSUME NEW n \in Nat, n \in T PROVE n + 1 \in T
  <2> SUFFICES ASSUME NEW b \in [1..(n + 1) -> Byte]
               PROVE  \E x \in 0..(BytePower(n + 1) - 1) : b = ToBytes(x, n + 1)
    OBVIOUS
  <2> DEFINE w == 2^ByteBits
             p == BytePower(n)
             d == [i \in 1..n |-> b[i + 1]]
             first == b[1]
  <2>1. w \in Nat \ {0} /\ p \in Nat \ {0} /\ BytePower(n + 1) = w * p
    BY BytePowers
  <2>2. first \in 0..(w - 1)
    <3>1. b[1] \in Byte
      OBVIOUS
    <3> QED
      BY <3>1 DEF Byte
  <2>3. d \in [1..n -> Byte]
    OBVIOUS
  <2>4. PICK y \in 0..(p - 1) : d = ToBytes(y, n)
    BY <1>2, <2>3
  <2> DEFINE x == y * w + first
  <2> HIDE DEF w, p, d, first
  <2>5. y \in Nat /\ y <= p - 1
    BY <2>1
  <2>6. x \in Nat
    <3>1. y * w \in Nat
      BY <2>1, <2>5
    <3> QED
      BY <2>1, <2>2, <3>1
  <2>7. x <= w * p - 1
    <3>1. y * w <= (p - 1) * w /\ y * w \in Nat
      BY <2>1, <2>5, TimesMonotone
    <3>2. (p - 1) * w = w * p - w
      BY <2>1
    <3>3. w * p \in Nat
      BY <2>1
    <3> QED
      BY <2>1, <2>2, <3>1, <3>2, <3>3
  <2>8. x \div w = y /\ x % w = first
    BY <2>1, <2>2, <2>5, <2>6, DivisionUnique
  <2> HIDE DEF x
  <2>9. ASSUME NEW k \in 1..(n + 1) PROVE b[k] = (x \div 2^(ByteBits * (k - 1))) % w
    <3>1. CASE k = 1
      <4>1. 2^(ByteBits * (k - 1)) = 1
        BY <3>1, BytePowers DEF BytePower
      <4>2. x \div 1 = x
        BY <2>6
      <4> QED
        BY <2>8, <3>1, <4>1, <4>2 DEF first
    <3>2. CASE k # 1
      <4> DEFINE j == k - 2
                 o == BytePower(j)
      <4>1. j \in Nat /\ k - 1 = j + 1 /\ k - 1 \in 1..n /\ (k - 1) - 1 = j /\ (k - 1) + 1 = k
        BY <3>2
      <4>2. o \in Nat \ {0} /\ BytePower(j + 1) = w * o
        BY <4>1, BytePowers DEF w
      <4>3. x \div (w * o) = y \div o
        <5> HIDE DEF o
        <5>1. (x \div w) \div o = x \div (w * o)
          BY <2>1, <2>6, <4>2, DivisionByProduct
        <5> QED
          BY <2>8, <5>1
      <4>4. ToBytes(y, n)[k - 1] = (y \div o) % w
        <5>1. ToBytes(y, n)[k - 1] = (y \div 2^(ByteBits * ((k - 1) - 1))) % 2^ByteBits
          BY <2>5, <4>1, ToBytesAreBytes
        <5> QED
          BY <4>1, <5>1 DEF BytePower, w
      <4>5. d[k - 1] = b[k]
        BY <4>1 DEF d
      <4>6. 2^(ByteBits * (k - 1)) = w * o
        BY <4>1, <4>2 DEF BytePower
      <4> HIDE DEF o, j
      <4> QED
        BY <2>4, <4>3, <4>4, <4>5, <4>6
    <3> QED
      BY <3>1, <3>2
  <2>10. b = ToBytes(x, n + 1)
    <3>1. ToBytes(x, n + 1) = [k \in 1..(n + 1) |-> (x \div 2^(ByteBits * (k - 1))) % w]
      BY DEF ToBytes, Each, w
    <3> QED
      BY <2>9, <3>1
  <2>11. x \in 0..(BytePower(n + 1) - 1)
    <3>1. w * p \in Nat
      BY <2>1
    <3> QED
      BY <2>1, <2>6, <2>7, <3>1
  <2> QED
    BY <2>10, <2>11
<1> HIDE DEF T
<1>3. \A n \in Nat : n \in T
  BY <1>1, <1>2, SetInduction
<1> QED
  BY <1>3 DEF T

\* types/ssz_basic.go: every sequence of bytes is the encoding of the number it is read as,
\* and that number fits: basic values have one encoding each.
THEOREM BytesWrittenBack ==
  ASSUME NEW b \in Seq(Byte)
  PROVE  /\ FromBytes(b) \in 0..(2^(ByteBits * Len(b)) - 1)
         /\ ToBytes(FromBytes(b), Len(b)) = b
<1> DEFINE n == Len(b)
<1>1. n \in Nat /\ b \in [1..n -> Byte]
  OBVIOUS
<1>2. PICK x \in 0..(BytePower(n) - 1) : b = ToBytes(x, n)
  BY <1>1, NumberExists
<1>3. BytePower(n) \in Nat \ {0} /\ x \in Nat
  BY <1>1, BytePowers
<1>4. FromBytes(b) = x % BytePower(n)
  BY <1>1, <1>2, <1>3, NumberReadBack DEF BytePower
<1>5. x % BytePower(n) = x
  BY <1>2, <1>3, SmallRemainder
<1> HIDE DEF n
<1>6. FromBytes(b) = x
  BY <1>4, <1>5
<1> QED
  BY <1>2, <1>6 DEF n, BytePower

(***************************************************************************)
(* Basic elements, one after the other.                                    *)
(***************************************************************************)
\* The bytes of the elements in the order of the format, and in memory.
LEMMA BasicBytesPlaces ==
  ASSUME NEW w \in Nat, NEW elem, elem.len = w, NEW elems \in Seq(Nat)
  PROVE  /\ BasicBytes(elem, elems) \in Seq(Byte)
         /\ IsFlat(BasicBytes(elem, elems), [k \in 1..Len(elems) |-> ToBytes(elems[k], w)],
                   Len(elems), w)
         /\ InMemory(elem, elems) \in Seq(Byte)
         /\ IsFlat(InMemory(elem, elems), [k \in 1..Len(elems) |-> Reverse(ToBytes(elems[k], w))],
                   Len(elems), w)
<1> DEFINE n == Len(elems)
           s == [k \in 1..n |-> ToBytes(elems[k], w)]
           r == [k \in 1..n |-> Reverse(ToBytes(elems[k], w))]
<1>1. n \in Nat /\ \A k \in 1..n : elems[k] \in Nat
  OBVIOUS
<1>2. ASSUME NEW k \in 1..n
      PROVE  /\ ToBytes(elems[k], w) \in Seq(Byte) /\ Len(ToBytes(elems[k], w)) = w
             /\ Reverse(ToBytes(elems[k], w)) \in Seq(Byte) /\ Len(Reverse(ToBytes(elems[k], w))) = w
  <2>1. ToBytes(elems[k], w) \in Seq(Byte) /\ Len(ToBytes(elems[k], w)) = w
    BY <1>1, ToBytesAreBytes
  <2> DEFINE b == ToBytes(elems[k], w)
  <2> HIDE DEF b
  <2>2. Reverse(b) = [i \in 1..w |-> b[(w - i) + 1]]
    BY <2>1 DEF Reverse, b
  <2>3. \A i \in 1..w : b[(w - i) + 1] \in Byte
    <3> TAKE i \in 1..w
    <3>1. (w - i) + 1 \in 1..w
      OBVIOUS
    <3> QED
      BY <2>1, <3>1 DEF b
  <2>4. Reverse(b) \in Seq(Byte) /\ Len(Reverse(b)) = w
    BY <2>2, <2>3
  <2> QED
    BY <2>1, <2>4 DEF b
<1>3. s \in [1..n -> Seq(Byte)] /\ r \in [1..n -> Seq(Byte)]
  BY <1>2
<1>4. \A k \in 1..n : Len(s[k]) = w /\ Len(r[k]) = w
  BY <1>2
<1>5. BasicBytes(elem, elems) = FlattenSeq(s) /\ InMemory(elem, elems) = FlattenSeq(r)
  BY DEF BasicBytes, InMemory, Each
<1> HIDE DEF s, r, n
<1>6. /\ FlattenSeq(s) \in Seq(Byte) /\ IsFlat(FlattenSeq(s), s, n, w)
      /\ FlattenSeq(r) \in Seq(Byte) /\ IsFlat(FlattenSeq(r), r, n, w)
  BY <1>1, <1>3, <1>4, Flattened
<1> QED
  BY <1>5, <1>6 DEF s, r, n

\* The element that a byte is of.
IsPlaced(i, q, w) == \E m \in 1..q : \E j \in 1..w : i = (m - 1) * w + j

LEMMA ElementPlace ==
  ASSUME NEW w \in Nat \ {0}, NEW q \in Nat, NEW u \in Nat, u = q * w, NEW i \in 1..u
  PROVE  IsPlaced(i, q, w)
<1>2. RoundUp(u, w) = q
  <2>1. u + w - 1 = q * w + (w - 1) /\ u + w - 1 \in Nat /\ w >= 1 /\ w - 1 \in 0..(w - 1)
    OBVIOUS
  <2>2. (u + w - 1) \div w = q
    BY <2>1, DivisionUnique
  <2> QED
    BY <2>2 DEF RoundUp
<1>3. \E m \in 1..RoundUp(u, w) : \E j \in 1..w : i = (m - 1) * w + j
  BY ChunkPlace
<1> QED
  BY <1>2, <1>3 DEF IsPlaced

\* Element k of a series, cut out of its bytes.
ElementBytes(b, k, w) == SubSeq(b, (k - 1) * w + 1, k * w)
IsElement(x, b, k, w) == Len(x) = w /\ \A j \in 1..w : x[j] = b[(k - 1) * w + j]

LEMMA ElementCut ==
  ASSUME NEW S, NEW w \in Nat \ {0}, NEW q \in Nat, NEW b \in Seq(S), Len(b) = q * w, NEW k \in 1..q
  PROVE  ElementBytes(b, k, w) \in Seq(S) /\ IsElement(ElementBytes(b, k, w), b, k, w)
<1> DEFINE a == (k - 1) * w
           z == k * w
<1>1. a \in Nat /\ z = a + w /\ z \in Nat
  OBVIOUS
<1>2. z <= Len(b)
  BY TimesMonotone
<1> HIDE DEF a, z
<1>3. /\ SubSeq(b, a + 1, z) \in Seq(S)
      /\ Len(SubSeq(b, a + 1, z)) = z - a
      /\ \A j \in 1..(z - a) : SubSeq(b, a + 1, z)[j] = b[a + j]
  BY <1>1, <1>2, Cut
<1>4. z - a = w
  BY <1>1
<1>5. ElementBytes(b, k, w) = SubSeq(b, a + 1, z)
  BY DEF ElementBytes, a, z
<1> QED
  BY <1>3, <1>4, <1>5 DEF IsElement, a

LEMMA WholeElements ==
  ASSUME NEW w \in Nat \ {0}, NEW q \in Nat
  PROVE  (q * w) \div w = q /\ (q * w) % w = 0
<1> DEFINE n == q * w
<1>1. n \in Nat /\ n = q * w + 0 /\ 0 \in 0..(w - 1) /\ w >= 1
  OBVIOUS
<1> HIDE DEF n
<1>2. n \div w = q /\ n % w = 0
  BY <1>1, DivisionUnique
<1> QED
  BY <1>2 DEF n

\* types/basic_series.go: the elements of a series of basic elements are read back from
\* their bytes, when each fits its type.
THEOREM SeriesReadBack ==
  ASSUME NEW elem, elem.len \in Nat \ {0}, NEW elems \in Seq(Nat),
         \A k \in 1..Len(elems) : elems[k] < 2^(ByteBits * elem.len)
  PROVE  ElemsOf(elem, BasicBytes(elem, elems)) = elems
<1> DEFINE w == elem.len
           n == Len(elems)
           B == BasicBytes(elem, elems)
           P(k) == ElementBytes(B, k, w)
<1>1. w \in Nat \ {0} /\ n \in Nat
  OBVIOUS
<1>2. B \in Seq(Byte) /\ IsFlat(B, [k \in 1..n |-> ToBytes(elems[k], w)], n, w)
  BY <1>1, BasicBytesPlaces
<1>3. /\ Len(B) = n * w
      /\ \A k \in 1..n : \A j \in 1..w : B[(k - 1) * w + j] = ToBytes(elems[k], w)[j]
  BY <1>2 DEF IsFlat
<1>4. Len(B) \div w = n
  <2> HIDE DEF w, n, B
  <2> QED
    BY <1>1, <1>3, WholeElements
<1>5. ElemsOf(elem, B) = [k \in 1..n |-> FromBytes(P(k))]
  BY <1>4 DEF ElemsOf, Each, ElementBytes
<1>6. ASSUME NEW k \in 1..n PROVE FromBytes(P(k)) = elems[k]
  <2>1. elems[k] \in Nat /\ elems[k] < BytePower(w) /\ BytePower(w) \in Nat
    <3>1. elems[k] < BytePower(w)
      BY DEF BytePower
    <3>2. BytePower(w) \in Nat
      BY <1>1, BytePowers
    <3> QED
      BY <3>1, <3>2
  <2> DEFINE t == ToBytes(elems[k], w)
             c == P(k)
  <2>2. t \in Seq(Byte) /\ Len(t) = w
    BY <1>1, <2>1, ToBytesAreBytes
  <2>3. FromBytes(t) = elems[k] % BytePower(w)
    BY <1>1, <2>1, NumberReadBack DEF BytePower
  <2>4. elems[k] % BytePower(w) = elems[k]
    <3> DEFINE x == elems[k]
               p == BytePower(w)
    <3>1. p \in Nat /\ x \in 0..(p - 1)
      BY <2>1
    <3> HIDE DEF x, p
    <3>2. x % p = x
      BY <3>1, SmallRemainder
    <3> QED
      BY <3>2 DEF x, p
  <2>5. c \in Seq(Byte) /\ Len(c) = w /\ \A j \in 1..w : c[j] = B[(k - 1) * w + j]
    <3> HIDE DEF w, n, B
    <3>1. c \in Seq(Byte) /\ IsElement(c, B, k, w)
      BY <1>1, <1>2, <1>3, ElementCut
    <3> QED
      BY <3>1 DEF IsElement
  <2>6. \A j \in 1..w : c[j] = t[j]
    BY <1>3, <2>5
  <2> HIDE DEF c, t
  <2>7. c = t
    BY <2>2, <2>5, <2>6
  <2> QED
    BY <2>3, <2>4, <2>7 DEF c, t
<1>7. elems = [k \in 1..n |-> elems[k]]
  OBVIOUS
<1> HIDE DEF P, B, n
<1> QED
  BY <1>5, <1>6, <1>7 DEF B

\* types/basic_series.go: bytes that are whole elements are the encoding of the elements
\* they are read as, whatever the bytes are: a series of numbers has one encoding.
THEOREM SeriesWrittenBack ==
  ASSUME NEW elem, elem.len \in Nat \ {0}, NEW b \in Seq(Byte), Len(b) % elem.len = 0
  PROVE  /\ ElemsOf(elem, b) \in Seq(Nat)
         /\ Len(ElemsOf(elem, b)) = Len(b) \div elem.len
         /\ BasicBytes(elem, ElemsOf(elem, b)) = b
<1> DEFINE w == elem.len
           q == Len(b) \div w
           e == ElemsOf(elem, b)
           B == BasicBytes(elem, e)
           P(k) == ElementBytes(b, k, w)
<1>1. w \in Nat \ {0} /\ q \in Nat /\ Len(b) = q * w /\ Len(b) \in Nat
  <2> DEFINE n == Len(b)
  <2>1. w \in Nat /\ w >= 1 /\ n \in Nat /\ n % w = 0
    OBVIOUS
  <2> HIDE DEF n, w
  <2>2. n = (n \div w) * w + (n % w) /\ n \div w \in Nat
    BY <2>1, Division
  <2> DEFINE r == n \div w
  <2>3. r \in Nat /\ n = r * w + 0
    BY <2>1, <2>2
  <2> HIDE DEF r
  <2>4. n = r * w
    BY <2>1, <2>3
  <2> QED
    BY <2>1, <2>3, <2>4 DEF n, r, w
<1> HIDE DEF q
<1>2. e = [k \in 1..q |-> FromBytes(P(k))]
  BY DEF ElemsOf, Each, ElementBytes, q
<1>3. ASSUME NEW k \in 1..q
      PROVE  /\ P(k) \in Seq(Byte) /\ Len(P(k)) = w
             /\ \A j \in 1..w : P(k)[j] = b[(k - 1) * w + j]
  <2> HIDE DEF w
  <2>1. P(k) \in Seq(Byte) /\ IsElement(P(k), b, k, w)
    BY <1>1, ElementCut
  <2> QED
    BY <2>1 DEF IsElement
<1> HIDE DEF P, e
<1>4. ASSUME NEW k \in 1..q
      PROVE  e[k] \in Nat /\ ToBytes(e[k], w) = P(k)
  <2>1. e[k] = FromBytes(P(k))
    BY <1>2
  <2>2. FromBytes(P(k)) \in 0..(2^(ByteBits * Len(P(k))) - 1) /\ ToBytes(FromBytes(P(k)), Len(P(k))) = P(k)
    BY <1>3, BytesWrittenBack
  <2>3. FromBytes(P(k)) \in Nat
    <3>1. BytePower(w) \in Nat
      BY <1>1, BytePowers
    <3> QED
      BY <1>3, <2>2, <3>1 DEF BytePower
  <2> QED
    BY <1>3, <2>1, <2>2, <2>3
<1>5. e \in Seq(Nat) /\ Len(e) = q
  <2>1. e \in [1..q -> Nat]
    BY <1>2, <1>4
  <2> QED
    BY <1>1, <2>1
<1>6. B \in Seq(Byte) /\ IsFlat(B, [k \in 1..Len(e) |-> ToBytes(e[k], w)], Len(e), w)
  BY <1>1, <1>5, BasicBytesPlaces
<1> HIDE DEF B
<1>7. /\ Len(B) = q * w
      /\ \A k \in 1..q : \A j \in 1..w : B[(k - 1) * w + j] = ToBytes(e[k], w)[j]
  BY <1>5, <1>6 DEF IsFlat
<1>8. ASSUME NEW i \in 1..Len(b) PROVE B[i] = b[i]
  <2>1. PICK k \in 1..q, j \in 1..w : i = (k - 1) * w + j
    <3> DEFINE n == Len(b)
    <3>1. n \in Nat /\ n = q * w /\ i \in 1..n
      BY <1>1
    <3> HIDE DEF w, n
    <3>2. IsPlaced(i, q, w)
      BY <1>1, <3>1, ElementPlace
    <3> QED
      BY <3>2 DEF IsPlaced
  <2>2. B[i] = P(k)[j]
    BY <1>4, <1>7, <2>1
  <2>3. P(k)[j] = b[i]
    BY <1>3, <2>1
  <2> QED
    BY <2>2, <2>3
<1>9. B = b
  <2>1. B \in Seq(Byte) /\ Len(B) = Len(b)
    BY <1>1, <1>6, <1>7
  <2> QED
    BY <1>8, <2>1
<1> QED
  BY <1>5, <1>9 DEF e, B, q

\* merkle.go with types/basic_series.go: series of one length whose leaves are the same
\* have the same elements.
THEOREM SeriesLeavesDistinguish ==
  ASSUME NEW elem, elem.len \in Nat \ {0}, NEW x \in Seq(Nat), NEW y \in Seq(Nat), Len(x) = Len(y),
         \A k \in 1..Len(x) : x[k] < 2^(ByteBits * elem.len) /\ y[k] < 2^(ByteBits * elem.len),
         Chunks(BasicBytes(elem, x)) = Chunks(BasicBytes(elem, y))
  PROVE  x = y
<1> DEFINE w == elem.len
           A == BasicBytes(elem, x)
           B == BasicBytes(elem, y)
<1>1. /\ A \in Seq(Byte) /\ IsFlat(A, [k \in 1..Len(x) |-> ToBytes(x[k], w)], Len(x), w)
      /\ B \in Seq(Byte) /\ IsFlat(B, [k \in 1..Len(y) |-> ToBytes(y[k], w)], Len(y), w)
  BY BasicBytesPlaces
<1>2. Len(A) = Len(B)
  BY <1>1 DEF IsFlat
<1>3. A = B
  <2> HIDE DEF A, B, w
  <2>1. Chunks(A) = Chunks(B)
    BY DEF A, B
  <2> QED
    BY <1>1, <1>2, <2>1, ChunksDistinguish
<1>4. ElemsOf(elem, A) = x /\ ElemsOf(elem, B) = y
  BY SeriesReadBack
<1> QED
  BY <1>3, <1>4

\* A byte of an element in memory is the one at the other end of it in the format, and
\* padding is padding.
LEMMA MirroredByte ==
  ASSUME NEW elem, elem.len \in Nat \ {0}, NEW elems \in Seq(Nat),
         NEW e \in Nat \ {0}, NEW j \in 1..elem.len
  PROVE  Padded(InMemory(elem, elems), (e - 1) * elem.len + ((elem.len - j) + 1)) =
           Padded(BasicBytes(elem, elems), (e - 1) * elem.len + j)
<1> DEFINE w == elem.len
           n == Len(elems)
           B == BasicBytes(elem, elems)
           M == InMemory(elem, elems)
           s == (e - 1) * w
<1>0. w \in Nat \ {0} /\ j \in 1..w
  OBVIOUS
<1>1. /\ IsFlat(B, [k \in 1..n |-> ToBytes(elems[k], w)], n, w)
      /\ IsFlat(M, [k \in 1..n |-> Reverse(ToBytes(elems[k], w))], n, w)
  BY <1>0, BasicBytesPlaces
<1> HIDE DEF w
<1>2. /\ Len(B) = n * w /\ Len(M) = n * w /\ n \in Nat
      /\ \A k \in 1..n : \A i \in 1..w : B[(k - 1) * w + i] = ToBytes(elems[k], w)[i]
      /\ \A k \in 1..n : \A i \in 1..w : M[(k - 1) * w + i] = Reverse(ToBytes(elems[k], w))[i]
  BY <1>1 DEF IsFlat
<1>3. s \in Nat /\ (w - j) + 1 \in 1..w
  BY <1>0 DEF s
<1>4. CASE e \in 1..n
  <2>1. s + w <= n * w
    <3>1. e * w <= n * w /\ e * w = s + w
      BY <1>0, <1>2, <1>4, TimesMonotone
    <3> QED
      BY <1>0, <3>1
  <2>2. M[s + ((w - j) + 1)] = Reverse(ToBytes(elems[e], w))[(w - j) + 1] /\ B[s + j] = ToBytes(elems[e], w)[j]
    BY <1>0, <1>2, <1>3, <1>4
  <2>3. Reverse(ToBytes(elems[e], w))[(w - j) + 1] = ToBytes(elems[e], w)[j]
    <3>1. Len(ToBytes(elems[e], w)) = w
      <4>1. elems[e] \in Nat /\ w \in Nat
        BY <1>0, <1>4
      <4> QED
        BY <1>0, <4>1, ToBytesAreBytes
    <3>2. (w - ((w - j) + 1)) + 1 = j
      BY <1>0
    <3> DEFINE b == ToBytes(elems[e], w)
    <3>3. Reverse(b) = [i \in 1..w |-> b[(w - i) + 1]]
      BY <3>1 DEF Reverse
    <3> HIDE DEF b
    <3>4. Reverse(b)[(w - j) + 1] = b[j]
      BY <1>0, <1>3, <3>2, <3>3
    <3> QED
      BY <3>4 DEF b
  <2>4. n * w \in Nat
    BY <1>0, <1>2
  <2> HIDE DEF B, M, s, n
  <2>5. s + ((w - j) + 1) <= Len(M) /\ s + j <= Len(B)
    BY <1>0, <1>2, <1>3, <2>1, <2>4
  <2> QED
    BY <2>2, <2>3, <2>5 DEF Padded, B, M, s, w
<1>5. CASE e \notin 1..n
  <2>1. n * w <= s
    <3>1. n <= e - 1 /\ e - 1 \in Nat
      BY <1>0, <1>2, <1>5
    <3> QED
      BY <1>0, <1>2, <3>1, TimesMonotone
  <2>2. n * w \in Nat
    BY <1>0, <1>2
  <2> HIDE DEF B, M, s, n
  <2>3. ~(s + ((w - j) + 1) <= Len(M)) /\ ~(s + j <= Len(B))
    BY <1>0, <1>2, <1>3, <2>1, <2>2
  <2> QED
    BY <2>3 DEF Padded, B, M, s, w
<1> QED
  BY <1>4, <1>5

\* A chunk that holds whole elements, turned around element by element.
IsTurned(t, r, q, w) ==
  /\ t = [i \in 1..(q * w) |-> t[i]]
  /\ \A k \in 1..q : \A j \in 1..w : t[(k - 1) * w + j] = r[(k - 1) * w + ((w - j) + 1)]

LEMMA TurnedAround ==
  ASSUME NEW S, NEW w \in Nat \ {0}, NEW q \in Nat, NEW r \in [1..(q * w) -> S]
  PROVE  IsTurned(BigToLittleEndianChunk(r, w), r, q, w)
<1> DEFINE n == q * w
           P(k) == SubSeq(r, (k - 1) * w + 1, k * w)
           s == [k \in 1..q |-> Reverse(P(k))]
<1>1. n \in Nat /\ n \div w = q
  <2>1. n \in Nat /\ n = q * w + 0 /\ 0 \in 0..(w - 1) /\ w >= 1
    OBVIOUS
  <2> HIDE DEF n
  <2> QED
    BY <2>1, DivisionUnique
<1>2. r \in Seq(S) /\ Len(r) = n
  BY <1>1
<1>3. BigToLittleEndianChunk(r, w) = FlattenSeq(s)
  BY <1>1, <1>2 DEF BigToLittleEndianChunk, Each
<1>4. ASSUME NEW k \in 1..q
      PROVE  /\ s[k] \in Seq(S) /\ Len(s[k]) = w
             /\ \A j \in 1..w : s[k][j] = r[(k - 1) * w + ((w - j) + 1)]
  <2> DEFINE a == (k - 1) * w
             p == P(k)
  <2>1. a \in Nat /\ k * w = a + w
    OBVIOUS
  <2>2. k * w <= n
    BY TimesMonotone
  <2> DEFINE z == a + w
  <2>3. p = SubSeq(r, a + 1, z)
    BY <2>1
  <2> HIDE DEF a, p, n
  <2>4. p \in Seq(S) /\ Len(p) = w /\ \A i \in 1..w : p[i] = r[a + i]
    <3>1. z \in Nat /\ a <= z /\ z <= Len(r) /\ z - a = w
      BY <1>1, <1>2, <2>1, <2>2
    <3> HIDE DEF z
    <3>2. p \in Seq(S) /\ Len(p) = z - a /\ \A i \in 1..(z - a) : p[i] = r[a + i]
      BY <1>2, <2>1, <2>3, <3>1, Cut
    <3> QED
      BY <3>1, <3>2
  <2>5. s[k] = [i \in 1..w |-> p[(w - i) + 1]]
    BY <2>4 DEF Reverse, p
  <2>6. \A i \in 1..w : (w - i) + 1 \in 1..w
    OBVIOUS
  <2> HIDE DEF s
  <2>7. \A i \in 1..w : p[(w - i) + 1] \in S /\ p[(w - i) + 1] = r[a + ((w - i) + 1)]
    BY <2>4, <2>6
  <2>8. s[k] \in Seq(S) /\ Len(s[k]) = w
    <3>1. s[k] \in [1..w -> S] /\ w \in Nat
      BY <2>5, <2>7
    <3> QED
      BY <3>1
  <2>9. \A j \in 1..w : s[k][j] = r[a + ((w - j) + 1)]
    BY <2>5, <2>7
  <2> QED
    BY <2>8, <2>9 DEF a
<1>5. s \in [1..q -> Seq(S)] /\ \A k \in 1..q : Len(s[k]) = w
  BY <1>4
<1> HIDE DEF s
<1>6. FlattenSeq(s) \in Seq(S) /\ IsFlat(FlattenSeq(s), s, q, w)
  BY <1>5, Flattened
<1>7. /\ Len(FlattenSeq(s)) = q * w
      /\ \A k \in 1..q : \A j \in 1..w : FlattenSeq(s)[(k - 1) * w + j] = s[k][j]
  BY <1>6 DEF IsFlat
<1> DEFINE flat == FlattenSeq(s)
<1> HIDE DEF flat, P, n
<1>8. \A k \in 1..q : \A j \in 1..w : flat[(k - 1) * w + j] = r[(k - 1) * w + ((w - j) + 1)]
  <2> TAKE k \in 1..q
  <2> TAKE j \in 1..w
  <2>1. flat[(k - 1) * w + j] = s[k][j]
    BY <1>7 DEF flat
  <2>2. s[k][j] = r[(k - 1) * w + ((w - j) + 1)]
    BY <1>4
  <2> QED
    BY <2>1, <2>2
<1>9. flat \in Seq(S) /\ Len(flat) = q * w /\ BigToLittleEndianChunk(r, w) = flat
  BY <1>3, <1>6, <1>7 DEF flat
<1>10. flat = [i \in 1..(q * w) |-> flat[i]]
  BY <1>9
<1> QED
  BY <1>8, <1>9, <1>10 DEF IsTurned

\* types/basic_series.go, merkle helpers: where chunks hold whole elements, as they do for
\* every basic type of SSZ, a machine that keeps numbers the other way around in memory
\* makes the leaves that the format asks for: it is enough to turn every chunk around,
\* element by element, the last, padded one too.
THEOREM ByteOrderIrrelevant ==
  ASSUME NEW elem, elem.len \in Nat \ {0}, ChunkLen % elem.len = 0, NEW elems \in Seq(Nat)
  PROVE  BigEndianLeaves(InMemory(elem, elems), elem.len) = Chunks(BasicBytes(elem, elems))
<1> DEFINE w == elem.len
           u == ChunkLen
           q == u \div w
           M == InMemory(elem, elems)
           B == BasicBytes(elem, elems)
           c == RoundUp(Len(B), u)
<1>1. w \in Nat \ {0} /\ u \in Nat \ {0} /\ u % w = 0
  BY ChunkLenAssumption
<1>2. q \in Nat /\ u = q * w
  <2> HIDE DEF u, w
  <2>1. u \in Nat /\ w >= 1 /\ w \in Nat
    BY <1>1
  <2>2. u = (u \div w) * w + (u % w) /\ u \div w \in Nat
    BY <2>1, Division
  <2> HIDE DEF q
  <2>3. q \in Nat /\ u = q * w + 0
    BY <1>1, <2>2 DEF q
  <2> QED
    BY <1>1, <2>3
<1>3. /\ B \in Seq(Byte) /\ M \in Seq(Byte)
      /\ Len(B) = Len(elems) * w /\ Len(M) = Len(B) /\ Len(B) \in Nat
  <2>1. /\ B \in Seq(Byte) /\ IsFlat(B, [k \in 1..Len(elems) |-> ToBytes(elems[k], w)], Len(elems), w)
        /\ M \in Seq(Byte)
        /\ IsFlat(M, [k \in 1..Len(elems) |-> Reverse(ToBytes(elems[k], w))], Len(elems), w)
    BY <1>1, BasicBytesPlaces
  <2> QED
    BY <2>1 DEF IsFlat
<1>4. \A e \in Nat \ {0} : \A j \in 1..w :
        Padded(M, (e - 1) * w + ((w - j) + 1)) = Padded(B, (e - 1) * w + j)
  <2> TAKE e \in Nat \ {0}
  <2> TAKE j \in 1..w
  <2> QED
    BY <1>1, MirroredByte
<1> HIDE DEF w, u, q, M, B, c
<1>5. ASSUME NEW k \in 1..c
      PROVE  BigEndianLeaf(M, k, w) = Chunk(ChunkOf(B, k))
  <2> DEFINE s == (k - 1) * u
             R == [j \in 1..u |-> Padded(M, s + j)]
             T == [j \in 1..u |-> Padded(B, s + j)]
             X == {R[j] : j \in 1..u}
             Y == BigToLittleEndianChunk(R, w)
  <2>1. Chunk(ChunkOf(M, k)) = [chunk |-> R] /\ Chunk(ChunkOf(B, k)) = [chunk |-> T]
    BY <1>3, ChunkRow DEF u, c
  <2>2. k \in Nat \ {0} /\ s \in Nat
    <3>1. c \in Nat
      BY <1>1, <1>3, RoundUpExact DEF c
    <3>2. k \in Nat \ {0}
      BY <3>1
    <3> QED
      BY <1>1, <3>2
  <2>3. R \in [1..(q * w) -> X]
    BY <1>2
  <2> HIDE DEF X, R
  <2>4. /\ Y = [i \in 1..u |-> Y[i]]
        /\ \A m \in 1..q : \A j \in 1..w : Y[(m - 1) * w + j] = R[(m - 1) * w + ((w - j) + 1)]
    <3>1. IsTurned(Y, R, q, w)
      BY <1>1, <1>2, <2>3, TurnedAround
    <3> HIDE DEF Y
    <3> QED
      BY <1>2, <3>1 DEF IsTurned
  <2> HIDE DEF Y
  <2>5. ASSUME NEW i \in 1..u PROVE Y[i] = T[i]
    <3>2. PICK m \in 1..q, j \in 1..w : i = (m - 1) * w + j
      <4>1. IsPlaced(i, q, w)
        BY <1>1, <1>2, ElementPlace
      <4> QED
        BY <4>1 DEF IsPlaced
    <3>3. (m - 1) * w + ((w - j) + 1) \in 1..u
      <4>1. m * w <= q * w /\ m * w = (m - 1) * w + w /\ (m - 1) * w \in Nat
        BY <1>1, <1>2, TimesMonotone
      <4> QED
        BY <1>1, <1>2, <4>1
    <3>4. Y[i] = Padded(M, s + ((m - 1) * w + ((w - j) + 1)))
      BY <2>4, <3>2, <3>3 DEF R
    <3> DEFINE e == (k - 1) * q + m
    <3>5. e \in Nat \ {0} /\ (e - 1) * w = s + (m - 1) * w
      <4>1. (k - 1) * q \in Nat /\ m \in Nat \ {0}
        BY <1>2, <2>2
      <4>2. \A a, b, d \in Int : (a * b + d) * w = a * (b * w) + d * w
        BY <1>1
      <4>3. e - 1 = (k - 1) * q + (m - 1)
        BY <4>1
      <4>4. ((k - 1) * q + (m - 1)) * w = (k - 1) * (q * w) + (m - 1) * w
        BY <1>2, <2>2, <4>1, <4>2
      <4> QED
        BY <1>2, <4>1, <4>3, <4>4
    <3> HIDE DEF e
    <3>6. (m - 1) * w \in Nat
      BY <1>1, <1>2
    <3> DEFINE p == (m - 1) * w
    <3> HIDE DEF p, s
    <3>7. s + (p + ((w - j) + 1)) = (s + p) + ((w - j) + 1) /\ s + (p + j) = (s + p) + j
      BY <1>1, <2>2, <3>6 DEF p
    <3>8. Padded(M, (e - 1) * w + ((w - j) + 1)) = Padded(B, (e - 1) * w + j)
      BY <1>4, <3>5
    <3>9. Padded(M, s + (p + ((w - j) + 1))) = Padded(B, s + (p + j))
      BY <3>5, <3>7, <3>8 DEF p
    <3>10. Y[i] = Padded(B, s + i)
      BY <3>2, <3>4, <3>9 DEF p
    <3> QED
      BY <3>10
  <2>6. Y = T
    <3>1. Y = [i \in 1..u |-> Y[i]]
      BY <2>4
    <3>2. T = [i \in 1..u |-> T[i]]
      OBVIOUS
    <3> HIDE DEF T
    <3> QED
      BY <2>5, <3>1, <3>2
  <2> HIDE DEF T, R
  <2>7. BigEndianLeaf(M, k, w) = [[chunk |-> R] EXCEPT !.chunk = BigToLittleEndianChunk(@, w)]
    BY <2>1 DEF BigEndianLeaf
  <2>8. [[chunk |-> R] EXCEPT !.chunk = BigToLittleEndianChunk(@, w)] = [chunk |-> Y]
    BY DEF Y
  <2> QED
    BY <2>1, <2>6, <2>7, <2>8
<1>6. /\ BigEndianLeaves(M, w) = [k \in 1..c |-> BigEndianLeaf(M, k, w)]
      /\ Chunks(B) = [k \in 1..c |-> Chunk(ChunkOf(B, k))]
  BY <1>3 DEF BigEndianLeaves, Chunks, Each, c, u
<1> QED
  BY <1>5, <1>6 DEF M, B, w
===============================================================================
