-------------------------- MODULE StructFields_proofs --------------------------
(***************************************************************************)
(* Where a container's fields are in the memory of the Go struct, for all  *)
(* structs: one step of the factory, from the types of a struct's fields   *)
(* to the struct's own.  The factory applies it from the innermost structs *)
(* outwards, so that what it keeps holds of every container it makes.      *)
(***************************************************************************)
EXTENDS StructFields, SharedLemmas

Paths == Seq(Nat) \ {<<>>}

\* Where two paths part, s goes to the earlier field.
Before(s, t) ==
  \E i \in 1..Len(s) :
    /\ i <= Len(t)
    /\ \A j \in 1..(i - 1) : s[j] = t[j]
    /\ s[i] < t[i]

\* A container whose fields are apart in memory, in the order of memory.
WellPlaced(t, Types) ==
  /\ t.kind = "container"
  /\ t.fields \in Seq(Types)
  /\ t.at \in Seq(Paths)
  /\ Len(t.fields) = Len(t.at)
  /\ \A m \in 1..Len(t.at) : \A p \in 1..Len(t.at) : m < p => Before(t.at[m], t.at[p])

\* No field is inside another one.
NoneWithin(t) ==
  \A m \in 1..Len(t.at) : \A p \in 1..Len(t.at) : m # p =>
    \A u \in Seq(Nat) : t.at[p] # t.at[m] \o u

\* A field of type typ at the path is what becomes of the k-th Go field, f, of type ssz.
IsFieldFrom(typ, path, f, k, ssz) ==
  /\ ~HasOmitFlag(f)
  /\ IF ToBeSquashed(f) /\ ssz.kind = "container"
     THEN \E p \in 1..Len(ssz.fields) : typ = ssz.fields[p] /\ path = <<k>> \o ssz.at[p]
     ELSE typ = ssz /\ path = <<k>>

HasJust(t, fields, ssz) ==
  /\ \A m \in 1..Len(t.fields) : \E k \in 1..Len(fields) :
       IsFieldFrom(t.fields[m], t.at[m], fields[k], k, ssz[k])
  /\ \A k \in 1..Len(fields) : \A typ, path :
       IsFieldFrom(typ, path, fields[k], k, ssz[k]) =>
         \E m \in 1..Len(t.fields) : t.fields[m] = typ /\ t.at[m] = path

\* What the factory has made of the type of a field that is not omitted.
IsMade(ssz, Types) == ssz \in Types /\ (ssz.kind = "container" => WellPlaced(ssz, Types))

Entries(Types) == [ssz : Types, at : Paths]
InOrder(Types) == {e \in Entries(Types) \X Entries(Types) : Before(e[1].at, e[2].at)}

LEMMA IsSequence ==
  ASSUME NEW S, NEW n \in Nat, NEW f \in [1..n -> S]
  PROVE  f \in Seq(S) /\ Len(f) = n
OBVIOUS

LEMMA Prefixed ==
  ASSUME NEW k \in Nat, NEW s \in Seq(Nat)
  PROVE  /\ <<k>> \o s \in Paths
         /\ Len(<<k>> \o s) = Len(s) + 1
         /\ (<<k>> \o s)[1] = k
         /\ \A i \in 1..Len(s) : (<<k>> \o s)[i + 1] = s[i]
<1>1. <<k>> \in Seq(Nat) /\ Len(<<k>>) = 1 /\ <<k>>[1] = k
  OBVIOUS
<1> DEFINE q == <<k>>
<1> HIDE DEF q
<1>2. /\ q \o s \in Seq(Nat) /\ Len(q \o s) = Len(q) + Len(s)
      /\ \A i \in 1..Len(q) : (q \o s)[i] = q[i]
      /\ \A j \in 1..Len(s) : (q \o s)[Len(q) + j] = s[j]
  <2>1. q \in Seq(Nat)
    BY <1>1 DEF q
  <2> QED
    BY <2>1, ConcatElements
<1>3. Len(q) = 1 /\ q[1] = k
  BY <1>1 DEF q
<1>4. Len(s) \in Nat
  OBVIOUS
<1>5. /\ q \o s \in Paths /\ Len(q \o s) = Len(s) + 1 /\ (q \o s)[1] = k
      /\ \A i \in 1..Len(s) : (q \o s)[i + 1] = s[i]
  <2>1. \A i \in 1..Len(s) : Len(q) + i = i + 1
    BY <1>3
  <2>2. q \o s # <<>>
    BY <1>2, <1>3, <1>4
  <2> QED
    BY <1>2, <1>3, <1>4, <2>1, <2>2 DEF Paths
<1> QED
  BY <1>5 DEF q

\* Paths through one field keep their order, paths through different ones get theirs.
LEMMA PrefixedBefore ==
  ASSUME NEW k \in Nat, NEW s \in Seq(Nat), NEW t \in Seq(Nat), Before(s, t)
  PROVE  Before(<<k>> \o s, <<k>> \o t)
<1> DEFINE a == <<k>> \o s
           b == <<k>> \o t
<1>1. PICK i \in 1..Len(s) : i <= Len(t) /\ (\A j \in 1..(i - 1) : s[j] = t[j]) /\ s[i] < t[i]
  BY DEF Before
<1>2. /\ Len(a) = Len(s) + 1 /\ a[1] = k /\ \A m \in 1..Len(s) : a[m + 1] = s[m]
      /\ Len(b) = Len(t) + 1 /\ b[1] = k /\ \A m \in 1..Len(t) : b[m + 1] = t[m]
  BY Prefixed
<1>3. Len(s) \in Nat /\ Len(t) \in Nat
  OBVIOUS
<1> HIDE DEF a, b
<1>4. i + 1 \in 1..Len(a) /\ i + 1 <= Len(b) /\ a[i + 1] < b[i + 1]
  BY <1>1, <1>2, <1>3
<1>5. ASSUME NEW j \in 1..((i + 1) - 1) PROVE a[j] = b[j]
  <2>1. CASE j = 1
    BY <1>2, <2>1
  <2>2. CASE j # 1
    <3>1. j - 1 \in 1..(i - 1) /\ j - 1 \in 1..Len(s) /\ j - 1 \in 1..Len(t) /\ (j - 1) + 1 = j
      BY <1>1, <1>3, <2>2
    <3> QED
      BY <1>1, <1>2, <3>1
  <2> QED
    BY <2>1, <2>2
<1>6. Before(a, b)
  BY <1>4, <1>5 DEF Before
<1> QED
  BY <1>6 DEF a, b

LEMMA FirstsBefore ==
  ASSUME NEW s \in Paths, NEW t \in Paths, s[1] < t[1]
  PROVE  Before(s, t)
<1>1. Len(s) >= 1 /\ Len(t) >= 1 /\ Len(s) \in Nat /\ Len(t) \in Nat
  BY DEF Paths
<1>2. 1 \in 1..Len(s) /\ 1 <= Len(t) /\ \A j \in 1..(1 - 1) : s[j] = t[j]
  BY <1>1
<1> QED
  BY <1>2 DEF Before

\* Paths in order do part: neither goes on from where the other ends.
LEMMA BeforeApart ==
  ASSUME NEW s \in Seq(Nat), NEW t \in Seq(Nat), Before(s, t), NEW u \in Seq(Nat)
  PROVE  t # s \o u /\ s # t \o u
<1>1. PICK i \in 1..Len(s) : i <= Len(t) /\ s[i] < t[i]
  BY DEF Before
<1>2. i \in 1..Len(t) /\ s[i] \in Nat /\ t[i] \in Nat
  BY <1>1
<1>3. (s \o u)[i] = s[i] /\ (t \o u)[i] = t[i]
  BY <1>1, <1>2, ConcatElements
<1> QED
  BY <1>1, <1>2, <1>3

\* What one Go field gives: its paths begin with it, and are in order.
FieldsOf(q, f, k, ssz, Types) ==
  /\ q \in Seq(Entries(Types))
  /\ \A m \in 1..Len(q) : q[m].at[1] = k /\ IsFieldFrom(q[m].ssz, q[m].at, f, k, ssz)
  /\ \A typ, path : IsFieldFrom(typ, path, f, k, ssz) =>
       \E m \in 1..Len(q) : q[m].ssz = typ /\ q[m].at = path
  /\ IsInOrder(q, InOrder(Types))

LEMMA FieldIsThere ==
  ASSUME NEW q, NEW f, NEW k, NEW ssz, NEW Types, FieldsOf(q, f, k, ssz, Types),
         NEW typ, NEW path, IsFieldFrom(typ, path, f, k, ssz)
  PROVE  \E m \in 1..Len(q) : q[m].ssz = typ /\ q[m].at = path
BY DEF FieldsOf

LEMMA SquashedFields ==
  ASSUME NEW Types, NEW ssz, WellPlaced(ssz, Types), NEW k \in Nat
  PROVE  LET q == SquashFields(ssz, k) IN
         /\ q \in Seq(Entries(Types))
         /\ Len(q) = Len(ssz.fields)
         /\ \A m \in 1..Len(q) : /\ q[m].ssz = ssz.fields[m] /\ q[m].at = <<k>> \o ssz.at[m]
                                 /\ q[m].at[1] = k
         /\ IsInOrder(q, InOrder(Types))
<1> DEFINE q == SquashFields(ssz, k)
           n == Len(ssz.fields)
<1>1. /\ ssz.fields \in Seq(Types) /\ ssz.at \in Seq(Paths) /\ Len(ssz.at) = n /\ n \in Nat
      /\ \A m \in 1..n : \A p \in 1..n : m < p => Before(ssz.at[m], ssz.at[p])
  BY DEF WellPlaced
<1>2. \A m \in 1..n : ssz.fields[m] \in Types /\ ssz.at[m] \in Paths
  BY <1>1
<1>3. q = [m \in 1..n |-> [ssz |-> ssz.fields[m], at |-> <<k>> \o ssz.at[m]]]
  <2>1. ASSUME NEW x, NEW y PROVE Wrap(ContainerField(x, y), k) = [ssz |-> x, at |-> <<k>> \o y]
    <3>1. \A z : [[ssz |-> x, at |-> y] EXCEPT !.at = z] = [ssz |-> x, at |-> z]
      OBVIOUS
    <3>2. Wrap(ContainerField(x, y), k) = [[ssz |-> x, at |-> y] EXCEPT !.at = <<k>> \o y]
      BY DEF Wrap, ContainerField
    <3> QED
      BY <3>1, <3>2
  <2>2. q = [m \in 1..n |-> Wrap(ContainerField(ssz.fields[m], ssz.at[m]), k)]
    BY DEF SquashFields
  <2> HIDE DEF q, n
  <2> QED
    BY <2>1, <2>2
<1> HIDE DEF q, n
<1>4. \A m \in 1..n : <<k>> \o ssz.at[m] \in Paths /\ (<<k>> \o ssz.at[m])[1] = k
  BY <1>2, Prefixed DEF Paths
<1>5. \A m \in 1..n : /\ q[m] \in Entries(Types) /\ q[m].ssz = ssz.fields[m]
                      /\ q[m].at = <<k>> \o ssz.at[m] /\ q[m].at[1] = k
  BY <1>2, <1>3, <1>4 DEF Entries
<1>6. q \in Seq(Entries(Types)) /\ Len(q) = n
  <2>1. q \in [1..n -> Entries(Types)]
    BY <1>3, <1>5
  <2> QED
    BY <1>1, <2>1
<1>7. ASSUME NEW m \in 1..n, NEW p \in 1..n, m < p PROVE <<q[m], q[p]>> \in InOrder(Types)
  <2>1. Before(ssz.at[m], ssz.at[p]) /\ ssz.at[m] \in Seq(Nat) /\ ssz.at[p] \in Seq(Nat)
    BY <1>1, <1>2, <1>7 DEF Paths
  <2>2. Before(q[m].at, q[p].at)
    BY <1>5, <2>1, PrefixedBefore
  <2> QED
    BY <1>5, <2>2 DEF InOrder
<1>8. IsInOrder(q, InOrder(Types))
  BY <1>6, <1>7 DEF IsInOrder
<1> QED
  BY <1>5, <1>6, <1>8 DEF q, n

LEMMA FieldsOfOne ==
  ASSUME NEW Types, NEW f, NEW k \in Nat, NEW ssz, ~HasOmitFlag(f) => IsMade(ssz, Types)
  PROVE  FieldsOf(getFields(f, k, ssz), f, k, ssz, Types)
<1> DEFINE q == getFields(f, k, ssz)
<1>1. CASE HasOmitFlag(f)
  <2>1. q = <<>>
    BY <1>1 DEF getFields
  <2> QED
    BY <1>1, <2>1 DEF FieldsOf, IsFieldFrom, IsInOrder
<1>2. CASE ~HasOmitFlag(f) /\ ToBeSquashed(f) /\ ssz.kind = "container"
  <2>1. q = SquashFields(ssz, k)
    BY <1>2 DEF getFields
  <2>2. WellPlaced(ssz, Types)
    BY <1>2 DEF IsMade
  <2> HIDE DEF q
  <2>3. /\ q \in Seq(Entries(Types))
        /\ Len(q) = Len(ssz.fields)
        /\ \A m \in 1..Len(q) : /\ q[m].ssz = ssz.fields[m] /\ q[m].at = <<k>> \o ssz.at[m]
                                /\ q[m].at[1] = k
        /\ IsInOrder(q, InOrder(Types))
    BY <2>1, <2>2, SquashedFields
  <2>4. \A typ, path : IsFieldFrom(typ, path, f, k, ssz) <=>
          \E p \in 1..Len(ssz.fields) : typ = ssz.fields[p] /\ path = <<k>> \o ssz.at[p]
    BY <1>2 DEF IsFieldFrom
  <2>5. ASSUME NEW typ, NEW path, IsFieldFrom(typ, path, f, k, ssz)
        PROVE  \E m \in 1..Len(q) : q[m].ssz = typ /\ q[m].at = path
    <3>0. \E p \in 1..Len(ssz.fields) : typ = ssz.fields[p] /\ path = <<k>> \o ssz.at[p]
      BY <1>2, <2>5, Zenon DEF IsFieldFrom
    <3>1. PICK p \in 1..Len(ssz.fields) : typ = ssz.fields[p] /\ path = <<k>> \o ssz.at[p]
      BY <3>0
    <3> QED
      BY <2>3, <3>1
  <2>6. \A m \in 1..Len(q) : IsFieldFrom(q[m].ssz, q[m].at, f, k, ssz)
    BY <2>3, <2>4
  <2>7. FieldsOf(q, f, k, ssz, Types)
    BY <2>3, <2>5, <2>6 DEF FieldsOf
  <2> QED
    BY <2>7 DEF q
<1>3. CASE ~HasOmitFlag(f) /\ ~(ToBeSquashed(f) /\ ssz.kind = "container")
  <2>1. q = <<[ssz |-> ssz, at |-> <<k>>]>>
    BY <1>3 DEF getFields, ContainerField
  <2>2. ssz \in Types /\ <<k>> \in Paths /\ <<k>>[1] = k
    BY <1>3 DEF IsMade, Paths
  <2> HIDE DEF q
  <2>3. q \in Seq(Entries(Types)) /\ Len(q) = 1 /\ q[1].ssz = ssz /\ q[1].at = <<k>> /\ 1 \in 1..Len(q)
    BY <2>1, <2>2 DEF Entries
  <2>4. \A m \in 1..Len(q) : m = 1
    BY <2>3
  <2>5. IsInOrder(q, InOrder(Types))
    BY <2>4 DEF IsInOrder
  <2>6. \A typ, path : IsFieldFrom(typ, path, f, k, ssz) <=> typ = ssz /\ path = <<k>>
    BY <1>3 DEF IsFieldFrom
  <2>7. FieldsOf(q, f, k, ssz, Types)
    BY <2>2, <2>3, <2>4, <2>5, <2>6 DEF FieldsOf
  <2> QED
    BY <2>7 DEF q
<1> QED
  BY <1>1, <1>2, <1>3

(***************************************************************************)
(* The theorem.                                                            *)
(***************************************************************************)
\* A container (NewSSZContainer) has a field for each Go field that is not omitted, and
\* in place of one that is squashed the squashed container's fields; it has no other, so
\* that no pointer function leads to an omitted field.  The pointer functions (WrapOffset
\* adds up the offsets) lead to places in memory that are apart, in the order of memory,
\* when those of the squashed containers do: however deep structs are squashed into one
\* another, no field is written over by another.
THEOREM FieldsApart ==
  ASSUME NEW Types, NEW GoFields, NEW fields \in Seq(GoFields), NEW ssz,
         \A k \in 1..Len(fields) : ~HasOmitFlag(fields[k]) => IsMade(ssz[k], Types),
         ~IsRefused(NewSSZContainer(fields, ssz))
  PROVE  /\ WellPlaced(NewSSZContainer(fields, ssz), Types)
         /\ NoneWithin(NewSSZContainer(fields, ssz))
         /\ HasJust(NewSSZContainer(fields, ssz), fields, ssz)
<1> DEFINE n == Len(fields)
           s == [k \in 1..n |-> getFields(fields[k], k, ssz[k])]
           q == FlattenSeq(s)
           t == NewSSZContainer(fields, ssz)
           R == InOrder(Types)
           E == Entries(Types)
<1>0. n \in Nat
  OBVIOUS
<1>1. t = FieldsAt(q)
  BY DEF NewSSZContainer, IsRefused, Refused
<1>2. ASSUME NEW k \in 1..n PROVE FieldsOf(s[k], fields[k], k, ssz[k], Types)
  <2>1. k \in Nat /\ s[k] = getFields(fields[k], k, ssz[k])
    BY <1>0
  <2> QED
    BY <2>1, FieldsOfOne
<1>3. s \in [1..n -> Seq(E)]
  <2>1. \A k \in 1..n : s[k] \in Seq(E)
    BY <1>2 DEF FieldsOf
  <2> QED
    BY <2>1
<1> HIDE DEF n, s, t
<1>4. \A k \in 1..n : IsInOrder(s[k], R)
  BY <1>2 DEF FieldsOf
<1>5. ASSUME NEW k \in 1..n, NEW l \in 1..n, k < l, NEW m \in 1..Len(s[k]), NEW p \in 1..Len(s[l])
      PROVE  <<s[k][m], s[l][p]>> \in R
  <2>1. s[k][m] \in E /\ s[k][m].at[1] = k /\ s[l][p] \in E /\ s[l][p].at[1] = l
    BY <1>2 DEF FieldsOf
  <2>2. Before(s[k][m].at, s[l][p].at)
    BY <1>5, <2>1, FirstsBefore DEF Entries
  <2> QED
    BY <2>1, <2>2 DEF InOrder
<1> HIDE DEF q, R, E
<1>6. q \in Seq(E) /\ AllOf(q, s, n) /\ IsInOrder(q, R)
  <2>1. FlattenSeq(s) \in Seq(E) /\ AllOf(FlattenSeq(s), s, n) /\ IsInOrder(FlattenSeq(s), R)
    BY <1>0, <1>3, <1>4, <1>5, FlattenInOrder
  <2> QED
    BY <2>1 DEF q
<1>7. /\ t.kind = "container"
      /\ t.fields = [m \in 1..Len(q) |-> q[m].ssz]
      /\ t.at = [m \in 1..Len(q) |-> q[m].at]
  BY <1>1 DEF FieldsAt
<1>8. \A m \in 1..Len(q) : /\ q[m].ssz \in Types /\ q[m].at \in Paths
                           /\ t.fields[m] = q[m].ssz /\ t.at[m] = q[m].at
  <2>1. \A m \in 1..Len(q) : q[m] \in E
    BY <1>6
  <2> QED
    BY <1>7, <2>1 DEF E, Entries
<1>9. Len(q) \in Nat
  BY <1>6
<1>10. t.fields \in Seq(Types) /\ Len(t.fields) = Len(q) /\ t.at \in Seq(Paths) /\ Len(t.at) = Len(q)
  <2>1. t.fields \in [1..Len(q) -> Types] /\ t.at \in [1..Len(q) -> Paths]
    BY <1>7, <1>8
  <2> QED
    BY <1>9, <2>1, IsSequence
<1>11. ASSUME NEW m \in 1..Len(q), NEW p \in 1..Len(q), m < p PROVE Before(t.at[m], t.at[p])
  <2>1. <<q[m], q[p]>> \in R
    BY <1>6, <1>11 DEF IsInOrder
  <2>2. Before(q[m].at, q[p].at)
    BY <2>1 DEF R, InOrder
  <2> QED
    BY <1>8, <2>2
<1>12. WellPlaced(t, Types)
  BY <1>7, <1>10, <1>11 DEF WellPlaced
<1>13. ASSUME NEW m \in 1..Len(q)
       PROVE  \E k \in 1..n : IsFieldFrom(t.fields[m], t.at[m], fields[k], k, ssz[k])
  <2>1. PICK k \in 1..n : \E j \in 1..Len(s[k]) : q[m] = s[k][j]
    BY <1>6 DEF AllOf
  <2>2. PICK j \in 1..Len(s[k]) : q[m] = s[k][j]
    BY <2>1
  <2>3. IsFieldFrom(s[k][j].ssz, s[k][j].at, fields[k], k, ssz[k])
    BY <1>2 DEF FieldsOf
  <2> QED
    BY <1>8, <2>2, <2>3
<1>14. ASSUME NEW k \in 1..n, NEW typ, NEW path, IsFieldFrom(typ, path, fields[k], k, ssz[k])
       PROVE  \E m \in 1..Len(q) : t.fields[m] = typ /\ t.at[m] = path
  <2>0. FieldsOf(s[k], fields[k], k, ssz[k], Types)
    BY <1>2
  <2>1. PICK j \in 1..Len(s[k]) : s[k][j].ssz = typ /\ s[k][j].at = path
    BY <1>14, <2>0, FieldIsThere
  <2>2. PICK m \in 1..Len(q) : q[m] = s[k][j]
    BY <1>6 DEF AllOf
  <2> QED
    BY <1>8, <2>1, <2>2
<1>15. HasJust(t, fields, ssz)
  BY <1>10, <1>13, <1>14 DEF HasJust, n
<1>16. NoneWithin(t)
  <2>1. ASSUME NEW m \in 1..Len(t.at), NEW p \in 1..Len(t.at), m # p, NEW u \in Seq(Nat)
        PROVE  t.at[p] # t.at[m] \o u
    <3>1. m \in 1..Len(q) /\ p \in 1..Len(q) /\ (m < p \/ p < m)
      BY <1>9, <1>10, <2>1
    <3>2. t.at[m] \in Seq(Nat) /\ t.at[p] \in Seq(Nat)
      BY <1>8, <3>1 DEF Paths
    <3>3. Before(t.at[m], t.at[p]) \/ Before(t.at[p], t.at[m])
      BY <1>11, <3>1
    <3> QED
      BY <3>2, <3>3, BeforeApart
  <2> QED
    BY <2>1 DEF NoneWithin
<1> QED
  BY <1>12, <1>15, <1>16 DEF t
===============================================================================
