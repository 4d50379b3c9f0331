----------------------------- MODULE ZeroHashes -----------------------------
(***************************************************************************)
(* htr/hash_tree_root.go: the table of the roots of trees of zero chunks,  *)
(* one for every height, and InitZeroHashes, which makes a new table and   *)
(* fills it through the global variable.  The package's init() makes the   *)
(* first one, with sha256, before any other code runs; a program that uses *)
(* another hash function calls InitZeroHashes again, and nothing keeps     *)
(* goroutines that compute roots from reading the table meanwhile.         *)
(*                                                                         *)
(* The program calls InitZeroHashes from one goroutine.  A reader finds    *)
(* zeros in an entry that is not written yet, and half of an entry that is *)
(* being written (32 bytes are not stored at once).  The header of the     *)
(* slice is read whole: two tables differ in nothing but their address.    *)
(*                                                                         *)
(* Hashing is symbolic and injective, and tells hash functions apart.      *)
(***************************************************************************)
EXTENDS Integers, Sequences

CONSTANTS
  zeroHashesLevels,   \* the height of the highest tree in the table (64)
  HashFns,            \* the hash functions
  Sha256,             \* the one of init()
  MaxInits            \* bound on the calls of InitZeroHashes after init()

ASSUME LevelsAssumption   == zeroHashesLevels \in Nat
ASSUME HashFnsAssumption  == Sha256 \in HashFns
ASSUME MaxInitsAssumption == MaxInits \in Nat

VARIABLES
  tables,     \* every table made so far
  current,    \* the one the variable ZeroHashes refers to
  hFn,        \* the argument of the last InitZeroHashes
  filled,     \* its loop variable: the last entry it has come past
  filling     \* "done", "next" or "storing"

tableVars == <<tables, current, hFn, filled, filling>>

ZeroChunk          == <<>>
Torn               == <<"half", "half">>
Combi(hasher, a, b) == <<hasher, a, b>>

Table == tables[current]

AllZero == [l \in 0..zeroHashesLevels |-> ZeroChunk]

InitTable ==
  /\ tables = <<AllZero>>
  /\ current = 1
  /\ hFn = Sha256
  /\ filled = 0
  /\ filling = "next"

InitZeroHashes(fn) ==
  /\ filling = "done"
  /\ Len(tables) <= MaxInits
  /\ tables' = Append(tables, AllZero)
  /\ current' = Len(tables) + 1
  /\ hFn' = fn
  /\ filled' = 0
  /\ filling' = "next"

(***************************************************************************)
(* One iteration: the next entry is the hash of this one twice.            *)
(***************************************************************************)
HashOfChunk(l) == Combi(hFn, Table[0], Table[0])   \* a mutated form
NextZeroHash(l) == Combi(hFn, Table[l], Table[l])

FillStart ==
  /\ filling = "next"
  /\ filled < zeroHashesLevels
  /\ tables' = [tables EXCEPT ![current][filled + 1] = Torn]
  /\ filling' = "storing"
  /\ UNCHANGED <<current, hFn, filled>>

FillEnd ==
  /\ filling = "storing"
  /\ tables' = [tables EXCEPT ![current][filled + 1] = NextZeroHash(filled)]
  /\ filled' = filled + 1
  /\ filling' = "next"
  /\ UNCHANGED <<current, hFn>>

FillDone ==
  /\ filling = "next"
  /\ filled = zeroHashesLevels
  /\ filling' = "done"
  /\ UNCHANGED <<tables, current, hFn, filled>>

Fill == FillStart \/ FillEnd \/ FillDone

TableNext == Fill \/ \E fn \in HashFns : InitZeroHashes(fn)

TableSpec == InitTable /\ [][TableNext]_tableVars

(***************************************************************************)
(* Properties.                                                             *)
(***************************************************************************)
TableTypeOK ==
  /\ current \in 1..Len(tables)
  /\ hFn \in HashFns
  /\ filled \in 0..zeroHashesLevels
  /\ filling \in {"done", "next", "storing"}

\* While InitZeroHashes runs, the entries it has come past are the roots of trees of
\* zeros by its hash function, the next one may be half written, and all others are
\* zeros: a reader never finds an entry of the table that was replaced.  When it has
\* returned, no entry is missing.
FilledInOrder ==
  /\ Table[0] = ZeroChunk
  /\ \A l \in 0..(filled - 1) : Table[l + 1] = Combi(hFn, Table[l], Table[l])
  /\ \A l \in (filled + 1)..zeroHashesLevels :
       Table[l] = IF filling = "storing" /\ l = filled + 1 THEN Torn ELSE ZeroChunk
  /\ filling = "done" => filled = zeroHashesLevels
=============================================================================
