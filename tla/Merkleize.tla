------------------------------ MODULE Merkleize ------------------------------
(***************************************************************************)
(* merkle/merkleize.go: the root of, and a branch into, a balanced binary  *)
(* tree of "limit" leaves of which only the first "count" exist, built     *)
(* leaf by leaf with one pending node per level (tmp).                     *)
(*                                                                         *)
(* A node is its hash function and its children, a leaf the one-element    *)
(* sequence of its index.  Bit operations are written as arithmetic: bit j *)
(* of x is x \div 2^j % 2.                                                 *)
(*                                                                         *)
(* The call runs while another goroutine may run InitZeroHashes; it reads  *)
(* the table through the global variable each time it needs an entry.      *)
(***************************************************************************)
EXTENDS ZeroHashes

CONSTANTS
  MaxLimit,       \* bound on the limit of the tree
  MaxRaceLimit,   \* bound on it when InitZeroHashes is called by the program
  Calls           \* the functions called: {"Merkleize", "ConstructProof"} or one of them

ASSUME MaxLimitAssumption == MaxLimit \in Nat
\* The table has an entry for every height of the tree of a limit, a uint64.
ASSUME LimitAssumption    == zeroHashesLevels <= 64 /\ MaxLimit <= 2^zeroHashesLevels
ASSUME CallsAssumption    == Calls \subseteq {"Merkleize", "ConstructProof"}

VARIABLES
  hasher,   \* the hash function of the call
  fn,       \* the function called
  count,    \* its arguments
  limit,
  index,
  i,        \* the leaf being merged in; count for the padding
  j,        \* the level merge is at
  h,        \* the node merge carries up
  tmp,      \* by level, the node waiting for its right sibling
  source,   \* the table ConstructProof takes the zero hashes of its branch from
  branch,   \* ConstructProof's result: by level, the sibling
  pc,       \* "idle", "start", "copy", "leaf", "merge", "extend", "return", "panic"
  out,      \* Merkleize's result
  quiet     \* has the table been the one of hasher since the call began? (history)

args == <<hasher, fn, count, limit, index>>
vars == <<args, i, j, h, tmp, source, branch, pc, out, quiet, tableVars>>

Leaf(n) == <<n>>

(***************************************************************************)
(* GetDepth: binary search for the number of bits of v - 1, and one more.  *)
(***************************************************************************)
\* v >> bits, in two halves, so that no power exceeds TLC's integers.
ShiftRight(v, bits) == (v \div 2^(bits \div 2)) \div 2^(bits - (bits \div 2))

Search(acc, bits) ==
  IF ShiftRight(acc.v, bits) # 0
    THEN [v |-> ShiftRight(acc.v, bits), out |-> acc.out + bits]
    ELSE acc

GetDepth(v) ==
  IF v = 0 THEN 0
  ELSE LET s32 == Search([v |-> v - 1, out |-> 0], 32)
           s16 == Search(s32, 16)
           s8  == Search(s16, 8)
           s4  == Search(s8, 4)
           s2  == Search(s4, 2)
           s1  == Search(s2, 1)
       IN  s1.out + 1

depth      == GetDepth(count)
limitDepth == GetDepth(limit)

Sibling(x) == IF x % 2 = 0 THEN x + 1 ELSE x - 1   \* x ^ 1

(***************************************************************************)
(* Mutated forms of the operators below.                                   *)
(***************************************************************************)
PadForever       == i = count
ZeroBelow(level) == Table[IF level = 0 THEN 0 ELSE level - 1]
ZeroAbove(level) == tables[source][level + 1]
Swapped          == Combi(hasher, h, tmp[j])
FirstLeafSibling(level) ==
  /\ fn = "ConstructProof"
  /\ Sibling(i \div 2^level) = index \div 2^level
  /\ i % 2^level = 0

Init ==
  /\ hasher = Sha256
  /\ fn = "none"
  /\ count = 0
  /\ limit = 0
  /\ index = 0
  /\ i = 0
  /\ j = 0
  /\ h = ZeroChunk
  /\ tmp = <<>>
  /\ source = 1
  /\ branch = <<>>
  /\ pc = "idle"
  /\ out = ZeroChunk
  /\ quiet = TRUE
  /\ InitTable

(***************************************************************************)
(* The call, any time after the package's init(), and the cases before the *)
(* loop.                                                                   *)
(***************************************************************************)
InInit == Len(tables) = 1 /\ filling # "done"

Call(f, fun, c, l, x) ==
  /\ pc = "idle"
  /\ ~InInit
  /\ f # Sha256 \/ Len(tables) > 1 => l <= MaxRaceLimit
  /\ hasher' = f
  /\ fn' = fun
  /\ count' = c
  /\ limit' = l
  /\ index' = x
  /\ quiet' = (filling = "done" /\ hFn = f)
  /\ pc' = "start"
  /\ UNCHANGED <<i, j, h, tmp, source, branch, out, tableVars>>

OverLimit == count > limit \/ (fn = "ConstructProof" /\ index >= limit)

Start ==
  /\ pc = "start"
  /\ \/ /\ OverLimit
        /\ pc' = "panic"
        /\ UNCHANGED <<tmp, source, branch, out>>
     \/ /\ ~OverLimit
        /\ limit <= 1
        /\ pc' = "return"
        /\ out' = IF fn = "Merkleize" /\ limit = 1 /\ count = 1 THEN Leaf(0) ELSE out
        /\ UNCHANGED <<tmp, source, branch>>
     \/ /\ ~OverLimit
        /\ limit > 1
        /\ pc' = IF fn = "ConstructProof" THEN "copy" ELSE "leaf"
        /\ source' = current
        /\ tmp' = [level \in 0..limitDepth |-> ZeroChunk]
        /\ branch' = [level \in 0..(limitDepth - 1) |-> ZeroChunk]
        /\ UNCHANGED out
  /\ UNCHANGED <<args, i, j, h, quiet, tableVars>>

ZeroSibling(level) == tables[source][level]

\* append(branch, ZeroHashes[:limitDepth]...) copies while the table may be filled.
CopyZeroHash ==
  /\ pc = "copy"
  /\ branch' = [branch EXCEPT ![j] = ZeroSibling(j)]
  /\ j' = j + 1
  /\ pc' = IF j + 1 = limitDepth THEN "leaf" ELSE "copy"
  /\ UNCHANGED <<args, i, h, tmp, source, out, quiet, tableVars>>

(***************************************************************************)
(* The loop over the leaves, and the padding after it.                     *)
(***************************************************************************)
NextLeaf ==
  /\ pc = "leaf"
  /\ i < count
  /\ h' = Leaf(i)
  /\ j' = 0
  /\ pc' = "merge"
  /\ UNCHANGED <<args, i, tmp, source, branch, out, quiet, tableVars>>

Complement ==
  /\ pc = "leaf"
  /\ i = count
  /\ IF 2^depth # count
       THEN /\ h' = Table[0]
            /\ j' = 0
            /\ pc' = "merge"
       ELSE /\ pc' = "extend"
            /\ j' = depth
            /\ UNCHANGED h
  /\ UNCHANGED <<args, i, tmp, source, branch, out, quiet, tableVars>>

(***************************************************************************)
(* One iteration of merge at level j: put h into the branch if it is a     *)
(* complete sibling of the index, then merge it up or store it.            *)
(***************************************************************************)
IsSibling(level) ==
  /\ fn = "ConstructProof"
  /\ Sibling(i \div 2^level) = index \div 2^level
  /\ i % 2^level = 2^level - 1

LeftSide   == i \div 2^j % 2 = 0
PadHere    == i = count /\ j < depth
ZeroRight(level) == Table[level]
MergeLeft  == Combi(hasher, tmp[j], h)

MergeStep ==
  /\ pc = "merge"
  /\ branch' = IF IsSibling(j) THEN [branch EXCEPT ![j] = h] ELSE branch
  /\ \/ /\ LeftSide
        /\ PadHere
        /\ h' = Combi(hasher, h, ZeroRight(j))
        /\ j' = j + 1
        /\ UNCHANGED <<i, tmp, pc>>
     \/ /\ LeftSide
        /\ ~PadHere
        /\ tmp' = [tmp EXCEPT ![j] = h]
        /\ IF i < count
             THEN pc' = "leaf" /\ i' = i + 1 /\ UNCHANGED j
             ELSE pc' = "extend" /\ j' = depth /\ UNCHANGED i
        /\ UNCHANGED h
     \/ /\ ~LeftSide
        /\ h' = MergeLeft
        /\ j' = j + 1
        /\ UNCHANGED <<i, tmp, pc>>
  /\ UNCHANGED <<args, source, out, quiet, tableVars>>

(***************************************************************************)
(* Merkleize only: up from the tree of the leaves to the tree of the       *)
(* limit, one zero hash per level.                                         *)
(***************************************************************************)
Extend ==
  /\ pc = "extend"
  /\ \/ /\ fn = "Merkleize"
        /\ j < limitDepth
        /\ tmp' = [tmp EXCEPT ![j + 1] = Combi(hasher, tmp[j], ZeroRight(j))]
        /\ j' = j + 1
        /\ UNCHANGED <<pc, out>>
     \/ /\ fn = "Merkleize"
        /\ j >= limitDepth
        /\ out' = tmp[limitDepth]
        /\ pc' = "return"
        /\ UNCHANGED <<tmp, j>>
     \/ /\ fn = "ConstructProof"
        /\ pc' = "return"
        /\ UNCHANGED <<tmp, j, out>>
  /\ UNCHANGED <<args, i, h, source, branch, quiet, tableVars>>

(***************************************************************************)
(* A step of the package's init(), or of InitZeroHashes in the program.    *)
(* (After the return, none makes a difference.)                            *)
(***************************************************************************)
SetTable ==
  /\ pc \notin {"return", "panic"}
  /\ \/ Fill
     \/ /\ limit <= MaxRaceLimit
        /\ \E f \in HashFns : InitZeroHashes(f)
  /\ quiet' = (quiet /\ filling' = "done")
  /\ UNCHANGED <<args, i, j, h, tmp, source, branch, pc, out>>

Returned == pc \in {"return", "panic"} /\ UNCHANGED vars

Next ==
  \/ \E f \in HashFns, fun \in Calls, c \in 0..MaxLimit, l \in 0..MaxLimit :
       \E x \in IF fun = "Merkleize" THEN {0} ELSE 0..MaxLimit : Call(f, fun, c, l, x)
  \/ Start \/ CopyZeroHash \/ NextLeaf \/ Complement \/ MergeStep \/ Extend
  \/ SetTable
  \/ Returned

Spec == Init /\ [][Next]_vars

(***************************************************************************)
(* The reference: the balanced tree, level by level.                       *)
(***************************************************************************)
Height == CHOOSE d \in 0..limit : 2^d >= limit /\ (d = 0 \/ 2^(d - 1) < limit)

Balanced(f, leaves, height) ==
  LET Level[l \in 0..height] ==
        [n \in 0..(2^(height - l) - 1) |->
           IF l = 0
             THEN IF n < leaves THEN Leaf(n) ELSE ZeroChunk
             ELSE Combi(f, Level[l - 1][2 * n], Level[l - 1][2 * n + 1])]
  IN  Level

Tree == Balanced(hasher, count, Height)

(***************************************************************************)
(* Properties.                                                             *)
(***************************************************************************)

\* The arrays are indexed inside their bounds (an index out of range would panic).
TypeOK ==
  /\ TableTypeOK
  /\ count \in 0..MaxLimit /\ limit \in 0..MaxLimit /\ index \in 0..MaxLimit
  /\ i \in 0..count
  /\ pc \in {"idle", "start", "copy", "leaf", "merge", "extend", "return", "panic"}
  /\ pc \in {"copy", "leaf", "merge", "extend"} =>
       /\ j \in 0..limitDepth
       /\ limitDepth <= zeroHashesLevels
       /\ DOMAIN tmp = 0..limitDepth
       /\ DOMAIN branch = 0..(limitDepth - 1)

\* Between two leaves, the nodes that wait in tmp are exactly the complete
\* subtrees left of the next leaf, one for each bit of i, whatever the table of zero
\* hashes holds: the log(N) space of Merkleize loses no leaf.
PendingSubtrees ==
  pc = "leaf" =>
    \A level \in 0..limitDepth :
      i \div 2^level % 2 = 1 => tmp[level] = Tree[level][i \div 2^level - 1]

\* Merkleize returns the root of the balanced tree, whatever the number of leaves,
\* zero chunks standing for those that do not exist, if the table of zero hashes is
\* that of its hash function and no InitZeroHashes runs meanwhile.
RootCorrect ==
  pc = "return" /\ fn = "Merkleize" /\ quiet =>
    out = IF limit = 0 THEN ZeroChunk ELSE Tree[Height][0]

\* ConstructProof's entry at a level is the sibling subtree, if all or none of the
\* leaves of that subtree exist.
SiblingAt(level) == Sibling(index \div 2^level)

FullBranch ==
  pc = "return" /\ fn = "ConstructProof" /\ limit > 1 /\ quiet =>
    \A level \in 0..(limitDepth - 1) :
      \/ (SiblingAt(level) + 1) * 2^level <= count
      \/ SiblingAt(level) * 2^level >= count
      => branch[level] = Tree[level][SiblingAt(level)]

\* What is made of leaves alone is right whatever hash function the table is of, and
\* whenever InitZeroHashes runs: the root of a full tree, and the entries of a branch
\* whose leaves all exist.
LeavesNeedNoTable ==
  pc = "return" /\ limit > 1 =>
    IF fn = "Merkleize" THEN count = 2^Height => out = Tree[Height][0]
    ELSE \A level \in 0..(limitDepth - 1) :
           (SiblingAt(level) + 1) * 2^level <= count =>
             branch[level] = Tree[level][SiblingAt(level)]

\* ConstructProof returns a branch: every entry is the sibling subtree, so that
\* the leaf and its branch hash to the root.
BranchVerifies ==
  pc = "return" /\ fn = "ConstructProof" /\ limit > 1 =>
    \A level \in 0..(limitDepth - 1) : branch[level] = Tree[level][SiblingAt(level)]
===============================================================================
