SPECIFICATION Spec
CONSTANTS
  zeroHashesLevels = 4
  HashFns = {sha256, blake2b}
  Sha256 = sha256
  MaxInits = 1
  MaxLimit = 9
  MaxRaceLimit = 4
  Calls = {"Merkleize", "ConstructProof"}
INVARIANTS TypeOK PendingSubtrees RootCorrect LeavesNeedNoTable FullBranch FilledInOrder
