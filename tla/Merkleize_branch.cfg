SPECIFICATION Spec
CONSTANTS
  zeroHashesLevels = 4
  HashFns = {sha256}
  Sha256 = sha256
  MaxInits = 0
  MaxLimit = 9
  MaxRaceLimit = 9
  Calls = {"ConstructProof"}
INVARIANT BranchVerifies
