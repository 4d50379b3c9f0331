SPECIFICATION Spec
CONSTANTS
  OffsetLen = 1
  PrefixLen = 1
  ByteBits = 3
  ChunkLen = 2
  Types <- ByteTypes
  Objects <- FreshObject
  Inputs <- FewInputsOf
  MaxBits = 4
  MaxCalls = 1
  MaxInput = 0
  MaxFew = 5
  Few = {0, 1, 3}
INVARIANTS DecodedIsValid
CHECK_DEADLOCK FALSE
