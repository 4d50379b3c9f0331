SPECIFICATION Spec
CONSTANTS
  OffsetLen = 1
  PrefixLen = 1
  ByteBits = 3
  ChunkLen = 2
  Types <- ByteTypes
  Objects <- FreshObject
  Inputs <- CallInputs
  MaxBits = 4
  MaxCalls = 1
  MaxInput = 3
  MaxFew = 0
  Few = {0}
INVARIANTS DryCheckAgrees
CHECK_DEADLOCK FALSE
