SPECIFICATION GoSpec
CONSTANTS
  OffsetLen = 1
  PrefixLen = 1
  ByteBits = 3
  ChunkLen = 2
  Types <- SomeTypes
  GoTypes <- SomeGoTypes
  GoObjects <- FreshGoObject
  Objects <- FreshObject
  Inputs <- EncodingsAndFew
  MaxBits = 6
  MaxCalls = 2
  MaxInput = 0
  MaxFew = 3
  Few = {1, 2, 7}
INVARIANTS TypeOK DestinationIrrelevant EncodedDecodes RootsDistinguish SigningRootSkipsLast BitfieldIsItsBits ObjectInMemory SquashedInline
CHECK_DEADLOCK FALSE
