SPECIFICATION Spec
CONSTANTS
  OffsetLen = 1
  PrefixLen = 1
  ByteBits = 3
  ChunkLen = 4
  Types <- CallTypes
  Objects <- FreshObject
  Inputs <- CallInputs
  MaxBits = 4
  MaxCalls = 1
  MaxInput = 4
  MaxFew = 5
  Few = {0, 1, 2, 5, 7}
INVARIANTS CanonicalRoundTrip SizeMatches DryCheckAgreesButBytes FuzzFailsOnlyOnBits DecodedIsValidButLists PaddedBitlistRoot EndiannessIrrelevant
CHECK_DEADLOCK FALSE
