SPECIFICATION CodecSpec
CONSTANTS
  W = 2
  Containers <- SomeContainers
  MaxFields = 3
  MaxOffset = 9
  MaxScope = 8
  MaxWord = 9
  MaxSize = 2
  MaxStart = 1
INVARIANTS CodecTypeOK FieldsInPlace Tiled FuzzBudget OffsetsPointAtFields WrittenTells EncodedIsReadBack
