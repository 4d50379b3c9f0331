SPECIFICATION Spec
CONSTANTS
  W = 2
  MaxOffset = 10
  MaxScope = 10
  MaxLength = 4
  minElemLen = 3
INVARIANTS TypeOK Tiled ElementsApart LengthBounded
