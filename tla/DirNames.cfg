SPECIFICATION BlockSpec
CONSTANTS
  NameSize = 3
  Slots = 3
  MaxInodes = 5
  Plain <- Short
  InPaths <- Long
INVARIANT MadeIsFound
