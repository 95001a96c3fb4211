SPECIFICATION Spec
CONSTANTS
  Names = {x, y}
  MaxObjects = 3
  MaxLen = 1
INVARIANT ListsEndAtTables
PROPERTY AssignsOnePlace
SYMMETRY NameSymmetry
