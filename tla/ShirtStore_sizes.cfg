SPECIFICATION Spec
CONSTANTS
  Ids = {1, 2}
  PostedIds = {0}
  Brands = {b1}
  Sizes = {6, 8}
  Workers = {w1, w2}
  MaxBirths = 1
  NoShirt = NoShirt
  None = None
INVARIANTS
  SizesCorrect
