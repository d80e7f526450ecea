SPECIFICATION Spec
CONSTANTS
  Ids <- IdsOrNegative
  PostedIds <- PostedIdsOrNegative
  Brands = {b1}
  Sizes = {8}
  Workers = {w1, w2}
  MaxBirths = 2
  NoShirt = NoShirt
  None = None
SYMMETRY Symmetry
INVARIANTS
  TypeOK
  AwaitsSound
  DuplicatesOnlyByOverlap
  WritesWhatItLoaded
  VanishedIsNotAnError
PROPERTIES
  UnmixedUpdateIsWhole
