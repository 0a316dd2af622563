SPECIFICATION Spec
CONSTANTS
  p = p
  q = q
  z = z
  Trains <- MCTrains
  ZTrains <- MCZTrains
  MaxFeeds = 3
  MaxRecords = 4
  FlushLimit = 2
SYMMETRY TrainsAreAlike
INVARIANTS
  TypeOK
  ImportedInOrder
  NothingDroppedForItsId
  SameTrains
  SameOrder
