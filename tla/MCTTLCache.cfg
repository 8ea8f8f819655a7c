SPECIFICATION Spec
CONSTANTS
  Keys = {a, b, c, d}
  Values = {v, w}
  Miss = Miss
  TTLs = {1, 2}
  Sizes = {1, 3}
  EvictBatch = 2
SYMMETRY Symmetry
INVARIANTS
  TypeOK
PROPERTIES
  ImplementsLossyCache
  GrowsOnlyToLimit
  InsertionSparesTheLiving
