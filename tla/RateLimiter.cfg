SPECIFICATION FairSpec
CONSTANTS
  Clients = {k1, k2}
  Rate = 2
  Per = 3
INVARIANTS
  TypeOK
  RefusedOnlyAtTheRate
PROPERTIES
  NoLockout
