SPECIFICATION Spec
CONSTANTS
  Clients = {k1, k2}
  Rate = 2
  Per = 3
INVARIANTS
  RatePerMinute
