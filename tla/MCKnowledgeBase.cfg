SPECIFICATION Spec
CONSTANTS
  COLLECTION_RUNBOOKS = runbooks
  COLLECTION_INCIDENTS = incidents
  COLLECTION_CONFIGS = incidents
  COLLECTION_SOPS = runbooks
  COLLECTION_KB = runbooks
  Ids = {e1, e2}
  Texts = {restart, failover}
  NoText = NoText
  NoDim = NoDim
  Unused = Unused
  Gone = Gone
  NoVector = NoVector
INVARIANTS
  TypeOK
  VectorsMatch
  TellsTheTruth
  ReadsAreComplete
SYMMETRY Alike
