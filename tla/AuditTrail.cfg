SPECIFICATION Spec
CONSTANTS
  Recent = 2
  BufferLines = 2
  MaxEvents = 4
  MaxCalls = 4
  Garbled = Garbled
INVARIANTS
  TypeOK
  TrailInOrder
  TrailComplete
  LossesAreBounded
  
