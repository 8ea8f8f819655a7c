SPECIFICATION FairSpec
CONSTANTS
  FailureThreshold = 2
  RecoveryTimeout = 3
  HalfOpenMaxCalls = 1
  Callers = {c1, c2}
  Streamers = {s1}
  MaxAttempts = 3
  BaseDelay = 1
  MaxDelay = 8
INVARIANTS
  TypeOK
  ClosedBelowThreshold
PROPERTIES
  LockoutOnlyDrains
  CallsEnd
  RejectionsCease
