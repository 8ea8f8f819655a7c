SPECIFICATION FairSpec
CONSTANTS
  Scripts <- ALL_TOOLS
  Tools <- MCTools
  Class <- MCClass
  NoCall = NoCall
  MaxAsked = 2
INVARIANTS
  TypeOK
  AcksAreReal
  NoUnaskedRepeats
  NotesFollowStatus
PROPERTIES
  ReadOnlyHolds
  CallsEnd
