SPECIFICATION Spec
CONSTANTS
  Scripts <- ALL_TOOLS
  Tools <- LoadedTools
  Class <- LoadedClass
  NoCall = NoCall
  MaxAsked = 1
PROPERTIES
  ReadOnlyChangesNothing
