SPECIFICATION FairSpec
CONSTANTS
  destroy = destroy
  build = build
  Tools <- MCTools
  Class <- MCClass
  AllowedLists <- MCLists
  Requests = {r1, r2}
  Nobody = Nobody
  Sessions = {s1, s2}
  Questions = {q}
  NoKey = NoKey
  Miss = Miss
  NoTool = NoTool
  MaxIterations = 2
  MemoryWindow = 1
  Settings = {env}
  EnvSetting = env
INVARIANTS
  TypeOK
  RunsStayPermitted
  RunsAreLogged
  NoDuplicateRun
PROPERTIES
  RequestsAnswered
