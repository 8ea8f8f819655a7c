SPECIFICATION FairSpec
CONSTANTS
  Tabs = {t1, t2}
  Sessions = {default, incident}
  MAX_HISTORY_ENTRIES = 3
  MaxAsked = 3
  MaxFaults = 1
  Absent = Absent
  Empty = Empty
  Torn = Torn
INVARIANTS
  TypeOK
  ExchangesStayWhole
PROPERTIES
  SavesCatchUp
  OthersSurvive
  UnreadableIsSpared
  SavesEnd
